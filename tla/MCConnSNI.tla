------------------------------ MODULE MCConnSNI ------------------------------
(***************************************************************************)
(* Instance of Conn for the target domain and SNI: one policy flag,       *)
(* extendedRandom, a non-nil CA pool, the caller's domain, and two hosts  *)
(* a followed redirect may leave in c.domain: another host with its port  *)
(* (a Location such as "https://b.example:8443/") and the empty host of a *)
(* relative Location.                                                      *)
(***************************************************************************)
EXTENDS MCConn

MCSNIUsedFlags == {"onlyDHE", "extendedRandom"}
MCSNICAPools == {[pool |-> "caPool"]}
MCSNIDomains == {"", "a.example"}
MCSNILocationHosts == {"", "b.example:8443"}

=============================================================================
