# TLA+ models of tls-banner-grab-go (zgrab's `zlib.Conn` and the ztls handshake log)

This directory holds the TLA+ project that sits beside the Go code. It covers
`src/zlib/conn.go`, the scan connection `zlib.Conn`, and
`src/unnamed/part_000`, the ztls handshake log and key-exchange decoders. The
modules are checked with TLC. Each section says which source lines a module
translates and what the runs show. `PROJECT.json` is the machine-readable
form: components, runs, mutants, the definition-to-line map, findings and
hazards.

## 1. Inventory

### Components

| Component | Source | State it keeps | Operations |
|---|---|---|---|
| Key-exchange parameter decoders | part_000 `DHParams.unmarshal`, `rsaExportParams.MakeLog`, `DHParams.MarshalJSON` | none (pure) | decode three length-prefixed big-endian fields; fold the exponent into a uint32; take the modulus magnitude and bit length |
| Cipher-family table | part_000 `setSkx` (uses `ztls.RSAExportCiphers`, `DHEExportCiphers`, `DHECiphers`; the lists live in ztls, outside this repository) | static lists | family lookup, first match in code order |
| Handshake recorder | part_000 `ServerHandshake`, the `MakeLog` methods, `setSkx` | the `ServerHandshake` record: hello, certificates, key exchange, RSA-export / DH-export / DH params, finished | record each server message as the ztls client receives it |
| Export signature-algorithm names | part_000 `ExportSignatureAlgorithm.MarshalJSON` | two static name tables | split a 16-bit value into hash/alg ids and name them with bounds checks |
| Connection upgrade state machine | conn.go `Conn`, `TLSHandshake`, `sendStartTLSCommand`, `SMTP/POP3/IMAPStartTLSHandshake`, `GetFTPSCertificates`, `CheckHeartbleed`, setters | `isTls`, `tlsConn`, nine cipher-policy booleans, `noSNI`, `domain`, `extendedRandom`, cached deadlines, `grabData` | set policy, domain and no-SNI, negotiate STARTTLS, handshake, probe Heartbleed, close |
| Pass-through I/O | conn.go `Write`, `Read`, `BasicBanner`, the SMTP/POP3/IMAP banner and reply readers, `EHLO`, `SMTPHelp`, `SendModbusEcho`, `SSHHandshake` | the `grabData` fields they overwrite | read or write the conn chosen by `getUnderlyingConn` (SSH always uses the raw socket) |
| Deadline cache | conn.go `SetDeadline`, `SetReadDeadline`, `SetWriteDeadline`, lines 439-440 | `readDeadline`, `writeDeadline` | cache the deadline and apply it to the current conn; apply it again to the new TLS conn |
| HTTP grabber | conn.go `HTTP`, `doProxy`, `doHTTP`, `makeHTTPRequest`, `sendHTTPRequestReadHTTPResponse` | `grabData.HTTP` and `c.domain`, which a redirect overwrites | optional proxy CONNECT, a request, and a redirect loop bounded by `MaxRedirects` |

### How the components interact

A caller makes one `Conn` per target. It calls the setters first, then a
single sequence of calls on one goroutine, for example banner, STARTTLS,
handshake, then probes. `TLSHandshake` reads the policy booleans. It builds a
ztls config, wraps the socket with `ztls.Client`, and sets `isTls` *before*
the handshake runs. While the ztls client receives the server's messages it
calls the recorder (`MakeLog`, `setSkx`). The recorder calls the decoders.
`TLSHandshake` then stores the resulting `ServerHandshake` in
`grabData.TLSHandshake`, whatever the outcome. Every other call reaches the
network through `getUnderlyingConn`, which returns the TLS conn once `isTls`
is set. The peer and ztls are the environment: they decide what each read
returns and how a handshake ends.

### What is hard here

Nothing runs concurrently inside one `Conn`. The hard parts are sequences of
legal calls and environment answers that nobody writes a test for:

- A handshake that fails still leaves `isTls` set. After that, the Heartbleed
  probe gets past its guard, a retry is refused as a "repeat handshake", and
  pass-through calls use the broken TLS conn.
- Several policy flags can be set at once. Each set flag overwrites the list
  chosen by the ones checked before it, while `ForceSuites` only accumulates.
- Short, refused or errored STARTTLS replies.
- `ErrUnimplementedCipher` is turned into success under `ForceSuites`.
- Hostile key-exchange bytes: truncated fields, over-long declared lengths,
  a field that fills the buffer exactly, and exponents wider than 32 bits.
- A suite that appears in more than one cipher family.

### What makes each component correct

- **Decoders.** DH parameters appear exactly when the payload frames three
  fields, with exactly those magnitudes. The RSA exponent is exact whenever
  it fits 32 bits.
- **Recorder.** At most one kind of parameters is recorded, and it is the
  kind for the negotiated suite's family.
- **Conn.**
  - The handshake log is written once and never replaced.
  - A handshake started by STARTTLS is backed by an accepted reply that is
    still on record and was read without an error: a reply cut off by a
    timeout or a full buffer never starts the handshake, even when the part
    read looks like a go-ahead.
  - An incomplete handshake is reported as success only as a forced-suite
    measurement.
  - The Heartbleed probe runs only after a completed handshake (this is the
    spec's promise; the code breaks it, see findings).
  - The handshake sends the caller's target domain as SNI unless SNI is
    disabled (the spec's promise; the code breaks it, see findings).
- **Modbus echo.** The peer receives the request bytes exactly once, in
  order, however writes are split, and the call returns.
- **Deadline cache.** The conn every blocking call uses has the deadlines
  the caller last asked for, before and after the upgrade.
- **HTTP grabber.** The call returns; it sends at most `MaxRedirects`
  redirect requests; nothing reaches the target through a proxy that refused
  CONNECT; the recorded exchanges are the successful ones.
- **Export names.** The ids round-trip and a name is empty exactly beyond
  its table.

## 2. Plan

Done:

1. **`ServerHandshake`**: the recorder and the decoders.
2. **`Conn`**: the upgrade state machine.
3. **`ConnUpgrade`**: the abstract upgrade of spec 4.4, which `Conn` refines.
4. **`Deadlines`**: the deadline cache.
5. **`HTTPGrab`**: `HTTP`, `doProxy` and `doHTTP`'s redirect loop.
6. **`ExportSigAlg`**: `ExportSignatureAlgorithm.MarshalJSON`.
7. **The domain across calls**, in `Conn`: `SetDomain`, `SetNoSNI`, the SNI
   `TLSHandshake` derives from them, and `HTTP`'s rewrite of `c.domain`.
8. **`ModbusEcho`**: `SendModbusEcho`'s write loop, and the refinement of
   `ModbusSend`, its promise seen as one write.
9. **The remaining setters** in `Conn`: `SetExtendedRandom` and `SetCAPool`.

Considered and not done: a `ConnHandshake` composition of `Conn` with
`ServerHandshake` (see section 7).

## 3. Modules and their correspondence to the code

### `ServerHandshake.tla` (part_000)

- **Variables.** One variable per field of `ServerHandshake` (lines 46-54):
  `hello`, `certs`, `skx`, `rsaExport`, `dhExport`, `dh`, `finished`. An
  absent pointer is `None`.
- **Actions.** `RecvServerHello`, `RecvCertificates`, `RecvServerKeyExchange`
  and `RecvFinished` are the `MakeLog` calls, with `setSkx` for the key
  exchange. They are enabled in the order in which the (external) ztls client
  receives the messages, and the handshake may stop after any of them.
- **Decoders as operators.**
  - `ReadField` is one block of `DHParams.unmarshal`. `DHUnmarshal` chains
    three of them.
  - `RSAMakeLog` folds the exponent with `ShiftInByte`, using `FoldLeft` from
    SequencesExt.
  - `Magnitude` is `big.Int.SetBytes` followed by `Bytes()`.
  - `RSAUnmarshal` is ztls's `rsaExportParams.unmarshal`, which is not in
    this repository. It is modelled from the wire format (two length-prefixed
    fields) and marked spec-modelled.
- **Byte width.** Bytes are numbers below `ByteBase` (256 in the code). The
  check uses `ByteBase = 4`, so a 2-byte length reaches 15 and the 4-byte
  exponent register wraps at 4^4. Every width the code relies on keeps its
  number of bytes, and the arithmetic stays within TLC's 32-bit integers.

### `Conn.tla` (conn.go)

- **Variables.**
  - `flags`: the set policy booleans.
  - `isTls`.
  - `hs`: the ztls conn's handshake outcome.
  - `closed`.
  - `grabStartTLS`, `grabTLS`, `grabHeartbleed`, `grabIO`: the `grabData`
    fields, abstracted. `grabTLS` also keeps the config it was made with and
    which call started it.
  - `ret`: what the last call returned.
  - `replyErr`: a history variable, whether the read of the reply in
    `grabStartTLS` returned an error. The code keeps only the text.
  - `panicked`: a Go runtime panic. Only `HTTP` sets it: a followable 3xx
    without `Location` panics at line 332. Every action requires
    `~panicked`, so a panic ends the behaviour, and the Conn runs check no
    deadlock. The SMTP slice `StartTLS[0:3]` cannot panic, because the
    `n < 5` test comes before it.
  - `domain`, `noSNI`: `c.domain` and `c.noSNI`.
  - `target`: an auxiliary variable, the domain the caller last passed to
    `SetDomain`. The code keeps no copy of it.
  - `caPool`: `c.caPool`. `extendedRandom` is kept in `flags` with the
    policy booleans.
- **Actions.** One per public call: `SetCipherFlag` (the ten boolean
  setters, `SetExtendedRandom` included), `SetCAPool`, `SetDomain`,
  `SetNoSNI`, `SMTPStartTLSHandshake`,
  `POP3StartTLSHandshake`, `IMAPStartTLSHandshake`, `GetFTPSCertificates`,
  `DirectTLSHandshake`, `CheckHeartbleed`, `PassThrough`, `HTTP`,
  `SSHHandshake`, `Close`. `HTTP` is the grab `HTTPGrab` models in detail,
  seen from `Conn`: the conn it uses, its result, and the host of the last
  followed redirect left in `c.domain`. Each STARTTLS action includes the `TLSHandshake` call it ends
  with.
- **Policy.** `PolicyChecks` lists the nine `if` statements of
  `TLSHandshake` in code order. `TLSConfig` folds them with `SelectPolicy`. It adds
  `ServerName` (lines 400-402): `c.domain` unless `noSNI` is set or the
  domain is empty. It also adds `RootCAs` (the pool) and `ExtendedRandom`.
- **Environment.** The STARTTLS write may fail on an open socket. A
  STARTTLS read (`ReadResults`, after `util.ReadUntilRegex`) returns any
  reply of `Replies` with an error, but without one only when the
  protocol's end expression matches it (`Complete`: `smtpEndRegex`, or the
  final CRLF of the POP3 and IMAP expressions). A reply is abstracted to
  what the checks and expressions tell apart:
  - its length;
  - whether its first three bytes parse as a number, and which one;
  - whether it starts with `+`, or with `a001 OK`;
  - whether it is complete for SMTP, and whether it ends in CRLF.
  `HandshakeRuns` lists how ztls's `Handshake` can end:
  - completed;
  - `ErrUnimplementedCipher` after the hello;
  - an error before or after the hello.
  ztls offers the configured list verbatim only under `ForceSuites`, and
  otherwise only the suites it implements. This is ztls behaviour, outside
  this repository.
- **Refinement.** `Upgrade == INSTANCE ConnUpgrade WITH ...` maps:
  - `state` to `Plain` while `~isTls`, otherwise to `Established` or `Failed`
    by the handshake's outcome;
  - `log` to `grabTLS`;
  - `reply` to `grabStartTLS`;
  - `Accepts` to `ReplyAccepted`.
  `UpgradeRefinement` (= `Upgrade!Spec`) is checked as a property.
- **Abstracted away.** `maxTlsVersion` has no setter in this file, and is
  copied into the config; certificate verification is off. Deadlines are
  modelled in `Deadlines`.

### `ConnUpgrade.tla` (spec 4.4)

This is the abstract promise. A conn starts `Plain`.
- `NegotiationFails` records any reply and stays `Plain`.
- `Upgrade(via)` is the one handshake. A STARTTLS upgrade needs a reply that
  accepts it. The log is attached in the same step, and the state becomes
  `Established` or `Failed`.
- Nothing changes afterwards.

The spec's `Negotiating` and `TLSHandshaking` states exist only inside one
blocking call, so they are not observable between calls and do not appear
here. `Failed` is added because the code never returns to `Plain` after a
failed handshake.

### `Deadlines.tla` (conn.go 59-62, 90-95, 158-172, 194-196, 437-441)

- **Variables.**
  - the cache (`readDeadline`, `writeDeadline`);
  - the socket's deadlines (`raw`);
  - the new TLS conn's deadlines (`tls`);
  - `isTls` and `closed`;
  - the history variable `requested`: what the caller last asked for.
- **Actions.**
  - `SetDeadlines` is one of the three setters with a deadline from `Times`;
    each applies to the conn `getUnderlyingConn` returns.
  - `TLSHandshake` is the part of the call that creates the TLS conn,
    reapplies the cache and sets `isTls`.
  - `Close`.
- **The TLS conn's deadlines.** They are kept as the TLS conn's own state,
  starting with no deadline. Whether ztls passes them through to the socket
  is outside this repository, and the code reapplies them so as not to
  depend on it.

### `HTTPGrab.tla` (conn.go 198-385)

- **Variables.**
  - `pc`: where the blocking call is;
  - `domain` (`c.domain`) and `endpoint` (`config.Endpoint`), both
    overwritten by redirects;
  - `proxy`;
  - `response`: the response the loop examines;
  - `redirectCount`;
  - `grab`: `grabData.HTTP`;
  - `wire`: the sequence of exchanges written to and read from the socket;
  - `ret`.
- **Actions.** There is one action per network exchange or loop decision:
  - `DoProxy`;
  - `FirstRequest`;
  - `LoopExit`, the loop condition failing;
  - `LoopFail`, a location check or status case that returns an error or
    panics;
  - `UseProxyIteration`, 305: nothing is done and the count advances;
  - `FollowRedirect`.
- **Helpers.**
  - `MakeHTTPRequest` chooses the Host: `c.domain`, or the peer's address.
    `TargetRequest` replaces it with the proxy's host.
  - `Iteration` is the body's decision in code order: the `.(string)`
    assertion, the empty check, then the status switch.
- **Environment and externals.** A response's `Location` is abstracted to:
  absent, multi-valued, empty, or a URL with its host (`""` when relative),
  its RequestURI and whether it parses. `isRedirect` and
  `canRedirectWithConn` are outside this repository. They are a 3xx status
  class and a per-response flag.

### `ModbusEcho.tla` (conn.go 608-639)

- **Variables.**
  - `pc`: in the write loop, reading the response, or returned;
  - `w`: the loop's count;
  - `writes`: the segment each `Write` call put on the wire;
  - `modbus`: `grabData.Modbus`;
  - `ret`: the count and error returned.
- **Actions.**
  - `WriteStep` is one loop iteration. `Write(data[w:])` writes a prefix of
    what it is given. On an error the empty event is recorded and the write
    error returned. Otherwise the loop goes on or ends.
  - `ReadResponse` is `GetModbusResponse`, with the event recorded whether
    the read succeeded or not.
- **Refinement.** `Send == INSTANCE ModbusSend WITH ...` maps `pc` to the
  abstract phase. It maps `sent` to nothing while the loop runs, and to the
  bytes on the wire once it has left. `SendRefinement` (= `Send!Spec`) is
  checked as a property, fairness included.
- **Environment.** A `Write` without an error may be short, which goes
  beyond `io.Writer`'s contract, so every path of the loop is taken. A write
  of nothing without an error is left out: it breaks the contract of every
  `net.Conn`. The request bytes (`MarshalBinary`) and the response parser
  are outside this repository.

### `ModbusSend.tla` (the promise of `SendModbusEcho`)

The request is sent as one write. `SendAll` puts the whole request on the
wire and then `Receive` reads the response. Or `SendFails` puts a prefix on
the wire and returns the write error with that prefix's length. The event
is recorded either way, and the call returns (weak fairness). This is
`io.Writer`'s contract for the request as a whole, which the loop has to
provide over writes that may be short.

### `ExportSigAlg.tla` (part_000 121-161)

- `Marshal` is the aux record `MarshalJSON` encodes: the two bytes, and the
  names from the two tables with their bounds checks.
- One `MarshalJSON` step runs from each of the 65536 initial values.

## 4. Runs

| Run | Config | Expect | What it shows |
|---|---|---|---|
| `recorder` | `MCServerHandshake.cfg` | pass | `DHParamsFaithful`: DH params are recorded exactly for well-framed payloads of DHE suites, including exact fits, and never for truncated or over-long ones. `KeyParamsFollowFamily`: at most one kind of parameters, of the suite's family, even when a suite is in two lists. `ExponentExact`: the RSA exponent is exact when it fits 32 bits, including 5-byte exponents with a leading zero. |
| `conn` | `MCConn.cfg` | pass | `HandshakeLogWrittenOnce`, `UpgradeAuthorizedByReply`, `IncompleteSuccessIsForcedProbe`, and `UpgradeRefinement`: Conn implements the abstract upgrade. The refinement also catches a handshake log that is dropped on error, which the action property does not. |
| `conn_policy_precedence` | `MCConnPolicy.cfg` | violation | With two policy flags set, the code offers the list of the *last* one checked. The spec says the first. |
| `conn_heartbleed_after_failed_handshake` | `MCConnHeartbleed.cfg` | violation | After a failed handshake, `CheckHeartbleed` does not return its "must perform TLS handshake" error. It probes over the failed TLS conn and overwrites `grabData.Heartbleed`. |
| `conn_sni_after_redirect` | `MCConnSNI.cfg` | violation | `SNIIsTargetDomain`: the caller never sets a domain, an `HTTP` grab follows a redirect to `b.example:8443`, and a later handshake sends `b.example:8443`, port included, as SNI. A relative `Location` would instead leave no SNI at all. Spec 4.4 says SNI comes from the target domain unless disabled. |
| `modbus_echo` | `MCModbusEcho.cfg` | pass | `WireIsRequestPrefix`: however the writes are split or fail, the peer has the first `w` request bytes in order, each once, and the count returned is what is on the wire. `ModbusEchoReturns`: the call returns with the event recorded, under weak fairness. `SendRefinement`: the loop implements `ModbusSend`. |
| `conn_deadlines` | `MCDeadlines.cfg` | pass | `DeadlinesCarryOver`: after any mix of the three setters before and after the upgrade, the conn in use has the last requested deadlines. This includes the handshake itself, because the deadlines are reapplied before it runs. |
| `http` | `MCHTTPGrab.cfg` | pass | `RedirectsBounded`, `TargetOnlyThroughTunnel`, `TargetExchangesRecorded`, and `HTTPReturns` under weak fairness. |
| `http_missing_location` | `MCHTTPGrabPanic.cfg` | violation | A followable 3xx without `Location` panics at line 332, before the code's own "No location found" error. |
| `http_relative_redirect` | `MCHTTPGrabRelative.cfg` | violation | A relative `Location` sets `c.domain = ""`, so the redirect goes to the peer's IP address instead of the host being fetched. |
| `export_sig_alg` | `ExportSigAlg.cfg` | pass | `IdsRoundTrip` over all 65536 values. |
| `export_sig_alg_registry` | `ExportSigAlgRegistry.cfg` | violation | `exportHashes` starts at MD5 for id 0, but the TLS registry has none(0), md5(1), ..., sha512(6). Id 1 (MD5) is logged as SHA-1, and 4 (SHA-256) as SHA-384. |

Every property of a passing run has a mutant in `PROJECT.json`: a plausible
bug in the mapped code that TLC must catch.

- `ReadField` with an off-by-one bound.
- `setSkx` with its `else if` chain turned into independent `if`s.
- The exponent fold dropping its accumulator, or computed without the
  uint32 wrap.
- `TLSHandshake` without its repeat guard, or returning before it attaches
  the log on error.
- The POP3 check of the reply made whether or not the read failed.
- The policy checks with the Safari flags checked first.
- `getUnderlyingConn` returning `c.tlsConn` unconditionally.
- The HTTP loop:
  - `<=` instead of `<` in its condition;
  - the count advanced only on followed redirects;
  - the proxy status check dropped;
  - the first exchange recorded before the error check;
  - the `RemoteAddr` fallback dropped.
- The reapplied deadlines swapped.
- The Modbus loop writing `data` instead of `data[w:]`, dropping
  `w += written`, advancing `w` one byte too far, or returning the count
  from before the failed write.
- `byte()` dropped from the algorithm id.

## 5. Bounds and why they are enough

### `MCServerHandshake`

- **Payloads.** They are built from five field contents (empty, 1, 2 and 5
  bytes, one 5-byte value with a leading zero). The set holds every framing
  of three such fields, every truncation of those framings, and each framing
  with a trailing byte: 715 payloads. This covers the following cases:
  - a buffer shorter than a length prefix;
  - a declared length one past the end, and one exactly at the end;
  - a length whose high byte is set;
  - junk after the third field;
  - exponents that fit 4 bytes and ones that do not.
- **Suites.** Four suites. The DHE list also holds the export DHE suite, so
  the `else if` order matters.

### `MCConn`

- **Flags.** The caller may set three of the nine flags: a DHE list, an
  unforced browser list and a forced Safari list. Every ordering conflict
  between the three kinds of check arises.
- **Browser lists.** They contain one suite that ztls does not implement, so
  that `ErrUnimplementedCipher` can occur.
- **Replies.** Five replies:
  - an SMTP `220` go-ahead and a `454` refusal, both complete;
  - the POP3 `+OK` and IMAP `a001 OK` go-aheads, which end in CRLF but do
    not match `smtpEndRegex`;
  - a `+O` cut off before its CRLF. It can only be read with an error. It
    is a POP3 yes and an SMTP reply under 5 bytes.
- **Size.** The model has no counters. Every variable is finite and
  overwritten, so the state space is complete (about 506k states, 90
  seconds).
- **Config data.** The upgrade runs pass `SetCAPool` a nil pool and never
  set `extendedRandom`. Both are copied into the config and decide nothing
  that a property reads. Allowing them in `MCConn` multiplies the state
  space by nine (6.5 minutes). `MCConnSNI` sets both.
- **Domains.** The upgrade runs keep `c.domain` empty. `SetDomain`, `SetNoSNI`
  and `HTTP` still run, but only `noSNI` changes. The SNI question has its
  own instance, `MCConnSNI`: one policy flag, `extendedRandom`, a CA pool,
  the caller's domain, and two
  hosts a redirect may leave: another host with a port, and the empty host
  of a relative `Location`. `MCConn` with both domains runs for more than 3
  minutes. TLC finds the SNI violation in three steps.

### `MCDeadlines`

Three deadline values: none, t1 and t2. Two distinct values are enough for
a stale cached value to differ from the current one in either direction,
and the third is the default.

### `MCHTTPGrab`

- **Redirect bound.** `MaxRedirects = 2`. The bound is reached, and exceeded
  under the off-by-one mutant.
- **Initial conditions.** `c.domain` may be unset or a name. The call may
  run with or without a proxy.
- **Server responses.** Eleven responses, one for each case the loop tells
  apart:
  - 200, and 403 for a refused CONNECT;
  - 301 to an absolute URL, 302 to a relative one;
  - a redirect `canRedirectWithConn` refuses;
  - an unparsable URL;
  - an empty `Location`, and a missing one;
  - 304, 305 and 308.
- **Read errors.** Any read may fail instead.

### `MCModbusEcho`

A 6-symbol request: the function code and the three payload bytes of the
read-device-info request, after two symbols standing in for the header
`MarshalBinary` adds. Every way of splitting it over up to 6 writes
(`MaxWrites`) is reached, with an error possible on any write: 223 states.
Two writes are enough to tell `data` from `data[w:]`. Progress bounds the
loop at 6 calls, so `MaxWrites` only limits the mutants. Under the mutant
that never advances `w`, it keeps the write history finite.

### `ExportSigAlg`

Exhaustive over every uint16 value.

## 6. Fairness

- **`Conn` and `Deadlines`.** No fairness. A `Conn` is driven by its caller,
  and the code makes no promise that any call eventually happens.
- **`ModbusEcho`.** `WF_vars(Next)`: once called, `SendModbusEcho` runs on
  its goroutine to the end, and each `Write` and the response read return
  (with an error at the latest when a deadline passes).
- **`HTTPGrab`.** `WF_vars(Next)`. Once `HTTP` is called, each step is the
  code's own next statement on one goroutine. Every blocking read returns:
  with a response, or with an error when the caller's deadline passes (the
  spec's cancellation model). So the call is never stuck with a step
  enabled. `HTTPReturns` (`<>(pc = "done")`) holds under this fairness. It
  fails under the mutant where a 305 does not advance the count.

## 7. Not modelled, and why

- **ztls itself, the x509 decoder, the SSH client and `ftp.SetupFTPS`.** They
  are not in this repository, and appear only as environment choices.
- **A `ConnHandshake` composition of `Conn` and `ServerHandshake`.** The
  interface between them is the ztls client (outside this repository). It
  decides which suite is negotiated from the offered list and which
  messages arrive. `ServerHandshake`'s properties already hold for every
  suite and every message order the client allows. A composition would only
  feed `Conn`'s offered suites in as the suite, and would check nothing the
  two runs do not already check.
- **The Modbus request and response codecs.** `MarshalBinary`,
  `GetModbusResponse` and `ParseSelf` are external. `MarshalBinary`'s
  ignored error (line 619) would leave `data` empty and skip the loop.
- **`HTTPGrab`'s formatting.** Body truncation to `MaxSize` KiB, the SHA-256
  of the body, headers other than `Location`, the User-Agent and the URL
  scheme. They are formatting, and no property reads them.
- **What `SSHHandshake` should do after an upgrade.** It runs on the raw
  socket whatever `isTls` says, which `Conn` models. The spec gives its SSH
  collaborator the raw stream and makes no promise about this sequence, so
  there is nothing to check it against.
- **Certificate contents, random values, session ids and banner texts.**
  They are copied verbatim, and no property tells them apart.
