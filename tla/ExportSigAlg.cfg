SPECIFICATION Spec
\* MarshalJSON is called once per value; the model stops after it.
CHECK_DEADLOCK FALSE
INVARIANTS
    TypeOK
    IdsRoundTrip
