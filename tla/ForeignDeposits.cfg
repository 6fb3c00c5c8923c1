SPECIFICATION SpecForeign
CONSTANTS
  Authority = {a1, a2, a3}
  RequiredSignatures = 2
  Token = {k1, k2}
  NoToken = NoToken
  Deposit = {"d1", "d2"}
  Value <- MCValue
  MaxReserve = 2
INVARIANTS PaidOnceByQuorum TokenByQuorum
CHECK_DEADLOCK FALSE
