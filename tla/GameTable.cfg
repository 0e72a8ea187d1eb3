SPECIFICATION Spec
CONSTANTS
  ann = ann
  bob = bob
  a1 = a1
  a2 = a2
  b1 = b1
  WinnerPay = FALSE
  User = {ann, bob}
  Conn = {a1, a2, b1}
  BattleConn = {a1, a2, b1}
  MoneyConn = {a1, a2, b1}
  UserOf <- MCUserOf
  Timer = Timer
  MaxUserCount = 2
  RoundNum = 2
  MaxObj = 3
  MaxRoom = 1
INVARIANTS OneSeatPerUser SeatsArePaidOnce RecordsMatchSeats NobodyStranded
CHECK_DEADLOCK FALSE
