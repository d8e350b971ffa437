--------------------------- MODULE MCLiveControl ---------------------------
(* Instances of LiveControl for TLC. *)
EXTENDS LiveControl, TLC

CONSTANTS mainAcct, spareAcct

TwoAccounts == {mainAcct, spareAcct}
OnlyA       == {mainAcct}
(* The smaller account can hold the position of LongWide only.             *)
Margins     == (mainAcct :> 40) @@ (spareAcct :> 9)

Ticket(side, entry, stop, target, price, risk, leverage) ==
  [side |-> side, entry |-> entry, stop |-> stop, target |-> target,
   price |-> price, risk |-> risk, leverage |-> leverage, maxLever |-> 75,
   lots |-> 10, step |-> 2, minLots |-> 2, minNotional |-> 5]

Long      == Ticket("BUY", 1000, 990, 1015, 1003, 5, 50)
LongWide  == Ticket("BUY", 1000, 950, 1060, 1000, 9, 50)
Short     == Ticket("SELL", 1000, 1004, 990, 998, 7, 60)
ShortStale == Ticket("SELL", 1000, 1020, 990, 985, 6, 25)
Uneven    == Ticket("SELL", 1000, 1007, 0, 1000, 9, 100)
TooCostly == Ticket("BUY", 1000, 999, 1005, 1000, 5, 75)
TooSmall  == Ticket("BUY", 1000, 400, 1500, 1000, 50, 10)

OneTicket == {Long}
AllTickets == {Long, LongWide, Short, ShortStale, Uneven, TooCostly, TooSmall}
=============================================================================
