------------------------------- MODULE MCStanding -------------------------------
EXTENDS Standing

Bought(amount, hour) == [amount |-> amount, hour |-> hour]

(* Around the mean of 1000 won; at 5486 the deviation is 4.5, and at night *)
(* the score lies between 0.69995 and 0.7.                                 *)
MCPurchases == {Bought(3100, 12), Bought(4600, 12), Bought(5486, 3), Bought(5486, 5), Bought(9000, 2)}
MCProfiles == {[avg |-> 1000, std |-> 997], [avg |-> 1000, std |-> 0]}
MCChances == {0, 9000}
MCStarts == {10, 30, 70}
MCLimits == {[left |-> 31, days |-> 31], [left |-> 30, days |-> 31], [left |-> -1, days |-> 1]}

MCCodes == [housing |-> {"WITH_FAMILY", "DORM_SHARE", "UNKNOWN"},
            work    |-> {"FREELANCE"},
            leisure |-> {"SOCIAL"}]

(* 100.4 won a month towards 1004 won.                                     *)
MCPennies == [a \in Amounts |-> IF a = "income" THEN 1004 ELSE IF a = "deposit" THEN 10040 ELSE 0]
MCForms ==
  {[a \in Amounts |-> Unknown],
   [a \in Amounts |-> IF a = "income" THEN 10000005 ELSE Unknown],
   [a \in Amounts |-> IF a = "income" THEN 8000000 ELSE 0],
   MCPennies}
MCReplies == {[status |-> "INPUT", amount |-> 70000000], [status |-> "OK", amount |-> 180000000],
              [status |-> "FAILED_PRECONDITION", amount |-> 1], [status |-> "UNAVAILABLE", amount |-> 1]}
MCChanges == {-500000, -5, 0}
================================================================================
