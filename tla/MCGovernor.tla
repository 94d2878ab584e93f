----------------------------- MODULE MCGovernor -----------------------------
(***************************************************************************)
(* Small instances of Governor. Handlers and nulls are model values; the   *)
(* .cfg of a run picks the requests, policies and hooks of its scenario.   *)
(***************************************************************************)
EXTENDS Governor, TLC

HandlerSymmetry == Permutations(Spenders) \cup Permutations(Deciders)
SpenderSymmetry == Permutations(Spenders)

OneUser   == {"owner"}
TwoAgents == {"a1", "a2"}
OneAgent  == {"a1"}
AllOwned  == [a \in Agents |-> "owner"]
OneKey    == {"r1"}
TwoKeys   == {"r1", "r2"}

\* Raw and normalised vendor names: trimmed, in lower case.
VendorNames  == {" Shop", "shop", "other", " ", ""}
VendorNormal == (" Shop" :> "shop") @@ ("shop" :> "shop") @@ ("other" :> "other")
                  @@ (" " :> "") @@ ("" :> "")

Spend(a, rid, amount, vendor) ==
  [agent |-> a, rid |-> rid, amount |-> amount, vendor |-> vendor]

\* Two agents of one user over two request ids. a1's two fit in the balance and pass
\* his daily limit together, one of each agent exceed the balance, one id is used by
\* both agents, each policy leaves one vendor out.
MixedRequests == {Spend("a1", "r1", 2, " Shop"), Spend("a1", "r2", 2, "shop"),
                  Spend("a2", "r2", 3, "other")}

Generous == [limit |-> 3, allowed |-> {" Shop", "other"}, threshold |-> 0]
Tight    == [limit |-> 2, allowed |-> {"shop", " "}, threshold |-> 1]
BothPolicies  == {Generous, Tight}
A1HasPolicy   == [a \in Agents |-> IF a = "a1" THEN Generous ELSE NoPolicy]

\* Requests above the threshold, which wait for a decision, and one below it; the
\* two pending ones exceed the balance and the daily limit together.
PendingRequests == {Spend("a1", "r1", 3, "shop"), Spend("a1", "r2", 2, "shop"),
                    Spend("a1", "r2", 1, "shop")}
\* One request above the threshold, sent again by an honest client.
RetriedPending == {Spend("a1", "r1", 3, "shop")}
\* The same id with two amounts: one is pending, the other is approved by the rules.
DuplicateRequests == {Spend("a1", "r1", 3, "shop"), Spend("a1", "r1", 1, "shop")}
\* A pending spend of the whole daily limit and a small one.
LimitRequests == {Spend("a1", "r1", 4, "shop"), Spend("a1", "r2", 1, "shop")}
\* One honest client that retries, under a policy whose limit it would meet if it
\* were charged twice.
RetriedRequest == {Spend("a1", "r1", 2, "shop")}
Roomy      == [limit |-> 4, allowed |-> {"shop"}, threshold |-> 0]
OnlyRoomy  == {Roomy}
AllRoomy   == [a \in Agents |-> Roomy]
Strict      == [limit |-> 4, allowed |-> {"shop"}, threshold |-> 1]
OnlyStrict  == {Strict}
AllStrict   == [a \in Agents |-> Strict]
People      == {"boss", "clerk"}
Bosses      == {"boss"}

FourCents == [u \in Users |-> 4]
SixCents  == [u \in Users |-> 6]
NoHook    == {}
OneHook   == {"h1"}
HooksOfA1 == [h \in Hooks |-> "a1"]
BothEvents == [h \in Hooks |-> Events]
=============================================================================
