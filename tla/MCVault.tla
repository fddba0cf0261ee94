------------------------------- MODULE MCVault -------------------------------
(***************************************************************************)
(* Values for model checking Vault.  Everything at once is out of reach,   *)
(* so each behaviour draws from one of these mixes.  The first starts from *)
(* nothing; the others start from a vault that founding, a migration and   *)
(* deposits can have left.                                                 *)
(***************************************************************************)
EXTENDS Vault, TLC

CONSTANTS u1, u2, u3, j1, j2, t2, A, B

MCUsers   == {u1, u2, u3}
MCDevices == {j1, j2, t2}
Types     == (j1 :> "Jade") @@ (j2 :> "Jade") @@ (t2 :> "Ledger")

Row(d)  == <<[device |-> d, atPath |-> TRUE]>>
Keys    == (u1 :> Row(j1)) @@ (u2 :> Row(t2)) @@ (u3 :> Row(j2))
NoKeys  == [u \in MCUsers |-> <<>>]
Reach   == (u1 :> {j1}) @@ (u2 :> {t2, j2}) @@ (u3 :> {j2})

Seats(members) == [u \in MCUsers |-> IF u \in members THEN Keys[u][1].device ELSE NoDevice]
First(status, members, dual) ==
  [status |-> status, migration |-> "none", seats |-> Seats(members), threshold |-> 1,
   elements |-> dual, taproot |-> FALSE, change |-> [u \in MCUsers |-> "none"]]
Second(members, removed, dual) ==
  [First("active", members, dual) EXCEPT
     !.migration = "enacted",
     !.change = [u \in MCUsers |-> IF u \in members THEN "keep"
                                   ELSE IF u \in removed THEN "remove" ELSE "none"]]
Alone   == <<First("active", {u1}, FALSE)>>
Pair    == <<First("active", {u1, u2}, FALSE)>>
Dual    == <<First("active", {u1, u3}, TRUE)>>
Removed(u, dual) == <<First("superseded", {u1, u}, dual), Second({u1}, {u}, dual)>>
Funds(v, assets) == LET paid(a) == [NewCoin(v, a, FALSE, 2) EXCEPT !.confirmed = TRUE]
                    IN  SelectSeq(<<paid("BTC"), paid("L-BTC"), paid("issued")>>,
                                  LAMBDA c : c.asset \in assets)

Plan1(add, remove) == [add |-> add, remove |-> remove, m |-> 1]

\* A mix: what request A and request B may be, who asks, what else may happen,
\* how migrations change the roster, where it starts.
Mix(opsA, opsB, users, may, plans, vs, cs, assets) ==
  [serves |-> (A :> opsA) @@ (B :> opsB), users |-> users, may |-> may, plans |-> plans,
   reach |-> Reach, signers |-> Keys, versions |-> vs, coins |-> cs, assets |-> assets,
   paidUpTo |-> MaxCoins]

\* Two migrations of a lineage that starts from the first key.
Origins ==
  [Mix({"migrate"}, {"migrate"}, MCUsers,
       {"onboard", "found", "broadcast", "deposit", "max"},
       {Plan1({u3}, {}), Plan1({u3}, {u1}), [Plan1({}, {u2}) EXCEPT !.m = 2]}, <<>>, <<>>, {"BTC"})
     EXCEPT !.signers = NoKeys, !.paidUpTo = 1]
\* A member sends, and looks, while a migration removes her.
OldSigner ==
  Mix({"migrate"}, {"create", "send"}, {u1, u2}, {"broadcast"}, {Plan1({}, {u2})},
      Pair, Funds(1, {"BTC"}), {"BTC"})
\* Pages are read while a migration brings back a former member.
Readers ==
  Mix({"migrate"}, {"send", "receive", "show", "detail", "manage"}, {u1, u3},
      {"broadcast", "cancelMigration"},
      {Plan1({u3}, {}), Plan1({u3}, {u1})}, Removed(u3, TRUE), Funds(2, {"L-BTC"}), {})
\* A page is read while proposals are made, sent and cancelled.
TwoSends ==
  Mix({"create"}, {"send"}, {u1}, {"broadcast", "confirm"}, {}, Alone,
      Funds(1, {"BTC"}), {"BTC"})
\* A superseded version that is still paid, and forwarded.
Late ==
  [Mix({"create"}, {"manage"}, {u2}, {"deposit", "broadcast"}, {}, Removed(u2, FALSE),
       Funds(1, {"BTC"}), {"BTC"})
     EXCEPT !.paidUpTo = 2]
\* Both assets of an Elements wallet, which forgets them when the server restarts.
Liquid ==
  Mix({"create"}, {"send", "receive"}, {u1}, {"broadcast", "restart"}, {}, Dual,
      Funds(1, {"L-BTC", "issued"}), {"L-BTC", "issued"})
\* Rows and balance of one page under different locks.
Rows ==
  Mix({"create"}, {"receive"}, {u1}, {"max", "broadcast", "cancel"}, {}, Alone,
      Funds(1, {"BTC"}), {"BTC"})
\* Sweeps of both chains, with deposits and hang-ups in between.
Swept ==
  [Mix({"migrate"}, {"create"}, {u1}, {"broadcast", "deposit", "restart", "stop"},
       {Plan1({}, {u3})}, Dual, Funds(1, {"L-BTC"}), {"BTC", "issued"})
     EXCEPT !.paidUpTo = 2]

MCMixes == {Origins, OldSigner, Readers, TwoSends, Late, Liquid, Rows, Swept}
=============================================================================
