----------------------------- MODULE MCBalance -----------------------------
(***************************************************************************)
(* The instance of Balance that TLC checks: two mapped accounts, one that  *)
(* is not, and amounts with none, one, two and four digits behind the      *)
(* point.                                                                  *)
(***************************************************************************)
EXTENDS Balance

Split(from, to, amount) == [source |-> from, destination |-> to, amount |-> amount]
Notice(last4, amount, day) == [kind |-> "notice", last4 |-> last4, amount |-> amount, asOf |-> day]
Other == [kind |-> "other"]

MCAccountMap == [n \in {"1111", "2222"} |-> IF n = "1111" THEN "savings" ELSE "salary"]

(* A transfer, a deposit, and a withdrawal of two splits.                   *)
MCShapes ==
    { <<Split("savings", "salary", Decimal(0, <<0, 5>>))>>,
      <<Split("shop", "savings", Decimal(7, <<5>>))>>,
      <<Split("savings", "shop", Decimal(2, <<5, 0, 0, 0>>)),
        Split("savings", "rent", Decimal(5, <<>>))>> }

MCMails ==
    { Other,
      Notice("1111", Decimal(7, <<5>>), 1), Notice("1111", Decimal(7, <<4, 5>>), 2),
      Notice("2222", Decimal(0, <<0, 5>>), 2),
      Notice("3333", Decimal(1, <<0, 0>>), 2) }
=============================================================================
