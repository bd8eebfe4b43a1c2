------------------------------ MODULE MCPush --------------------------------
(* Push on small sets, for TLC.                                             *)
EXTENDS Push, TLC

CONSTANTS ann, bob, phone, tablet

MCHome == phone :> "production" @@ tablet :> "sandbox"

Message(m) == [type |-> "new_message", trigger |-> m, entity |-> "conversation", user |-> ann]
Paid == [type |-> "payment_success", trigger |-> "payment", entity |-> "booking", user |-> bob]
MCCauses == {Message("m1"), Message("m2"), Paid}

MCSettings ==
    {{"race", "fail", "phones"}, {"race", "fail", "many"}, {"race", "taste"}, {"race", "inbox"},
     {"fail", "kill", "phones"}, {"many", "inbox", "disabled"}}
MCChoices == {{"message"}, {"message", "payment"}}
Symmetry == Permutations(Requests)
=============================================================================
