--------------------------- MODULE MCTelegramBot ---------------------------
(* Instances of TelegramBot for TLC. *)
EXTENDS TelegramBot, TLC

CONSTANTS g1

Row(role, status) == [role |-> role, status |-> status, lang |-> "en"]
Someone == {Nobody, Row("manager", "active"), Row("owner", "pending")}

Everything ==
    {<<"start", None>>, <<"start", "invite">>, <<"register", None>>, <<"invite", None>>,
     <<"submit", None>>, <<"language", "am">>, <<"role", "waiter">>,
     <<"role", "manager">>, <<"share", None>>, <<"photo", None>>, <<"photo", g1>>}

Symmetry == Permutations(Updates)
=============================================================================
