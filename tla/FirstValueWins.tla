--------------------------- MODULE FirstValueWins ---------------------------
(***************************************************************************)
(* What every CSV importer promises about the values it stores: the        *)
(* conflict policy of the module docstrings of services/registration_      *)
(* import/service.py, services/schedule_import/service.py and services/    *)
(* room_import.py.  `facts` maps each identifier that has a value to it;   *)
(* an import adds values where there were none, all at its commit, and     *)
(* changes no other.  A database reset forgets everything at once.         *)
(***************************************************************************)
VARIABLE facts

Init == facts = << >>

Learn ==
    /\ DOMAIN facts \subseteq DOMAIN facts'
    /\ \A key \in DOMAIN facts : facts'[key] = facts[key]

Forget == facts' = << >>

Next == Learn \/ Forget

Spec == Init /\ [][Next]_facts
=============================================================================
