----------------------------- MODULE TableRetours -----------------------------
(***************************************************************************)
(* The table of the returns (TRANSITIONS of apps/retours/services.py): who *)
(* may take a return from which statuses to which one, and the check that  *)
(* goes with it.  Retours follows it; Avertissements asks whether those    *)
(* whom it awaits are told.                                                *)
(***************************************************************************)

STATUTS_REFUS == {"refuse_vendeur", "refuse_moderation"}

Regle(action, depuis, vers, acteurs, controle) ==
    [action |-> action, depuis |-> depuis, vers |-> vers, acteurs |-> acteurs, controle |-> controle]

Boutique == {"vendeur", "administration"}

STATUTS_ANNULABLES == {"demande", "approuve", "en_moderation", "en_arbitrage"} \union STATUTS_REFUS

TRANSITIONS ==
    {Regle("approuver", {"demande"}, "approuve", {"vendeur"}, "echeance_vendeur"),
     Regle("approuver", {"en_moderation"}, "approuve", {"moderation"}, "aucun"),
     Regle("approuver", {"en_arbitrage"}, "approuve", {"administration"}, "aucun"),
     Regle("rejeter", {"demande"}, "refuse_vendeur", {"vendeur"}, "echeance_vendeur"),
     Regle("rejeter", {"approuve"}, "refuse_vendeur", {"vendeur"}, "approbation_du_vendeur"),
     Regle("rejeter", {"en_moderation"}, "refuse_moderation", {"moderation"}, "aucun"),
     Regle("rejeter", {"en_arbitrage"}, "rejete", {"administration"}, "aucun"),
     Regle("contester", {"refuse_vendeur"}, "en_moderation", {"client"}, "contestation"),
     Regle("contester", {"refuse_moderation"}, "en_arbitrage", {"client"}, "contestation"),
     Regle("en_transit", {"approuve"}, "en_transit", {"client"} \union Boutique, "aucun"),
     Regle("receptionner", {"approuve", "en_transit"}, "receptionne", Boutique, "aucun"),
     Regle("rembourser", {"receptionne"}, "rembourse", Boutique, "aucun"),
     Regle("cloturer", {"rembourse"}, "cloture", Boutique, "aucun"),
     Regle("annuler", STATUTS_ANNULABLES, "annule", {"client"}, "aucun"),
     Regle("escalader", {"demande"}, "en_moderation", {"systeme"}, "echeance_vendeur_passee"),
     Regle("clore_refus", STATUTS_REFUS, "rejete", {"systeme"}, "contestation_passee")}
===============================================================================
