------------------------------ MODULE Support -------------------------------
(***************************************************************************)
(* One support ticket: the client who opened it, the shop it concerns, the *)
(* agents who share the queue, the administration.  Status, assignment,    *)
(* messages and rating are written under the lock of the ticket, found     *)
(* among those the user may see.  A reclassification is not: it saves the  *)
(* whole row it read.                                                      *)
(***************************************************************************)
EXTENDS Integers, FiniteSets, Sequences

CONSTANTS
  Agents,       \* the SUPPORT accounts
  FilMax,       \* bound: messages of the ticket
  PiecesMax     \* ATTACHMENTS_PER_MESSAGE

ASSUME SupportOk ==
  /\ PiecesMax \in Nat \ {0} /\ FilMax \in Nat
  /\ Agents \cap {"admin", "client", "vendeur", "personne"} = {}

VARIABLES
  ticket,        \* SupportTicket: status, assigned_to, vendor, satisfaction_rating
  fil,           \* TicketMessage, in order, each with its attachments
  reclassement,  \* a PATCH of category or priority in flight: its author and the row it read
  ferme,         \* history: the messages the ticket had when it was closed, -1 before
  intervenants,  \* history: agents who acted since the administration last assigned it
  rouvert        \* history: a reclassification wrote back a row that had changed

supportVars == <<ticket, fil, reclassement, ferme, intervenants, rouvert>>

Status == {"open", "in_progress", "waiting_customer", "resolved", "closed"}
Admin == "admin"
STAFF_ROLES == Agents \cup {Admin}
Interlocuteurs == STAFF_ROLES \cup {"client", "vendeur"}
NonAssigne == "personne"
AucunReclassement == [par |-> NonAssigne]

SupportTicket == [statut: Status, agent: STAFF_ROLES \cup {NonAssigne}, boutique: BOOLEAN, note: BOOLEAN]
TicketMessage == [auteur: Interlocuteurs, interne: BOOLEAN, pieces: 0..PiecesMax]

SupportTypes ==
  /\ ticket \in SupportTicket
  /\ fil \in Seq(TicketMessage)
  /\ reclassement \in {AucunReclassement} \cup [par: STAFF_ROLES, ligne: SupportTicket]
  /\ ferme \in -1..FilMax
  /\ intervenants \subseteq Agents /\ rouvert \in BOOLEAN

\* The category says whether the shop is concerned.
SupportInit ==
  /\ ticket \in {[statut |-> "open", agent |-> NonAssigne, boutique |-> b, note |-> FALSE] : b \in BOOLEAN}
  /\ fil = <<>>
  /\ reclassement = AucunReclassement
  /\ ferme = -1 /\ intervenants = {} /\ rouvert = FALSE

ALLOWED_TRANSITIONS ==
  [open |-> Status \ {"open"},
   in_progress |-> {"waiting_customer", "resolved", "closed"},
   waiting_customer |-> {"in_progress", "resolved", "closed"},
   resolved |-> {"in_progress", "closed"},
   closed |-> {}]

-----------------------------------------------------------------------------
(* Who sees the ticket, and who takes it.                                   *)

\* get_visible_tickets, evaluated again once the row is locked.
Visible(u) ==
  CASE u \in Agents -> ticket.agent \in {u, NonAssigne}
    [] u = "vendeur" -> ticket.boutique
    [] OTHER -> TRUE

Laisser(l, u) == l
\* take_if_unassigned: an agent who acts on a ticket of the queue takes it.
Prendre(l, u) == IF u \in Agents /\ l.agent = NonAssigne THEN [l EXCEPT !.agent = u] ELSE l

Agir(u) == intervenants' = IF u \in Agents THEN intervenants \cup {u} ELSE intervenants

Clore(l) == ferme' = IF ferme = -1 /\ l.statut = "closed" THEN Len(fil) ELSE ferme

-----------------------------------------------------------------------------
(* Status and assignment.                                                   *)

ChangerStatut(u, s) ==
  /\ Visible(u)
  /\ u \in STAFF_ROLES \/ (u = "client" /\ s = "closed")
  /\ s \in ALLOWED_TRANSITIONS[ticket.statut]
  /\ ticket' = [Prendre(ticket, u) EXCEPT !.statut = s]
  /\ Clore(ticket')
  /\ Agir(u)
  /\ UNCHANGED <<fil, reclassement, rouvert>>

\* An agent takes for itself; the administration gives to anyone of the staff.
Assigner(u, a) ==
  /\ Visible(u) /\ ticket.statut # "closed"
  /\ IF u \in Agents THEN a = u /\ Agir(u)
     ELSE u = Admin /\ intervenants' = {}
  /\ ticket' = [ticket EXCEPT !.agent = a]
  /\ UNCHANGED <<fil, reclassement, ferme, rouvert>>

\* SupportTicketRateView: its creator, once, when it is resolved or closed.
Noter ==
  /\ ticket.statut \in {"resolved", "closed"} /\ ~ticket.note
  /\ ticket' = [ticket EXCEPT !.note = TRUE]
  /\ UNCHANGED <<fil, reclassement, ferme, intervenants, rouvert>>

-----------------------------------------------------------------------------
(* Messages.                                                                *)

\* A public answer of the staff opens the work, one of the client takes it up again.
StatutApres(l, u, interne) ==
  CASE interne -> l.statut
    [] u \in STAFF_ROLES -> IF l.statut = "open" THEN "in_progress" ELSE l.statut
    [] OTHER -> IF l.statut \in {"waiting_customer", "resolved"} THEN "in_progress" ELSE l.statut

EcrireMessage(u, interne) ==
  /\ Visible(u) /\ ticket.statut # "closed"
  /\ interne => u \in STAFF_ROLES
  /\ Len(fil) < FilMax
  /\ fil' = Append(fil, [auteur |-> u, interne |-> interne, pieces |-> 0])
  /\ ticket' = [Prendre(ticket, u) EXCEPT !.statut = StatutApres(ticket, u, interne)]
  /\ Agir(u)
  /\ UNCHANGED <<reclassement, ferme, rouvert>>

\* The author of a message, while the ticket is open to messages: check_new_attachment.
JoindrePiece(u, i) ==
  /\ Visible(u) /\ ticket.statut # "closed"
  /\ fil[i].auteur = u
  /\ fil[i].pieces < PiecesMax
  /\ fil' = [fil EXCEPT ![i].pieces = @ + 1]
  /\ UNCHANGED <<ticket, reclassement, ferme, intervenants, rouvert>>

-----------------------------------------------------------------------------
(* A reclassification: the row is read without a lock, then saved whole.    *)

LireTicket(u) ==
  /\ u \in STAFF_ROLES /\ Visible(u)
  /\ reclassement = AucunReclassement
  /\ reclassement' = [par |-> u, ligne |-> ticket]
  /\ UNCHANGED <<ticket, fil, ferme, intervenants, rouvert>>

Reclasser ==
  /\ reclassement # AucunReclassement
  /\ rouvert' = (rouvert \/ reclassement.ligne # ticket)
  /\ ticket' = Prendre(reclassement.ligne, reclassement.par)
  /\ reclassement' = AucunReclassement
  /\ Agir(reclassement.par)
  /\ UNCHANGED <<fil, ferme>>

SupportNext ==
  \/ \E u \in Interlocuteurs :
       \/ \E s \in Status : ChangerStatut(u, s)
       \/ \E a \in STAFF_ROLES : Assigner(u, a)
       \/ \E interne \in BOOLEAN : EcrireMessage(u, interne)
       \/ \E i \in DOMAIN fil : JoindrePiece(u, i)
       \/ LireTicket(u)
  \/ Noter
  \/ Reclasser

SupportSpec == SupportInit /\ [][SupportNext]_supportVars

-----------------------------------------------------------------------------
(* A closed ticket is final and takes no more messages, and two agents never
   work on one ticket unless the administration gave it to the second
   (apps/support/services.py:5-12).  A reclassification that wrote a stale row
   back is the exception: it may reopen the ticket or change its agent. *)
TicketTenu ==
  ~rouvert =>
    /\ ferme # -1 => ticket.statut = "closed" /\ Len(fil) = ferme
    /\ intervenants \subseteq {ticket.agent}
=============================================================================
