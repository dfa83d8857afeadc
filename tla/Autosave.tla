---------------------------------- MODULE Autosave ----------------------------------
(***************************************************************************)
(* Forms of an Admin page that save themselves: public/js/admin-autosave.js*)
(* and, on the server, the name and the card display of one Tap, which     *)
(* share the Tap's updated_at as their revision.  A form is one value.     *)
(***************************************************************************)
EXTENDS Shared

CONSTANTS Form,       \* the forms of the page
          PlainForm,  \* those whose ordinary submission leaves the revision alone (display)
          Value,
          Normal,     \* [Value -> Value]: what the server makes of a value
          Invalid,    \* values it refuses
          MaxSaves, MaxEdits   \* bounds of the model

Revision == 0 .. MaxSaves
Reply == [kind : {"saved", "conflict", "invalid"}, value : Value \cup {None},
          revision : Revision]

ASSUME AutosaveAssumption ==
  /\ PlainForm \subseteq Form /\ Invalid \subseteq Value
  /\ None \notin Value /\ None \notin Reply /\ MaxSaves \in Nat /\ MaxEdits \in Nat
  /\ Normal \in [Value -> Value] /\ \A v \in Value : Normal[Normal[v]] = Normal[v]

VARIABLES row,       \* on the server: the value of every form
          updatedAt, \* and the revision they share
          forms,     \* the forms of the page
          shown,     \* the revision the page's forms carry
          unnoticed, \* forms whose row changed with no new revision since the page was loaded
          edits
tapVars == <<row, updatedAt>>
autosaveVars == <<tapVars, forms, shown, unnoticed, edits>>

FormState ==
  [dom : Value, typed : Value \cup {None}, wanted : Value, acked : Value,
   pending : Value \cup {None}, sent : Value \cup {None}, sentRevision : Revision, reply : Reply \cup {None},
   undo : Value \cup {None}, status : {"", "saving", "saved", "error", "conflict"}]

AutosaveTypeOK ==
  /\ row \in [Form -> Value] /\ updatedAt \in Revision /\ shown \in Revision
  /\ forms \in [Form -> FormState] /\ unnoticed \subseteq Form /\ edits \in 0 .. MaxEdits

Loaded(v) ==
  [dom |-> v, typed |-> None, wanted |-> v, acked |-> v, pending |-> None,
   sent |-> None, sentRevision |-> 0, reply |-> None, undo |-> None, status |-> ""]
Running(form) == form.sent # None

AutosaveInit ==
  /\ row \in [Form -> {Normal[v] : v \in Value \ Invalid}]
  /\ updatedAt = 0 /\ shown = 0 /\ unnoticed = {} /\ edits = 0
  /\ forms = [f \in Form |-> Loaded(row[f])]

-----------------------------------------------------------------------------
(* The page.  A form has one request out; what is committed meanwhile waits, the last *)
(* value only.  Each request carries the newest revision the page knows.              *)
SentNext(form, revision) ==
  IF Running(form) \/ form.pending = None THEN form
  ELSE [form EXCEPT !.sent = form.pending, !.sentRevision = revision, !.reply = None,
                    !.pending = None, !.status = "saving"]

Enqueued(form) ==
  LET v == form.dom IN
  IF v = form.pending \/ (~Running(form) /\ v = form.acked) THEN form
  ELSE [form EXCEPT !.undo = None, !.pending = v]

TypeInto(f, v) ==
  /\ edits < MaxEdits /\ edits' = edits + 1 /\ v # forms[f].dom
  /\ forms' = [forms EXCEPT ![f].dom = v, ![f].typed = v]
  /\ UNCHANGED <<tapVars, shown, unnoticed>>

Committed(form) == [form EXCEPT !.typed = None, !.wanted = form.typed]
CommitForm(f) ==
  /\ forms[f].typed # None
  /\ forms' = [forms EXCEPT ![f] = SentNext(Enqueued(Committed(@)), shown)]
  /\ UNCHANGED <<tapVars, shown, unnoticed, edits>>

(* Leaving a field for the button commits what was typed first. *)
Restored(form) == [form EXCEPT !.dom = form.undo, !.wanted = form.undo, !.undo = None]
UndoSave(f) ==
  /\ forms[f].undo # None /\ forms[f].typed = None
  /\ forms' = [forms EXCEPT ![f] = SentNext(Enqueued(Restored(@)), shown)]
  /\ UNCHANGED <<tapVars, shown, unnoticed, edits>>

UndoExpires(f) ==
  /\ forms[f].undo # None /\ forms' = [forms EXCEPT ![f].undo = None]
  /\ UNCHANGED <<tapVars, shown, unnoticed, edits>>

(* The answer to a save describes the value that was sent: it does not touch what was *)
(* typed since, and its normalization reaches a value that waits unchanged.           *)
AcknowledgedOver(form) == \* mutant: the answer replaces what was typed since
  [form EXCEPT !.dom = form.reply.value, !.acked = form.reply.value, !.status = "saved"]
Acknowledged(form) ==
  LET v == form.reply.value
      next == IF form.pending = form.sent THEN v ELSE form.pending
      waits == IF next = v THEN None ELSE next
  IN  [form EXCEPT !.dom = IF @ = form.sent THEN v ELSE @,
                   !.acked = v, !.pending = waits, !.status = "saved",
                   !.undo = IF waits = None /\ form.acked # v THEN form.acked ELSE @]

Refused(form) ==
  [form EXCEPT !.undo = None,
               !.status = IF form.reply # None /\ form.reply.kind = "conflict"
                          THEN "conflict" ELSE "error"]

Ended(form, revision) == SentNext([form EXCEPT !.sent = None, !.reply = None], revision)

SaveAnswered(f) ==
  /\ forms[f].reply # None
  /\ IF forms[f].reply.kind = "saved"
     THEN /\ shown' = forms[f].reply.revision
          /\ forms' = [forms EXCEPT ![f] = Ended(Acknowledged(@), shown')]
     ELSE forms' = [forms EXCEPT ![f] = Ended(Refused(@), shown)] /\ UNCHANGED shown
  /\ UNCHANGED <<tapVars, unnoticed, edits>>

(* The request or its answer is lost on the way. *)
SaveLost(f) ==
  /\ Running(forms[f]) /\ edits < MaxEdits /\ edits' = edits + 1
  /\ forms' = [forms EXCEPT ![f] = Ended(Refused([@ EXCEPT !.reply = None]), shown)]
  /\ UNCHANGED <<tapVars, shown, unnoticed>>

ReloadPage ==
  /\ \A f \in Form : ~Running(forms[f])
  /\ forms' = [f \in Form |-> Loaded(row[f])] /\ shown' = updatedAt /\ unnoticed' = {}
  /\ UNCHANGED <<tapVars, edits>>

-----------------------------------------------------------------------------
(* The server: a value is judged before its revision, and one that changes nothing *)
(* leaves the revision as it is.                                                   *)
Answered(f, kind, v) ==
  forms' = [forms EXCEPT ![f].reply = [kind |-> kind, value |-> v, revision |-> updatedAt']]

ServeSave(f) ==
  LET v == forms[f].sent IN
  /\ Running(forms[f]) /\ forms[f].reply = None
  /\ \/ v \in Invalid /\ UNCHANGED tapVars /\ Answered(f, "invalid", None)
     \/ /\ v \notin Invalid /\ forms[f].sentRevision # updatedAt
        /\ UNCHANGED tapVars /\ Answered(f, "conflict", None)
     \/ /\ v \notin Invalid /\ forms[f].sentRevision = updatedAt
        /\ IF Normal[v] = row[f] THEN UNCHANGED tapVars
           ELSE /\ updatedAt < MaxSaves /\ updatedAt' = updatedAt + 1
                /\ row' = [row EXCEPT ![f] = Normal[v]]
        /\ Answered(f, "saved", Normal[v])
  /\ UNCHANGED <<shown, unnoticed, edits>>

(* Another page of the Tap saves; an ordinary form also without a revision to compare. *)
SavedElsewhere(f, v) ==
  /\ updatedAt < MaxSaves /\ updatedAt' = updatedAt + 1
  /\ v \notin Invalid /\ row' = [row EXCEPT ![f] = Normal[v]]
  /\ UNCHANGED <<forms, shown, unnoticed, edits>>

PlainPost(f, v) ==
  /\ f \in PlainForm /\ v \notin Invalid /\ Normal[v] # row[f]
  /\ edits < MaxEdits /\ edits' = edits + 1
  /\ row' = [row EXCEPT ![f] = Normal[v]] /\ unnoticed' = unnoticed \cup {f}
  /\ UNCHANGED <<updatedAt, forms, shown>>

AutosaveNext ==
  \/ \E f \in Form :
       \/ CommitForm(f) \/ UndoSave(f) \/ UndoExpires(f)
       \/ ServeSave(f) \/ SaveAnswered(f) \/ SaveLost(f)
       \/ \E v \in Value : TypeInto(f, v) \/ SavedElsewhere(f, v) \/ PlainPost(f, v)
  \/ ReloadPage
AutosaveSpec == AutosaveInit /\ [][AutosaveNext]_autosaveVars

-----------------------------------------------------------------------------
(* A form that says "Saved" and is at rest shows what the server acknowledged, and that *)
(* is the last value the operator typed and committed, or restored (README: "the final   *)
(* value must match your last edit").                                                   *)
SavedIsShown ==
  \A f \in Form : LET form == forms[f] IN
    form.status = "saved" /\ ~Running(form) /\ form.typed = None =>
      form.dom = form.acked /\ form.acked = Normal[form.wanted]

(* Only a page that was shown what is stored can have the revision that lets it write:  *)
(* no save replaces another page's value unseen ("This Tap changed elsewhere. Reload    *)
(* before saving again.").  What an ordinary form wrote without a revision is excepted, *)
(* and what the page itself has on the way.                                             *)
SavesInformed ==
  \A f \in Form :
    shown = updatedAt /\ f \notin unnoticed => forms[f].acked = row[f]
      \/ (forms[f].reply # None /\ forms[f].reply.kind = "saved" /\ forms[f].reply.value = row[f])
AutosaveSound == SavedIsShown /\ SavesInformed
=============================================================================
