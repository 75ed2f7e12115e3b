---------------------------- MODULE CoachingNotes ----------------------------
(***************************************************************************)
(* llm/generate.py and what it calls: the prompt, with what is personal    *)
(* taken away from the goal, and the attempts at a note, each validated    *)
(* and verified, until one is good or a degraded note takes its place.     *)
(*                                                                         *)
(* A text is a sequence of tokens.  An answer of the host says a note, or  *)
(* garbage when it is no JSON object, or nothing when the host fails.      *)
(***************************************************************************)
EXTENDS Naturals, Sequences

\* What the ledger and the library know of the session of the note.
Ledger == [session |-> "ours", shots |-> {1, 2}, drills |-> {"mount"}]

Note(session, passed, tone, diagnostics, notable, drills, shaped) ==
  [session |-> session, passed |-> passed, tone |-> tone, diagnostics |-> diagnostics,
   notable |-> notable, drills |-> drills, shaped |-> shaped, degraded |-> TRUE]

\* Every draft of the host that has the fields, right or wrong.
Drafts ==
  [session : STRING, passed : BOOLEAN, tone : STRING, diagnostics : SUBSET Nat, notable : SUBSET Nat,
   drills : SUBSET STRING, shaped : BOOLEAN, degraded : BOOLEAN]
Answers == [says : {"nothing", "garbage", "note"}, note : Drafts]

Degraded == Note(Ledger.session, FALSE, "silent", {}, {}, {}, TRUE)

\* The JSON Schema: fields and their forms, and a rejected note is silent.
Valid(note) == note.shaped /\ (note.passed \/ (note.tone = "silent" /\ note.diagnostics = {}))

\* Every shot and drill that a note names must be known.
Verified(note) ==
  /\ Valid(note)
  /\ note.diagnostics \cup note.notable \subseteq Ledger.shots
  /\ note.drills \subseteq Ledger.drills

\* A fault of Stamped: the model says which session it writes about.
StampedLoosely(draft) == [draft EXCEPT !.degraded = FALSE, !.passed = TRUE]

Stamped(draft) == [draft EXCEPT !.session = Ledger.session, !.degraded = FALSE, !.passed = TRUE]

\* An attempt ends the loop if the host fails or the note is good.
Ends(answer) ==
  \/ answer.says = "nothing"
  \/ answer.says = "note" /\ Verified(Stamped(answer.note))

\* answers is what the host would say to one attempt after the other; without a
\* host there is none.
Generate(answers, retries) ==
  LET ends == {k \in DOMAIN answers : k <= retries + 1 /\ Ends(answers[k])} IN
  IF ends = {} THEN Degraded
  ELSE LET last == answers[CHOOSE k \in ends : \A m \in ends : k <= m]
       IN  IF last.says = "nothing" THEN Degraded ELSE Stamped(last.note)
-----------------------------------------------------------------------------
\* What a text is made of: the name as the record has it, an alias that a search for
\* that whole name does not find (part of it, an inflection), addresses and numbers of
\* the forms that the patterns know, a tag of the prompt, what they are replaced by.
Tokens ==
  {"word", "name", "alias", "email", "phone", "tag", "pseudonym", "no_email", "no_phone", "lt"}
Personal == {"name", "alias", "email", "phone"}

Replace(text, found, by) == [k \in DOMAIN text |-> IF text[k] \in found THEN by ELSE text[k]]

\* The pseudonym has seven digits, as a phone number may.
LooksLikePhone == {"phone", "pseudonym"}

\* The name of an athlete whose record has none is not looked for.
Name(named) == IF named THEN {"name"} ELSE {}

\* A fault of Stripped: the name goes first.
StrippedNameFirst(text, named) ==
  Replace(Replace(Replace(text, Name(named), "pseudonym"), {"email"}, "no_email"), LooksLikePhone, "no_phone")

Stripped(text, named) ==
  Replace(Replace(Replace(text, {"email"}, "no_email"), LooksLikePhone, "no_phone"), Name(named), "pseudonym")

\* No tag of the prompt can be part of what it encloses.
Escaped(text) == Replace(text, {"tag"}, "lt")

\* build_prompt: only the goal is stripped; the notes of the history are escaped, and
\* should have been stripped when they were indexed; the features are the server's own.
Prompt(named, features, history, goal) ==
  [features |-> features, history |-> Escaped(history), goal |-> Escaped(Stripped(goal, named))]
=============================================================================
