---------------------------- MODULE ExclusionList ----------------------------
(***************************************************************************)
(* data/exclusion_list.py: the file of the hashes of samples that must not *)
(* be trained on, as processes use it that keep what they have read of it, *)
(* and the batches of samples they select, data/provenance.py.  No script  *)
(* joins the two yet: a caller is taken to ask contains of each sample and *)
(* to hand what is excluded to filter_for_training.                        *)
(***************************************************************************)
EXTENDS Naturals, Sequences, FiniteSets, SequencesExt

CONSTANTS Trainers, Hashes, MaxLines

ASSUME ExclusionAssumption == MaxLines \in Nat /\ IsFiniteSet(Hashes)

VARIABLES
  lines,       \* of the file
  cache,       \* of each process: what it has read, Unread before
  toldAt,      \* a history: the lines when the process last read the file
  batch        \* of each process: the hashes of the samples it selected last

exclusionVars == <<lines, cache, toldAt, batch>>

Unread == "unread"
Samples == [hash : Hashes, consent : BOOLEAN]

ExclusionInit ==
  /\ lines = <<>>
  /\ cache = [t \in Trainers |-> {Unread}]
  /\ toldAt = [t \in Trainers |-> 0]
  /\ batch = [t \in Trainers |-> {}]

\* A fault of Reloaded: what was read is kept, and nothing is read.
ReloadedNever(known, file) == IF known = {Unread} THEN ToSet(file) ELSE known

Reloaded(known, file) == ToSet(file)

\* _load: the file is read once.
Loaded(t) == IF cache[t] = {Unread} THEN ToSet(lines) ELSE cache[t]
ReadNow(t) == IF cache[t] = {Unread} THEN [toldAt EXCEPT ![t] = Len(lines)] ELSE toldAt

\* add: a hash that the process knows of is not written again; one that another
\* process has written meanwhile is.
Add(t, hash) ==
  /\ Len(lines) < MaxLines
  /\ lines' = IF hash \in Loaded(t) THEN lines ELSE Append(lines, hash)
  /\ cache' = [cache EXCEPT ![t] = Loaded(t) \cup {hash}]
  /\ toldAt' = ReadNow(t)
  /\ UNCHANGED batch

Reload(t) ==
  /\ cache' = [cache EXCEPT ![t] = Reloaded(cache[t], lines)]
  /\ toldAt' = [toldAt EXCEPT ![t] = Len(lines)]
  /\ UNCHANGED <<lines, batch>>

\* filter_for_training: consent, and not on the list as the process knows it.
ForTraining(samples, excluded) == {s \in samples : s.consent /\ s.hash \notin excluded}

Select(t, samples) ==
  /\ cache' = [cache EXCEPT ![t] = Loaded(t)]
  /\ toldAt' = ReadNow(t)
  /\ batch' = [batch EXCEPT ![t] = {s.hash : s \in ForTraining(samples, Loaded(t))}]
  /\ UNCHANGED lines

ExclusionNext ==
  \E t \in Trainers :
    \/ \E h \in Hashes : Add(t, h)
    \/ Reload(t)
    \/ \E samples \in SUBSET Samples : Select(t, samples)
=============================================================================
