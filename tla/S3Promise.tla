------------------------------ MODULE S3Promise ------------------------------
(***************************************************************************)
(* What a bai_s3tables_table resource promises about its table, without    *)
(* saying how it loads, stages, commits and waits.  A run is to take the   *)
(* table from the resource as Terraform stores it to the resource as it is *)
(* planned.  It changes the table at most once and in one step, and it     *)
(* changes the table as it is at that step, whichever version it has       *)
(* looked at: what the plan does not mention stays as others left it.  It  *)
(* reports success only when the last version it looked at is as planned.  *)
(***************************************************************************)
EXTENDS Integers, Sequences

CONSTANT Absent   \* no table, no resource, no run

VARIABLES
    log,      \* the versions of the table, Absent where it is dropped
    known,    \* the version looked at last: no look shows an older one
    job,      \* what the run is to do, [old, new], or Absent between runs
    tried,    \* the run has had its one try at the table
    outcome   \* how the last run ended: "none", "done" or "failed"

vars == <<log, known, job, tried, outcome>>

Table == log[Len(log)]

Members(s) == {s[i] : i \in DOMAIN s}
NamesOf(s) == {s[i].name : i \in DOMAIN s}
Of(s, n)   == {x \in Members(s) : x.name = n}

Init ==
    /\ log = <<Absent>> /\ known = 1
    /\ job = Absent /\ tried = FALSE /\ outcome = "none"
------------------------------------------------------------------------------
(* A version as a resource, and a version that is as a resource says, but  *)
(* for the order of its partition fields.                                  *)
Resource(v) ==
    [fields |-> [i \in DOMAIN v.fields |->
                    [name |-> v.fields[i].name, def |-> v.fields[i].def]],
     parts  |-> v.parts]

AsPlanned(v, new) ==
    IF new = Absent \/ v = Absent THEN v = new
    ELSE /\ Resource(v).fields = new.fields
         /\ Len(v.parts) = Len(new.parts) /\ Members(v.parts) = Members(new.parts)

(* A column keeps its ID, by which its data is found, its name, and, where *)
(* old and new agree, its definition.                                      *)
SameColumn(c, d, old, new) ==
    /\ d.id = c.id /\ d.name = c.name
    /\ \/ d.def = c.def
       \/ Of(old, c.name) # Of(new, c.name) /\ [name |-> d.name, def |-> d.def] \in Members(new)

(* The columns s of a table become t, from old to new: what new no longer  *)
(* names is dropped, everything else stays and in its order, and what new  *)
(* adds comes after it, under an ID that the table has never used.         *)
Altered(s, t, next, old, new) ==
    LET dropped == NamesOf(old) \ NamesOf(new)
        added   == NamesOf(new) \ NamesOf(old)
    IN  /\ \A i \in DOMAIN s : s[i].name \notin dropped =>
              \E j \in DOMAIN t : SameColumn(s[i], t[j], old, new)
        /\ \A j \in DOMAIN t :
              \/ \E i \in DOMAIN s : s[i].name \notin dropped /\ s[i].id = t[j].id
              \/ /\ t[j].name \in added /\ t[j].id >= next
                 /\ [name |-> t[j].name, def |-> t[j].def] \in Members(new)
        /\ added \subseteq NamesOf(t)
        /\ \A j, k \in DOMAIN t : j < k =>
              \A i \in DOMAIN s : s[i].id = t[k].id =>
                 \E h \in DOMAIN s : h < i /\ s[h].id = t[j].id

(* The partition fields s become t: what old and new say of a field alike  *)
(* is not touched.                                                         *)
Repartitioned(s, t, old, new) ==
    LET differ == {n \in NamesOf(old) \cup NamesOf(new) : Of(old, n) # Of(new, n)}
    IN  Members(t) = {p \in Members(s) : p.name \notin differ}
                       \cup {p \in Members(new) : p.name \in differ}

(* What a run may make of the table v.                                     *)
Allowed(v, w, old, new) ==
    \/ old = Absent /\ v = Absent /\ w # Absent /\ AsPlanned(w, new)
    \/ new = Absent /\ v # Absent /\ w = Absent
    \/ /\ Absent \notin {old, new, v, w}
       /\ Altered(v.fields, w.fields, v.next, old.fields, new.fields)
       /\ Repartitioned(v.parts, w.parts, old.parts, new.parts)
------------------------------------------------------------------------------
Grows == Len(log') = Len(log) + 1 /\ log' = Append(log, Table')
Looks == known' \in known .. Len(log')

Changes == Grows /\ ~tried /\ Allowed(Table, Table', job.old, job.new)

(* Between runs: the last outcome is forgotten, the table looked at.       *)
Rest ==
    /\ job = Absent /\ outcome' = "none"
    /\ Looks
    /\ UNCHANGED <<log, job, tried>>

(* A run starts from no resource, or from the table as it was looked at.   *)
Start ==
    /\ job = Absent /\ outcome' = "none"
    /\ Looks
    /\ job' # Absent
    /\ job'.old # job'.new
    /\ job'.old = Absent \/ (log[known'] # Absent /\ job'.old = Resource(log[known']))
    /\ UNCHANGED <<log, tried>>

Look ==
    /\ job # Absent
    /\ Looks
    /\ UNCHANGED <<log, job, tried, outcome>>

Try ==
    /\ job # Absent /\ ~tried /\ tried'
    /\ log' = log \/ Changes
    /\ UNCHANGED <<known, job, outcome>>

(* A run ends, where it has not tried yet perhaps with its try.            *)
Return ==
    /\ job # Absent /\ job' = Absent
    /\ log' = log \/ Changes
    /\ Looks
    /\ \/ outcome' = "failed"
       \/ outcome' = "done" /\ AsPlanned(log'[known'], job.new)
    /\ ~tried'

Others ==
    /\ Grows
    /\ UNCHANGED <<known, job, tried, outcome>>

Next == Rest \/ Start \/ Look \/ Try \/ Return \/ Others

Spec == Init /\ [][Next]_vars
==============================================================================
