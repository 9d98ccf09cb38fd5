------------------------------ MODULE ReplayMap ------------------------------
(***************************************************************************)
(* What the tool memory promises its clients, without lists, blocks,       *)
(* limits or files: an id stands for the text it was issued with or for    *)
(* nothing, it can be forgotten and found again, and a history is answered *)
(* with a text only if that text was issued with every id it names.  Where *)
(* files are read in two reads, only the first part is promised.           *)
(***************************************************************************)
CONSTANTS Ids, Strings, None

VARIABLES
    issued,     \* issued[i]: the text sampled with id i, or None
    tears,      \* a file may be read in two reads
    known,      \* known[i]: what id i can be replayed as now, or None
    answer      \* the last history answered: its ids and the text replayed

vars == <<issued, tears, known, answer>>

Init ==
    /\ issued = [i \in Ids |-> None]
    /\ tears \in BOOLEAN
    /\ known = [i \in Ids |-> None]
    /\ answer = [ids |-> {}, text |-> None]

(* New ids are bound to the text just sampled.                             *)
Issue(ids, text) ==
    /\ \A i \in ids : issued[i] = None
    /\ issued' = [i \in Ids |-> IF i \in ids THEN text ELSE issued[i]]
    /\ UNCHANGED <<tears, known, answer>>

(* An id becomes known, as what it was issued with.                        *)
Know(i, text) ==
    /\ issued[i] # None
    /\ IF tears THEN text[1] = issued[i][1] ELSE text = issued[i]
    /\ known' = [known EXCEPT ![i] = text]
    /\ UNCHANGED <<issued, tears, answer>>

Forget(ids) ==
    /\ known' = [i \in Ids |-> IF i \in ids THEN None ELSE known[i]]
    /\ UNCHANGED <<issued, tears, answer>>

(* A history with these ids is rendered, from the text or canonically.     *)
Answer(ids, text) ==
    /\ text # None => ids # {} /\ \A i \in ids : known[i] = text
    /\ answer' = [ids |-> ids, text |-> text]
    /\ UNCHANGED <<issued, tears, known>>

Next ==
    \/ \E ids \in SUBSET Ids, text \in Strings : Issue(ids, text)
    \/ \E i \in Ids, text \in Strings : Know(i, text)
    \/ \E ids \in SUBSET Ids : Forget(ids)
    \/ \E ids \in SUBSET Ids, text \in Strings \cup {None} : Answer(ids, text)

Spec == Init /\ [][Next]_vars

=============================================================================
