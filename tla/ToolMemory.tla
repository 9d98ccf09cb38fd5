----------------------------- MODULE ToolMemory -----------------------------
(***************************************************************************)
(* The tool call text memory of the server: which DSML text the model      *)
(* sampled under which tool call id, so that a history a client sends back *)
(* can be rendered from the sampled bytes.  Entries hang in a list, most   *)
(* recently used first; entries of one text share a counted block; the     *)
(* list is cut at its tail while it holds too many entries or bytes.       *)
(* tool_mu guards all of it, and a loop that runs under tool_mu is one     *)
(* step per iteration here, with mu held in between.                       *)
(*                                                                         *)
(* The map also travels to disk: a checkpoint file ends with the entries   *)
(* of the tool blocks its text contains, written under kv_mu, while a      *)
(* client thread that renders a history scans the directory without kv_mu. *)
(* A trailer that crosses the end of a stdio buffer is read in two reads.  *)
(* Another process that has the directory open may touch a file's header.  *)
(***************************************************************************)
EXTENDS FiniteSets, Functions, Integers, Sequences
SeqExt == INSTANCE SequencesExt

CONSTANTS
    Workers,    \* slot workers, which sample, store and load checkpoints
    Clients,    \* client threads, which render histories
    Ids,        \* tool call ids
    Texts,      \* tool call blocks the model can sample
    Files,      \* checkpoints, by the text they stand for
    Content,    \* Content[f]: the tool blocks in f's text, in order
    EntryBytes, \* bytes an entry counts for
    BlockBytes, \* BlockBytes[t]: bytes a block of text t counts for
    MaxEntries, \* tool_memory_max_entries
    MaxBytes,   \* tool_memory_max_bytes
    MaxCalls,   \* bound on the calls of one message
    Crosses,    \* whether trailers may cross the end of a stdio buffer
    None

ASSUME ThreadAssumption == Workers \cap Clients = {} /\ None \notin Workers \cup Clients
ASSUME TextAssumption ==
    /\ Content \in [Files -> Seq(Texts)]
    /\ None \notin Files /\ None \notin Texts \X Texts
    /\ IsFiniteSet(Ids)
ASSUME LimitAssumption ==
    /\ EntryBytes \in Nat \ {0} /\ BlockBytes \in [Texts -> Nat \ {0}]
    /\ MaxEntries \in Nat \ {0} /\ MaxBytes \in Nat \ {0} /\ MaxCalls \in Nat \ {0}
    /\ Crosses \subseteq BOOLEAN /\ Crosses # {}

VARIABLES
    mem,        \* tool_mem
    mu,         \* the thread that holds tool_mu, or None
    pc,         \* control point of each thread
    puts,       \* entries a thread still has to put
    calls,      \* ids of the message a client renders that are not looked up yet
    message,    \* the ids of that message
    matched,    \* matched: the block of the ids looked up so far, or None
    exact,      \* exact: they were all found, and in that block
    scan,       \* files the restore of a client has not read yet
    buf,        \* what a reader has in its buffer: its file, entries and cut
    file,       \* the checkpoint a worker stores
    est,        \* trailer_est_bytes > 0
    tears,      \* trailers cross the end of a stdio buffer
    disk,       \* disk[f]: flag and trailer of the checkpoint, or None
    touch,      \* ds4_kvstore_touch_file of another process, or None
    issued,     \* the text each id was sampled with, or None
    answer      \* the last message rendered: its ids and raw_tool_text

Threads == Workers \cup Clients
threadVars == <<pc, puts>>
lookVars == <<calls, message, matched, exact, scan, buf, answer>>
storeVars == <<file, est>>
diskVars == <<tears, disk, touch>>
vars == <<mem, mu, threadVars, lookVars, storeVars, diskVars, issued>>

(* A text has two parts, read before and after the end of a buffer.        *)
Strings == Texts \X Texts
Whole(t) == <<t, t>>
Sources == {"ram", "disk"}
Puts == [id : Ids, text : Strings, source : Sources]
NoBuf == [file |-> None, map |-> <<>>, cut |-> 0]

EntryRecords == [text : Strings, source : Sources]
BlockRecords == [refs : Nat, members : Seq(Ids)]
FileRecords == [flag : BOOLEAN, map : Seq([id : Ids, text : Strings])]
TouchRecords == [file : Files, flag : BOOLEAN]
ASSUME NoneAssumption == None \notin EntryRecords \cup BlockRecords \cup FileRecords \cup TouchRecords

Empty == [lru |-> <<>>, entry |-> [i \in Ids |-> None],
          block |-> [s \in Strings |-> None], bytes |-> 0, entries |-> 0]

Init ==
    /\ mem = Empty
    /\ mu = None
    /\ pc = [t \in Threads |-> "idle"]
    /\ puts = [t \in Threads |-> <<>>]
    /\ calls = [c \in Clients |-> <<>>]
    /\ message = [c \in Clients |-> {}]
    /\ matched = [c \in Clients |-> None]
    /\ exact = [c \in Clients |-> TRUE]
    /\ scan = [c \in Clients |-> {}]
    /\ buf = [c \in Clients |-> NoBuf]
    /\ file = [w \in Workers |-> None]
    /\ est = [w \in Workers |-> FALSE]
    /\ tears \in Crosses
    /\ disk = [f \in Files |-> None]
    /\ touch = None
    /\ issued = [i \in Ids |-> None]
    /\ answer = [ids |-> {}, text |-> None]

Goto(t, step) == pc' = [pc EXCEPT ![t] = step]

-----------------------------------------------------------------------------
(* The list and the blocks.                                                *)

Minus(a, b) == IF a >= b THEN a - b ELSE 0
Without(seq, e) == IF \E k \in 1..Len(seq) : seq[k] = e
                   THEN LET k == CHOOSE n \in 1..Len(seq) : seq[n] = e
                        IN  [n \in 1..(Len(seq) - 1) |-> IF n < k THEN seq[n] ELSE seq[n + 1]]
                   ELSE seq

(* tool_memory_touch.                                                      *)
Touch(m, i) == [m EXCEPT !.lru = <<i>> \o Without(m.lru, i)]

(* Fault: the bytes of a released block stay counted.                      *)
ReleaseBlockKeepsBytes(m, s) ==
    IF m.block[s].refs > 1 THEN [m EXCEPT !.block[s].refs = @ - 1]
    ELSE [m EXCEPT !.block[s] = None]

(* tool_memory_release_block_locked.                                       *)
ReleaseBlock(m, s) ==
    IF m.block[s].refs > 1 THEN [m EXCEPT !.block[s].refs = @ - 1]
    ELSE [m EXCEPT !.block[s] = None, !.bytes = Minus(@, BlockBytes[s[1]])]

(* tool_memory_remove_entry_locked.                                        *)
RemoveEntry(m, i) ==
    LET s == m.entry[i].text
    IN  ReleaseBlock([m EXCEPT !.lru = Without(@, i), !.entry[i] = None,
                               !.block[s].members = Without(@, i),
                               !.bytes = Minus(@, EntryBytes), !.entries = Minus(@, 1)], s)

(* tool_memory_get_block_locked.                                           *)
GetBlock(m, s) ==
    IF m.block[s] # None THEN m
    ELSE [m EXCEPT !.block[s] = [refs |-> 0, members |-> <<>>],
                   !.bytes = @ + BlockBytes[s[1]]]

(* The rest of tool_memory_put_locked for an id that is not in memory.     *)
AddEntry(m, p) ==
    LET b == GetBlock(m, p.text)
    IN  [b EXCEPT !.block[p.text] = [refs |-> @.refs + 1, members |-> <<p.id>> \o @.members],
                  !.entry[p.id] = [text |-> p.text, source |-> p.source],
                  !.lru = <<p.id>> \o @,
                  !.entries = @ + 1,
                  !.bytes = @ + EntryBytes]

(* Fault: a put under an id that is in memory drops the old entry from the *)
(* index and leaves its block as it is.                                    *)
PutEntryLeaksBlock(m, p) ==
    LET old == m.entry[p.id]
    IN  IF old = None THEN AddEntry(m, p)
        ELSE IF old.text = p.text
        THEN Touch([m EXCEPT !.entry[p.id].source = IF p.source = "ram" THEN "ram" ELSE @], p.id)
        ELSE AddEntry([m EXCEPT !.lru = Without(@, p.id), !.entries = Minus(@, 1),
                                !.bytes = Minus(@, EntryBytes)], p)

(* tool_memory_put_locked up to its prune: the same text again only moves  *)
(* the entry to the head, another text replaces it.                        *)
PutEntry(m, p) ==
    LET old == m.entry[p.id]
    IN  IF old = None THEN AddEntry(m, p)
        ELSE IF old.text = p.text
        THEN Touch([m EXCEPT !.entry[p.id].source = IF p.source = "ram" THEN "ram" ELSE @], p.id)
        ELSE AddEntry(RemoveEntry(m, p.id), p)

(* Fault: only the number of entries is limited.                           *)
OverLimitEntriesOnly(m) == m.entries > MaxEntries /\ m.lru # <<>>

(* The condition of tool_memory_prune_locked.                              *)
OverLimit(m) == (m.entries > MaxEntries \/ m.bytes > MaxBytes) /\ m.lru # <<>>

-----------------------------------------------------------------------------
(* Puts.  A list of sampled calls is put under one lock of tool_mu, an     *)
(* entry read from a file under a lock of its own.                         *)

Lock(t) == mu = None /\ mu' = t

PutLock(t) ==
    /\ pc[t] = "put" /\ puts[t] # <<>> /\ mu # t
    /\ Lock(t)
    /\ UNCHANGED <<mem, threadVars, lookVars, storeVars, diskVars, issued>>

Put(t) ==
    /\ pc[t] = "put" /\ mu = t /\ puts[t] # <<>>
    /\ mem' = PutEntry(mem, Head(puts[t]))
    /\ puts' = [puts EXCEPT ![t] = Tail(@)]
    /\ Goto(t, IF Head(puts[t]).source = "ram" THEN "prune_ram" ELSE "prune_disk")
    /\ UNCHANGED <<mu, lookVars, storeVars, diskVars, issued>>

(* tool_memory_prune_locked, one entry.                                    *)
Prune(t) ==
    /\ pc[t] \in {"prune_ram", "prune_disk"} /\ OverLimit(mem)
    /\ mem' = RemoveEntry(mem, mem.lru[Len(mem.lru)])
    /\ UNCHANGED <<mu, threadVars, lookVars, storeVars, diskVars, issued>>

(* The put is over: the lock is kept for the next call of the list.        *)
PutDone(t) ==
    /\ pc[t] \in {"prune_ram", "prune_disk"} /\ ~OverLimit(mem)
    /\ mu' = IF pc[t] = "prune_ram" /\ puts[t] # <<>> THEN t ELSE None
    /\ Goto(t, CASE puts[t] # <<>> -> "put"
                 [] puts[t] = <<>> /\ t \in Workers -> "idle"
                 [] puts[t] = <<>> /\ t \in Clients -> "scan")
    /\ UNCHANGED <<mem, puts, lookVars, storeVars, diskVars, issued>>

-----------------------------------------------------------------------------
(* A worker.                                                               *)

(* assign_tool_call_ids and the start of tool_memory_remember: random ids  *)
(* are new.                                                                *)
Remember(w, ids, t) ==
    /\ pc[w] = "idle"
    /\ Len(ids) \in 1..MaxCalls /\ IsInjective(ids)
    /\ \A k \in 1..Len(ids) : issued[ids[k]] = None /\ mem.entry[ids[k]] = None
    /\ Lock(w)
    /\ issued' = [i \in Ids |-> IF \E k \in 1..Len(ids) : ids[k] = i THEN Whole(t) ELSE issued[i]]
    /\ puts' = [puts EXCEPT ![w] = [k \in 1..Len(ids) |->
                   [id |-> ids[k], text |-> Whole(t), source |-> "ram"]]]
    /\ Goto(w, "put")
    /\ UNCHANGED <<mem, lookVars, storeVars, diskVars>>

(* kv_mu: one store or load at a time.                                     *)
KVFree == \A w \in Workers : file[w] = None

(* kv_tool_map_measure_locked, kv_tool_map_write: the entries of every     *)
(* block in the text, each block once, at its first place.                 *)
Entries(m, s) ==
    IF m.block[s] = None THEN <<>>
    ELSE [k \in 1..Len(m.block[s].members) |-> [id |-> m.block[s].members[k], text |-> s]]
Trailer(m, f) ==
    SeqExt!FlattenSeq([k \in 1..Len(Content[f]) |->
        IF \E n \in 1..(k - 1) : Content[f][n] = Content[f][k] THEN <<>>
        ELSE Entries(m, Whole(Content[f][k]))])

(* ds4_kvstore_store_live_prefix_text up to the check for a compatible     *)
(* file: the trailer is measured.                                          *)
StoreStart(w, f) ==
    /\ pc[w] = "idle" /\ KVFree /\ mu = None
    /\ \/ disk[f] = None /\ Goto(w, "create")
       \/ disk[f] # None /\ Trailer(mem, f) # <<>> /\ Goto(w, "truncate")
    /\ file' = [file EXCEPT ![w] = f]
    /\ est' = [est EXCEPT ![w] = Trailer(mem, f) # <<>>]
    /\ UNCHANGED <<mem, mu, puts, lookVars, diskVars, issued>>

StoreReturn(w) ==
    /\ Goto(w, "idle")
    /\ file' = [file EXCEPT ![w] = None]
    /\ est' = [est EXCEPT ![w] = FALSE]

(* The new file, header written before the trailer, gets its name, or the  *)
(* write fails and it does not.                                            *)
Create(w) ==
    /\ pc[w] = "create" /\ mu = None
    /\ \/ disk' = [disk EXCEPT ![file[w]] = [flag |-> est[w], map |-> Trailer(mem, file[w])]]
       \/ UNCHANGED disk
    /\ StoreReturn(w)
    /\ UNCHANGED <<mem, mu, puts, lookVars, tears, touch, issued>>

(* kv_cache_rewrite_trailer: the old trailer is cut off, the new one is    *)
(* written, then the header gets the flag.                                 *)
Truncate(w) ==
    /\ pc[w] = "truncate"
    /\ IF disk[file[w]] = None THEN StoreReturn(w) /\ UNCHANGED disk
       ELSE /\ disk' = [disk EXCEPT ![file[w]].map = <<>>]
            /\ Goto(w, "rewrite")
            /\ UNCHANGED storeVars
    /\ UNCHANGED <<mem, mu, puts, lookVars, tears, touch, issued>>

Rewrite(w) ==
    /\ pc[w] = "rewrite" /\ mu = None
    /\ disk' = IF disk[file[w]] = None THEN disk
               ELSE [disk EXCEPT ![file[w]].map = Trailer(mem, file[w])]
    /\ IF Trailer(mem, file[w]) = <<>> THEN StoreReturn(w)
       ELSE Goto(w, "flag") /\ UNCHANGED storeVars
    /\ UNCHANGED <<mem, mu, puts, lookVars, tears, touch, issued>>

WriteFlag(w) ==
    /\ pc[w] = "flag"
    /\ disk' = IF disk[file[w]] = None THEN disk ELSE [disk EXCEPT ![file[w]].flag = TRUE]
    /\ StoreReturn(w)
    /\ UNCHANGED <<mem, mu, puts, lookVars, tears, touch, issued>>

(* kv_tool_map_load_from_pos: an absurd count is refused.                  *)
Loadable(map) == IF Len(map) <= 4 * MaxEntries THEN map ELSE <<>>

(* Its entries with an id that is wanted, in order.                        *)
PutsOf(map, wanted) ==
    SeqExt!FlattenSeq([k \in 1..Len(map) |->
        IF map[k].id \notin wanted THEN <<>>
        ELSE <<[id |-> map[k].id, text |-> map[k].text, source |-> "disk"]>>])

(* ds4_kvstore_try_load_text: a session is restored from the checkpoint,   *)
(* with every entry of its trailer.                                        *)
LoadCheckpoint(w, f) ==
    /\ pc[w] = "idle" /\ KVFree
    /\ disk[f] # None /\ disk[f].flag
    /\ PutsOf(Loadable(disk[f].map), Ids) # <<>>
    /\ puts' = [puts EXCEPT ![w] = PutsOf(Loadable(disk[f].map), Ids)]
    /\ Goto(w, "put")
    /\ UNCHANGED <<mem, mu, lookVars, storeVars, diskVars, issued>>

-----------------------------------------------------------------------------
(* A client renders the history of a request.                              *)

(* The message names some ids, of this server or not.                      *)
Parse(c, ids) ==
    /\ pc[c] = "idle"
    /\ Len(ids) \in 1..MaxCalls /\ IsInjective(ids)
    /\ calls' = [calls EXCEPT ![c] = ids]
    /\ message' = [message EXCEPT ![c] = {ids[k] : k \in 1..Len(ids)}]
    /\ scan' = [scan EXCEPT ![c] = Files]
    /\ Goto(c, "scan")
    /\ UNCHANGED <<mem, mu, puts, matched, exact, buf, answer, storeVars, diskVars, issued>>

(* The rest of the trailer after a first read that ended inside entry cut: *)
(* the file may have been rewritten in between.                            *)
SecondRead(old, new, cut) ==
    LET upto == IF Len(new) < Len(old) THEN Len(new) ELSE Len(old)
    IN  [k \in 1..(IF upto < cut THEN cut - 1 ELSE upto) |->
           IF k < cut THEN old[k]
           ELSE IF k = cut THEN [old[k] EXCEPT !.text[2] = new[k].text[2]]
           ELSE new[k]]

(* kv_cache_restore_tool_memory_for_messages: the next file of the         *)
(* directory, if it is still there and its header has the flag.            *)
ReadFile(c, f) ==
    /\ pc[c] = "scan" /\ f \in scan[c]
    /\ scan' = [scan EXCEPT ![c] = @ \ {f}]
    /\ LET map == IF disk[f] # None /\ disk[f].flag THEN Loadable(disk[f].map) ELSE <<>>
       IN  \/ /\ ~tears \/ map = <<>>
              /\ puts' = [puts EXCEPT ![c] = PutsOf(map, message[c])]
              /\ Goto(c, IF PutsOf(map, message[c]) = <<>> THEN "scan" ELSE "put")
              /\ UNCHANGED buf
           \/ /\ tears
              /\ \E k \in 1..Len(map) : buf' = [buf EXCEPT ![c] = [file |-> f, map |-> map, cut |-> k]]
              /\ Goto(c, "read")
              /\ UNCHANGED puts
    /\ UNCHANGED <<mem, mu, calls, message, matched, exact, answer, storeVars, diskVars, issued>>

(* A file that was removed is read to its end through the open stream.     *)
ReadRest(c) ==
    /\ pc[c] = "read"
    /\ LET map == IF buf[c].file = None THEN buf[c].map
                  ELSE SecondRead(buf[c].map, disk[buf[c].file].map, buf[c].cut)
           new == PutsOf(map, message[c])
       IN  /\ puts' = [puts EXCEPT ![c] = new]
           /\ Goto(c, IF new = <<>> THEN "scan" ELSE "put")
    /\ buf' = [buf EXCEPT ![c] = NoBuf]
    /\ UNCHANGED <<mem, mu, calls, message, matched, exact, scan, answer, storeVars, diskVars, issued>>

(* tool_memory_attach_to_messages.                                         *)
AttachLock(c) ==
    /\ pc[c] = "scan" /\ scan[c] = {}
    /\ Lock(c)
    /\ Goto(c, "attach")
    /\ UNCHANGED <<mem, puts, lookVars, storeVars, diskVars, issued>>

(* Fault: the blocks of the ids are not compared.                          *)
LookupAnyBlock(c) ==
    /\ pc[c] = "attach" /\ calls[c] # <<>>
    /\ LET found == mem.entry[Head(calls[c])]
       IN  /\ mem' = IF found = None THEN mem ELSE Touch(mem, Head(calls[c]))
           /\ exact' = [exact EXCEPT ![c] = @ /\ found # None]
           /\ matched' = [matched EXCEPT ![c] = IF @ = None /\ found # None THEN found.text ELSE @]
    /\ calls' = [calls EXCEPT ![c] = Tail(@)]
    /\ UNCHANGED <<mu, threadVars, message, scan, buf, answer, storeVars, diskVars, issued>>

(* One call of the message: tool_memory_lookup_locked.                     *)
Lookup(c) ==
    /\ pc[c] = "attach" /\ calls[c] # <<>>
    /\ LET found == mem.entry[Head(calls[c])]
       IN  /\ mem' = IF found = None THEN mem ELSE Touch(mem, Head(calls[c]))
           /\ exact' = [exact EXCEPT ![c] =
                          @ /\ found # None /\ matched[c] \in {None, found.text}]
           /\ matched' = [matched EXCEPT ![c] = IF @ = None /\ found # None THEN found.text ELSE @]
    /\ calls' = [calls EXCEPT ![c] = Tail(@)]
    /\ UNCHANGED <<mu, threadVars, message, scan, buf, answer, storeVars, diskVars, issued>>

(* The message gets the text of the block, or is rendered canonically.     *)
AttachDone(c) ==
    /\ pc[c] = "attach" /\ calls[c] = <<>>
    /\ answer' = [ids |-> message[c], text |-> IF exact[c] THEN matched[c] ELSE None]
    /\ mu' = None
    /\ message' = [message EXCEPT ![c] = {}]
    /\ matched' = [matched EXCEPT ![c] = None]
    /\ exact' = [exact EXCEPT ![c] = TRUE]
    /\ Goto(c, "idle")
    /\ UNCHANGED <<mem, puts, calls, scan, buf, storeVars, diskVars, issued>>

-----------------------------------------------------------------------------
(* The rest of the world.                                                  *)

(* ds4_kvstore_evict or a discard, by this process or another one.  A      *)
(* stream that is open still reads it, and writes what nobody sees.        *)
RemoveFile(f) ==
    /\ disk[f] # None
    /\ buf' = [c \in Clients |-> IF buf[c].file # f THEN buf[c]
                 ELSE [file |-> None, cut |-> 0,
                       map |-> SecondRead(buf[c].map, disk[f].map, buf[c].cut)]]
    /\ disk' = [disk EXCEPT ![f] = None]
    /\ touch' = IF touch # None /\ touch.file = f THEN None ELSE touch
    /\ UNCHANGED <<mem, mu, threadVars, calls, message, matched, exact, scan, answer,
                   storeVars, tears, issued>>

(* ds4_kvstore_touch_file of another process: the header is read, and      *)
(* written back with the flags it had.                                     *)
TouchRead(f) ==
    /\ touch = None /\ disk[f] # None
    /\ touch' = [file |-> f, flag |-> disk[f].flag]
    /\ UNCHANGED <<mem, mu, threadVars, lookVars, storeVars, tears, disk, issued>>

TouchWrite ==
    /\ touch # None
    /\ disk' = [disk EXCEPT ![touch.file].flag = touch.flag]
    /\ touch' = None
    /\ UNCHANGED <<mem, mu, threadVars, lookVars, storeVars, tears, issued>>

(* The process ends, in any state, and is started again: tool_memory_free  *)
(* or a kill, and the files stay.                                          *)
Restart ==
    /\ mem' = Empty
    /\ mu' = None
    /\ pc' = [t \in Threads |-> "idle"]
    /\ puts' = [t \in Threads |-> <<>>]
    /\ calls' = [c \in Clients |-> <<>>]
    /\ message' = [c \in Clients |-> {}]
    /\ matched' = [c \in Clients |-> None]
    /\ exact' = [c \in Clients |-> TRUE]
    /\ scan' = [c \in Clients |-> {}]
    /\ buf' = [c \in Clients |-> NoBuf]
    /\ file' = [w \in Workers |-> None]
    /\ est' = [w \in Workers |-> FALSE]
    /\ UNCHANGED <<diskVars, issued, answer>>

CallLists == UNION {[1..n -> Ids] : n \in 1..MaxCalls}

Next ==
    \/ \E t \in Threads : PutLock(t) \/ Put(t) \/ Prune(t) \/ PutDone(t)
    \/ \E w \in Workers :
        \/ \E ids \in CallLists, t \in Texts : Remember(w, ids, t)
        \/ \E f \in Files : StoreStart(w, f) \/ LoadCheckpoint(w, f)
        \/ Create(w) \/ Truncate(w) \/ Rewrite(w) \/ WriteFlag(w)
    \/ \E c \in Clients :
        \/ \E ids \in CallLists : Parse(c, ids)
        \/ \E f \in Files : ReadFile(c, f)
        \/ ReadRest(c) \/ AttachLock(c) \/ Lookup(c) \/ AttachDone(c)
    \/ \E f \in Files : RemoveFile(f) \/ TouchRead(f)
    \/ TouchWrite
    \/ Restart

Spec == Init /\ [][Next]_vars

-----------------------------------------------------------------------------
(* Properties.                                                             *)

Present == {i \in Ids : mem.entry[i] # None}
Blocks == {s \in Strings : mem.block[s] # None}

TypeOK ==
    /\ mem.entry \in [Ids -> EntryRecords \cup {None}]
    /\ mem.block \in [Strings -> BlockRecords \cup {None}]
    /\ mem.lru \in Seq(Ids) /\ mem.bytes \in Nat /\ mem.entries \in Nat
    /\ mu \in Threads \cup {None}
    /\ pc \in [Threads -> {"idle", "put", "prune_ram", "prune_disk", "create", "truncate",
                           "rewrite", "flag", "scan", "read", "attach"}]
    /\ puts \in [Threads -> Seq(Puts)]
    /\ calls \in [Clients -> Seq(Ids)] /\ message \in [Clients -> SUBSET Ids]
    /\ matched \in [Clients -> Strings \cup {None}] /\ exact \in [Clients -> BOOLEAN]
    /\ scan \in [Clients -> SUBSET Files]
    /\ buf \in [Clients -> [file : Files \cup {None}, map : Seq([id : Ids, text : Strings]), cut : Nat]]
    /\ file \in [Workers -> Files \cup {None}] /\ est \in [Workers -> BOOLEAN]
    /\ tears \in BOOLEAN
    /\ disk \in [Files -> FileRecords \cup {None}]
    /\ touch \in TouchRecords \cup {None}
    /\ issued \in [Ids -> Strings \cup {None}]
    /\ answer \in [ids : SUBSET Ids, text : Strings \cup {None}]

(* The list, the index and the counters agree: the list holds exactly the  *)
(* entries in the index, each once, and bytes counts every entry and every *)
(* block once, however many entries share it.                              *)
AccountingExact ==
    /\ IsInjective(mem.lru) /\ Range(mem.lru) = Present
    /\ mem.entries = Cardinality(Present)
    /\ mem.bytes = EntryBytes * Cardinality(Present)
                     + SumFunctionOnSet([s \in Strings |-> BlockBytes[s[1]]], Blocks)

(* A block lives exactly as long as entries point to it: no entry points   *)
(* to a freed block, no block is kept without entries, and the list of a   *)
(* block names its entries.                                                *)
BlocksCounted ==
    /\ \A i \in Present : mem.entry[i].text \in Blocks
    /\ \A s \in Blocks :
        /\ mem.block[s].refs = Len(mem.block[s].members) /\ mem.block[s].refs > 0
        /\ IsInjective(mem.block[s].members)
        /\ Range(mem.block[s].members) = {i \in Present : mem.entry[i].text = s}

(* Whoever takes tool_mu finds the memory within both limits.              *)
WithinLimits == mu = None => mem.entries <= MaxEntries /\ mem.bytes <= MaxBytes

(* A message is rendered from the sampled text verbatim: the text attached *)
(* to it was sampled with every id it names, whatever was evicted, stored, *)
(* restored or restarted since.                                            *)
ReplayExact == answer.text # None => \A i \in answer.ids : issued[i] = answer.text

(* What the list, the blocks and the files are for: the promise of         *)
(* ReplayMap.                                                              *)
Known == [i \in Ids |-> IF mem.entry[i] = None THEN None ELSE mem.entry[i].text]
Promise == INSTANCE ReplayMap WITH known <- Known
PromiseKept == Promise!Spec

=============================================================================
