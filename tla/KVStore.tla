------------------------------- MODULE KVStore -------------------------------
(***************************************************************************)
(* The disk KV store: a directory of checkpoint files, each named by the   *)
(* hash of the rendered text it stands for, used by one or more processes. *)
(* Inside a process kv_mu makes every call of ds4_kvstore.c run alone, so  *)
(* a process makes one call at a time here, whichever slot it is for;      *)
(* between processes there is no lock, and one action is one access to the *)
(* directory that another process can come before or after.  A process may *)
(* be killed between any two of them.                                      *)
(*                                                                         *)
(* Texts are abstract: what matters is which text is a prefix of which and *)
(* how many bytes a checkpoint of it takes.  The tokens a checkpoint holds *)
(* are a number, and checkpoints of one text may differ in it: a visible   *)
(* transcript does not tell how long the reasoning behind it was.  Hits,   *)
(* times and the score built from them only rank the candidates for        *)
(* eviction, so any candidate may be the victim.                           *)
(***************************************************************************)
EXTENDS FiniteSets, Functions, Integers

CONSTANTS
    Procs,          \* the processes that have this directory open
    Texts,          \* rendered prompts
    PrefixOf,       \* PrefixOf[t]: the texts that are byte prefixes of t, t included
    Bytes,          \* Bytes[t]: header, text and payload of a checkpoint of t,
                    \* taken to be the same in every configuration
    Trailers,       \* possible sizes of the tool map trailer
    Lengths,        \* numbers of tokens a checkpoint can hold
    Configs,        \* [model, quant, ctx] a process can be started with
    Mins,           \* values of min_tokens a process can be started with
    RejectQuant,    \* reject_different_quant
    Budget,         \* budget_bytes
    UnlinkMayFail,  \* unlink can fail for other reasons than ENOENT
    None

ASSUME PrefixAssumption ==
    /\ PrefixOf \in [Texts -> SUBSET Texts]
    /\ \A t \in Texts : t \in PrefixOf[t] /\ \A u \in PrefixOf[t] : PrefixOf[u] \subseteq PrefixOf[t]
    /\ \A t \in Texts : \A u, v \in PrefixOf[t] : u \in PrefixOf[v] \/ v \in PrefixOf[u]
ASSUME SizeAssumption ==
    /\ Bytes \in [Texts -> Nat \ {0}] /\ Trailers \subseteq Nat /\ 0 \in Trailers
    /\ Budget \in Nat \ {0} /\ IsFiniteSet(Texts)
    /\ Lengths \subseteq Nat /\ Mins \subseteq Nat
ASSUME ConfigAssumption ==
    /\ \A c \in Configs : c.ctx \in Nat
    /\ RejectQuant \in BOOLEAN /\ UnlinkMayFail \in BOOLEAN
    /\ None \notin Texts \cup Configs

VARIABLES
    files,      \* files[t]: the file named by the hash of t, or None
    temp,       \* the process's temporary file, or None
    pc,         \* control point of the process
    config,     \* the configuration it was started with
    min,        \* opt.min_tokens it was started with
    key,        \* the text being stored, or the text of the entry found
    prompt,     \* the prompt a lookup is for
    length,     \* store_len of the store under way
    est,        \* trailer_est_bytes of the store under way
    view,       \* kc->entry: the sizes the last refresh saw, by text
    total,      \* ds4_kvstore_evict: bytes it believes are in the directory
    target,     \* ds4_kvstore_evict: bytes it wants to be left
    loaded,     \* the checkpoint a session is being restored from, or None
    restored    \* disk_cache_path of each request still in its prefill

fileVars == <<files, temp>>
evictVars == <<view, total, target>>
optVars == <<config, min>>
callVars == <<key, prompt, length, est>>
loadVars == <<loaded, restored>>
vars == <<fileVars, pc, optVars, callVars, evictVars, loadVars>>

Steps == {"closed", "idle", "check", "match", "replace", "trailer", "stage", "evict",
          "create", "finish", "stored", "open", "hit"}

Entries == [config : Configs, tokens : Lengths, trailer : Trailers, whole : BOOLEAN]
ASSUME NoneAssumption == None \notin Entries

(* The directory may hold what earlier processes left.                     *)
Init ==
    /\ files \in [Texts -> {e \in Entries : e.whole} \cup {None}]
    /\ temp = [p \in Procs |-> None]
    /\ pc = [p \in Procs |-> "closed"]
    /\ config = [p \in Procs |-> None]
    /\ min = [p \in Procs |-> 0]
    /\ key = [p \in Procs |-> None]
    /\ prompt = [p \in Procs |-> None]
    /\ length = [p \in Procs |-> 0]
    /\ est = [p \in Procs |-> 0]
    /\ view = [p \in Procs |-> [t \in {} |-> 0]]
    /\ total = [p \in Procs |-> 0]
    /\ target = [p \in Procs |-> 0]
    /\ loaded = [p \in Procs |-> None]
    /\ restored = [p \in Procs |-> {}]

Goto(p, step) == pc' = [pc EXCEPT ![p] = step]

(* The call returns: its locals are gone.                                  *)
Return(p) ==
    /\ Goto(p, "idle")
    /\ key' = [key EXCEPT ![p] = None]
    /\ prompt' = [prompt EXCEPT ![p] = None]
    /\ length' = [length EXCEPT ![p] = 0]
    /\ est' = [est EXCEPT ![p] = 0]

-----------------------------------------------------------------------------
(* Sizes and eviction.                                                     *)

Present == {t \in Texts : files[t] # None}
FileBytes(t, trailer) == Bytes[t] + trailer

(* kv_cache_budget_required: 1% of headroom, rounded up.                   *)
Required(n) == n + (n \div 100) + (IF n % 100 # 0 THEN 1 ELSE 0)

(* ds4_kvstore_file_size_fits.                                             *)
Fits(t, trailer) == Required(FileBytes(t, trailer)) <= Budget

(* Fault: eviction makes room for nothing.                                 *)
EvictStartNoExtra(p, extra) ==
    /\ Goto(p, "evict")
    /\ view' = [view EXCEPT ![p] = [t \in Present |-> FileBytes(t, files[t].trailer)]]
    /\ total' = [total EXCEPT ![p] = SumFunction([t \in Present |-> FileBytes(t, files[t].trailer)])]
    /\ target' = [target EXCEPT ![p] = Budget]

(* ds4_kvstore_evict up to its loop: refresh, and what must be left.  The  *)
(* caller has made sure that extra is within the budget.                   *)
EvictStart(p, extra) ==
    /\ Goto(p, "evict")
    /\ view' = [view EXCEPT ![p] = [t \in Present |-> FileBytes(t, files[t].trailer)]]
    /\ total' = [total EXCEPT ![p] = SumFunction([t \in Present |-> FileBytes(t, files[t].trailer)])]
    /\ target' = [target EXCEPT ![p] = Budget - extra]

(* One iteration: the victim leaves the entries whether or not unlink      *)
(* removes it, and a failed unlink ends the loop (total = 0).              *)
Evict(p) ==
    /\ pc[p] = "evict" /\ total[p] > target[p]
    /\ \E v \in DOMAIN view[p] :
        /\ view' = [view EXCEPT ![p] = [t \in DOMAIN view[p] \ {v} |-> view[p][t]]]
        /\ \/ /\ files[v] # None
              /\ files' = [files EXCEPT ![v] = None]
              /\ total' = [total EXCEPT ![p] = IF total[p] >= view[p][v]
                                               THEN total[p] - view[p][v] ELSE 0]
           \/ /\ files[v] = None \/ UnlinkMayFail
              /\ total' = [total EXCEPT ![p] = 0]
              /\ UNCHANGED files
    /\ UNCHANGED <<temp, pc, optVars, callVars, target, loadVars>>

(* The loop ends; the caller is ds4_kvstore_open or a store.               *)
EvictDone(p) ==
    /\ pc[p] = "evict"
    /\ total[p] <= target[p] \/ DOMAIN view[p] = {}
    /\ Goto(p, IF key[p] = None THEN "idle" ELSE "create")
    /\ view' = [view EXCEPT ![p] = [t \in {} |-> 0]]
    /\ total' = [total EXCEPT ![p] = 0]
    /\ target' = [target EXCEPT ![p] = 0]
    /\ UNCHANGED <<fileVars, optVars, callVars, loadVars>>

(* ds4_kvstore_open, at start-up, with whatever configuration and options  *)
(* this time.                                                              *)
Open(p) ==
    /\ pc[p] = "closed"
    /\ \E c \in Configs : config' = [config EXCEPT ![p] = c]
    /\ \E n \in Mins : min' = [min EXCEPT ![p] = n]
    /\ EvictStart(p, 0)
    /\ UNCHANGED <<fileVars, callVars, loadVars>>

-----------------------------------------------------------------------------
(* ds4_kvstore_store_live_prefix_text.                                     *)

(* The live checkpoint stands for text t and is long enough to be stored;  *)
(* the size of the tool map is estimated.                                  *)
StoreBegin(p, t) ==
    /\ pc[p] = "idle"
    /\ Goto(p, "check")
    /\ key' = [key EXCEPT ![p] = t]
    /\ \E n \in Lengths : n >= min[p] /\ length' = [length EXCEPT ![p] = n]
    /\ \E n \in Trailers : est' = [est EXCEPT ![p] = n]
    /\ UNCHANGED <<fileVars, optVars, prompt, evictVars, loadVars>>

(* kv_cache_existing_compatible: a file can stay when it is of this model, *)
(* and of its context size or a smaller one.  How many tokens it holds is  *)
(* not looked at.                                                          *)
Compatible(c, e) ==
    /\ e.config.model = c.model
    /\ RejectQuant => e.config.quant = c.quant
    /\ e.config.ctx <= c.ctx

(* Fault: the test for an existing file looks at the model alone.          *)
StoreCheckModelOnly(p) ==
    /\ pc[p] = "check"
    /\ LET e == files[key[p]]
       IN  \/ e = None /\ Goto(p, "stage")
           \/ e # None /\ e.config.model = config[p].model /\ Goto(p, "match")
           \/ e # None /\ e.config.model # config[p].model /\ Goto(p, "replace")
    /\ UNCHANGED <<fileVars, optVars, callVars, evictVars, loadVars>>

(* It reads the header of the file of that name.                           *)
StoreCheck(p) ==
    /\ pc[p] = "check"
    /\ LET e == files[key[p]]
       IN  \/ e = None /\ Goto(p, "stage")
           \/ e # None /\ Compatible(config[p], e) /\ Goto(p, "match")
           \/ e # None /\ ~Compatible(config[p], e) /\ Goto(p, "replace")
    /\ UNCHANGED <<fileVars, optVars, callVars, evictVars, loadVars>>

(* kv_cache_file_text_matches opens the file again and compares the text.  *)
StoreMatch(p) ==
    /\ pc[p] = "match"
    /\ Goto(p, IF files[key[p]] # None THEN "trailer" ELSE "replace")
    /\ UNCHANGED <<fileVars, optVars, callVars, evictVars, loadVars>>

(* It unlinks what it cannot use.                                          *)
StoreReplace(p) ==
    /\ pc[p] = "replace"
    /\ \/ files' = [files EXCEPT ![key[p]] = None]
       \/ UnlinkMayFail /\ UNCHANGED files
    /\ Goto(p, "stage")
    /\ UNCHANGED <<temp, optVars, callVars, evictVars, loadVars>>

(* Fault: the new tool map is appended behind the old one.                 *)
StoreTrailerAppend(p) ==
    /\ pc[p] = "trailer"
    /\ \/ UNCHANGED files
       \/ /\ files[key[p]] # None
          /\ \E n \in Trailers : files' = [files EXCEPT ![key[p]].trailer = @ + n]
    /\ Goto(p, "stored")
    /\ UNCHANGED <<temp, optVars, callVars, evictVars, loadVars>>

(* kv_cache_rewrite_trailer, in place: with no tool map now, or no file,   *)
(* nothing; otherwise the file is truncated behind the payload and the     *)
(* tool map of this moment is written there, or a part of it when the      *)
(* write fails.  Nothing is evicted for it.                                *)
StoreTrailer(p) ==
    /\ pc[p] = "trailer"
    /\ \/ UNCHANGED files
       \/ /\ files[key[p]] # None
          /\ \E n \in Trailers : files' = [files EXCEPT ![key[p]].trailer = n]
    /\ Goto(p, "stored")
    /\ UNCHANGED <<temp, optVars, callVars, evictVars, loadVars>>

(* Stage the payload, which may fail, give up when the file would not fit, *)
(* or make room for it.                                                    *)
StoreStage(p) ==
    /\ pc[p] = "stage"
    /\ \/ Return(p) /\ UNCHANGED evictVars
       \/ /\ Fits(key[p], est[p])
          /\ EvictStart(p, FileBytes(key[p], est[p]))
          /\ UNCHANGED callVars
    /\ UNCHANGED <<fileVars, optVars, loadVars>>

(* fopen of <path>.tmp.<pid>.                                              *)
StoreCreate(p) ==
    /\ pc[p] = "create"
    /\ \/ Return(p) /\ UNCHANGED temp
       \/ /\ temp' = [temp EXCEPT ![p] = [config |-> config[p], tokens |-> length[p],
                                               trailer |-> est[p], whole |-> FALSE]]
          /\ Goto(p, "finish")
          /\ UNCHANGED callVars
    /\ UNCHANGED <<files, optVars, evictVars, loadVars>>

(* Fault: the file is renamed although a write failed.                     *)
StoreFinishUnchecked(p) ==
    /\ pc[p] = "finish"
    /\ \E n \in Trailers, ok \in BOOLEAN :
         /\ temp' = [temp EXCEPT ![p] = None]
         /\ files' = [files EXCEPT ![key[p]] =
                        [temp[p] EXCEPT !.trailer = n, !.whole = ok]]
         /\ Goto(p, "stored") /\ UNCHANGED callVars
    /\ UNCHANGED <<optVars, evictVars, loadVars>>

(* The header, text, payload and the tool map of this moment are written;  *)
(* rename if everything went well and the size still fits, otherwise       *)
(* unlink the temporary file.                                              *)
StoreFinish(p) ==
    /\ pc[p] = "finish"
    /\ temp' = [temp EXCEPT ![p] = None]
    /\ \/ Return(p) /\ UNCHANGED files
       \/ \E n \in Trailers :
            /\ Fits(key[p], n)
            /\ files' = [files EXCEPT ![key[p]] =
                           [temp[p] EXCEPT !.trailer = n, !.whole = TRUE]]
            /\ Goto(p, "stored") /\ UNCHANGED callVars
    /\ UNCHANGED <<optVars, evictVars, loadVars>>

(* The store has returned true.                                            *)
StoreReturn(p) ==
    /\ pc[p] = "stored"
    /\ Return(p)
    /\ UNCHANGED <<fileVars, optVars, evictVars, loadVars>>

-----------------------------------------------------------------------------
(* ds4_kvstore_try_load_text.                                              *)

(* ds4_kvstore_find_text_prefix: the usable entries for prompt t, of which *)
(* the longest is taken.  A checkpoint shorter than min_tokens is not one. *)
Usable(p, t) ==
    {u \in PrefixOf[t] :
        files[u] # None /\ Compatible(config[p], files[u]) /\ files[u].tokens >= min[p]}

LoadFind(p, t) ==
    /\ pc[p] = "idle"
    /\ \E u \in Usable(p, t) :
        /\ Usable(p, t) \subseteq PrefixOf[u]
        /\ key' = [key EXCEPT ![p] = u]
    /\ prompt' = [prompt EXCEPT ![p] = t]
    /\ Goto(p, "open")
    /\ UNCHANGED <<fileVars, optVars, length, est, evictVars, loadVars>>

(* Fault: the header is trusted because the lookup has seen one.           *)
LoadOpenUnchecked(p) ==
    /\ pc[p] = "open"
    /\ LET e == files[key[p]]
       IN  \/ Return(p) /\ UNCHANGED <<files, loaded>>
           \/ /\ e # None /\ e.whole
              /\ loaded' = [loaded EXCEPT ![p] = e]
              /\ Goto(p, "hit")
              /\ UNCHANGED <<files, callVars>>
    /\ UNCHANGED <<temp, optVars, evictVars, restored>>

(* The file is opened again and its header read again.  The file may have  *)
(* gone, be of another model, fail to be read, or hold a payload of a      *)
(* larger context (ds4_session_load_payload refuses it); and a payload     *)
(* with another number of tokens than its header says is unlinked.         *)
LoadOpen(p) ==
    /\ pc[p] = "open"
    /\ LET e == files[key[p]]
           ok == e # None /\ e.config.model = config[p].model
                          /\ e.whole /\ e.config.ctx <= config[p].ctx
       IN  \/ Return(p) /\ UNCHANGED <<files, loaded>>
           \/ /\ ok /\ Return(p)
              /\ files' = [files EXCEPT ![key[p]] = None]
              /\ UNCHANGED loaded
           \/ /\ ok /\ Goto(p, "hit")
              /\ loaded' = [loaded EXCEPT ![p] = e]
              /\ UNCHANGED <<files, callVars>>
    /\ UNCHANGED <<temp, optVars, evictVars, restored>>

(* A hit is returned, after ds4_kvstore_touch_file has updated the hits    *)
(* and the time in the header; the request keeps the path.                 *)
LoadReturn(p) ==
    /\ pc[p] = "hit"
    /\ loaded' = [loaded EXCEPT ![p] = None]
    /\ restored' = [restored EXCEPT ![p] = @ \cup {key[p]}]
    /\ Return(p)
    /\ UNCHANGED <<fileVars, optVars, evictVars>>

(* The prefill of that request ends.  If it fails,                         *)
(* kv_cache_discard_failed_disk_entry unlinks whatever has that name now.  *)
PrefillEnd(p, t) ==
    /\ pc[p] = "idle" /\ t \in restored[p]
    /\ restored' = [restored EXCEPT ![p] = @ \ {t}]
    /\ \/ UNCHANGED files
       \/ files' = [files EXCEPT ![t] = None]
    /\ UNCHANGED <<temp, pc, optVars, callVars, evictVars, loaded>>

-----------------------------------------------------------------------------
(* The process ends, in the middle of anything: what is on disk stays, and *)
(* a temporary file of a process that is gone is never looked at again.    *)
Stop(p) ==
    /\ pc[p] # "closed"
    /\ pc' = [pc EXCEPT ![p] = "closed"]
    /\ temp' = [temp EXCEPT ![p] = None]
    /\ config' = [config EXCEPT ![p] = None]
    /\ min' = [min EXCEPT ![p] = 0]
    /\ key' = [key EXCEPT ![p] = None]
    /\ prompt' = [prompt EXCEPT ![p] = None]
    /\ length' = [length EXCEPT ![p] = 0]
    /\ est' = [est EXCEPT ![p] = 0]
    /\ view' = [view EXCEPT ![p] = [t \in {} |-> 0]]
    /\ total' = [total EXCEPT ![p] = 0]
    /\ target' = [target EXCEPT ![p] = 0]
    /\ loaded' = [loaded EXCEPT ![p] = None]
    /\ restored' = [restored EXCEPT ![p] = {}]
    /\ UNCHANGED files

Next == \E p \in Procs :
    \/ Open(p) \/ Evict(p) \/ EvictDone(p)
    \/ \E t \in Texts : StoreBegin(p, t) \/ LoadFind(p, t) \/ PrefillEnd(p, t)
    \/ StoreCheck(p) \/ StoreMatch(p) \/ StoreReplace(p) \/ StoreTrailer(p)
    \/ StoreStage(p) \/ StoreCreate(p) \/ StoreFinish(p) \/ StoreReturn(p)
    \/ LoadOpen(p) \/ LoadReturn(p)
    \/ Stop(p)

Spec == Init /\ [][Next]_vars

-----------------------------------------------------------------------------
(* Every variable has the type of the file, field or local it stands for.  *)
TypeOK ==
    /\ files \in [Texts -> Entries \cup {None}]
    /\ temp \in [Procs -> Entries \cup {None}]
    /\ pc \in [Procs -> Steps]
    /\ config \in [Procs -> Configs \cup {None}]
    /\ key \in [Procs -> Texts \cup {None}]
    /\ prompt \in [Procs -> Texts \cup {None}]
    /\ min \in [Procs -> Nat]
    /\ length \in [Procs -> Lengths \cup {0}]
    /\ est \in [Procs -> Trailers]
    /\ \A p \in Procs : DOMAIN view[p] \subseteq Texts
    /\ total \in [Procs -> Nat]
    /\ target \in [Procs -> 0 .. Budget]
    /\ loaded \in [Procs -> Entries \cup {None}]
    /\ restored \in [Procs -> SUBSET Texts]

(* A session is only restored from a checkpoint written for its own model  *)
(* and for a context that is not larger, although the file that was chosen *)
(* by its header (ds4_kvstore_find_text_prefix) can be replaced, evicted   *)
(* or discarded by another process before ds4_kvstore_try_load_text opens  *)
(* it.                                                                     *)
LoadedMatches ==
    \A p \in Procs : pc[p] = "hit" =>
        /\ loaded[p].config.model = config[p].model
        /\ loaded[p].config.ctx <= config[p].ctx

(* With one process and files that can be unlinked, the checkpoints stay   *)
(* within the budget once ds4_kvstore_open has returned, whatever was in   *)
(* the directory and the one being written included: only tool map         *)
(* trailers, which are rewritten in place and may outgrow their estimate,  *)
(* can exceed it.                                                          *)
CheckpointsWithinBudget ==
    \A p \in Procs : pc[p] \notin {"closed", "evict"} =>
        SumFunctionOnSet(Bytes,
                         {t \in Texts : files[t] # None
                                        \/ (t = key[p] /\ pc[p] \in {"create", "finish"})})
            <= Budget

(* A store that returns true leaves a checkpoint that a lookup of this     *)
(* process finds for that text.                                            *)
StoredIsFound ==
    \A p \in Procs : pc[p] = "stored" => key[p] \in Usable(p, key[p])

(* With one process, a store that returns true, because it wrote a file or *)
(* because kv_cache_existing_compatible found one, leaves a checkpoint     *)
(* that a lookup of this process finds for that text, with one exception:  *)
(* the file it kept was left by a process with a smaller min_tokens and is *)
(* too short for this one.                                                 *)
StoredIsUsable ==
    \A p \in Procs : pc[p] = "stored" =>
        \/ key[p] \in Usable(p, key[p])
        \/ /\ files[key[p]] # None /\ Compatible(config[p], files[key[p]])
           /\ files[key[p]].tokens < min[p] /\ min[p] <= length[p]

(* Under the name of a checkpoint there is only ever a complete file,      *)
(* wherever a process fails or is killed: what is being written is in a    *)
(* temporary file, which a process that goes on never leaves behind.       *)
NoPartialFiles ==
    /\ \A t \in Texts : files[t] # None => files[t].whole
    /\ \A p \in Procs : temp[p] # None => pc[p] = "finish"
=============================================================================
