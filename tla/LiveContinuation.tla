-------------------------- MODULE LiveContinuation --------------------------
(***************************************************************************)
(* What one resident slot remembers between requests: the token history    *)
(* its session holds, and the three live bindings that let a later request *)
(* continue from it without replaying it (by the ids of the tool calls the *)
(* model made, or by the visible transcript, which lacks the reasoning the *)
(* session still contains).  A binding does not hold the history: it is    *)
(* trusted when the session stands at the position it had when the binding *)
(* was made.  Requests of one slot run one after the other; a client may   *)
(* go away, a prefill may fail and the server may be told to stop at any   *)
(* point of one.  A server that stops saves its sessions, and the next one *)
(* starts with what the store holds; one that is killed saves nothing.     *)
(*                                                                         *)
(* A history is a sequence of tokens, a token stands for its text, and the *)
(* only thing a token tells is who speaks.                                 *)
(***************************************************************************)
EXTENDS FiniteSets, Integers, Sequences
SeqExt == INSTANCE SequencesExt

CONSTANTS
    Tokens,         \* what a history is made of
    Hidden,         \* tokens the visible text lacks: reasoning, and what differs
                    \* between one spelling of a tool call and another
    Texts,          \* rendered histories a client may send
    Suffix,         \* the rendered output of a tool, sent without its history
    Answers,        \* what the model may sample to end a turn
    Calls,          \* what it may sample to call a tool
    Rendered,       \* a sampled call as the server renders it, its reasoning included
    Ctx,            \* ctx_size
    Rewinds,        \* the backend can rewind in place (GLM)
    KeepsSlices,    \* a prefill that fails leaves the last slice that was done
    Batched,        \* batched_mode: a stop is seen between two quanta of a prefill
    Replays,        \* values of ~disable_exact_dsml_tool_replay
    MaxFiles,       \* bound on the checkpoints in the store
    None

ASSUME TokenAssumption ==
    /\ Texts \cup Answers \cup Calls \subseteq Seq(Tokens)
    /\ \A h \in Texts \cup Answers \cup Calls : h # <<>>
    /\ Suffix \in Seq(Tokens) /\ Suffix # <<>>
    /\ Rendered \in [Calls -> Seq(Tokens)]
ASSUME BoundAssumption ==
    /\ Ctx \in Nat \ {0} /\ MaxFiles \in Nat
    /\ {Rewinds, KeepsSlices, Batched} \subseteq BOOLEAN /\ Replays \subseteq BOOLEAN /\ Replays # {}
    /\ \A t \in Texts : Len(t) < Ctx
ASSUME NoneAssumption ==
    /\ None \notin Seq(Tokens)
    /\ None \notin [visible : Seq(Tokens) \cup {None}, calls : Seq(Tokens) \cup {None}, len : Nat]

VARIABLES
    exactReplay, \* the configured one, which a process does not change
    stopping,   \* g_stop_requested, from when the slot's thread sees it
    tokens,     \* checkpoint of the session
    valid,      \* checkpoint_valid
    live,       \* the bindings: responses_live, anthropic_live, thinking_live
    disk,       \* checkpoints in the KV store: the tokens by the key text
    pc,         \* control point of generate_job_inner
    req,        \* the request
    prompt,     \* prompt_for_sync
    source,     \* cache_source, and how a rewrite is done
    out,        \* what was sampled
    leftover    \* an auxiliary variable that no action reads: a prefill that
                \* continues no binding has ended before it was done, with a
                \* part of its prompt in the session beside the bindings

processVars == <<exactReplay, stopping>>
sessionVars == <<tokens, valid>>
jobVars == <<pc, req, prompt, source, out>>
vars == <<processVars, sessionVars, live, disk, jobVars, leftover>>

Bindings == {"responses", "anthropic", "thinking"}
Unbound == [b \in Bindings |-> None]
NoReq == [api |-> "none", text |-> <<>>, ids |-> None, full |-> TRUE]

Init ==
    /\ exactReplay \in Replays /\ stopping = FALSE /\ leftover = FALSE
    /\ tokens = <<>> /\ valid = FALSE
    /\ live = Unbound
    /\ disk = [k \in {} |-> <<>>]
    /\ pc = "idle" /\ req = NoReq /\ prompt = <<>> /\ source = "none" /\ out = <<>>

(* The text of a history a client sees.                                    *)
Shown(h) == [k \in 1..Len(h) |-> IF h[k] \in Hidden THEN <<>> ELSE <<h[k]>>]
Visible(h) == SeqExt!FlattenSeq(Shown(h))

(* A rendered history starts in a way that neither reasoning nor a tool's  *)
(* output does, and a rendered call says what the sampled one says.        *)
ASSUME TextAssumption ==
    /\ \A t \in Texts : Head(t) \notin Hidden \cup {Head(Suffix)}
    /\ Visible(Suffix) = Suffix
    /\ \A c \in Calls : Visible(Rendered[c]) = Visible(c)

(* What the request asks to be continued: the history it replays, or the   *)
(* one its tool outputs belong to and those outputs.                       *)
Asked == IF req.ids = None THEN Visible(req.text) ELSE Visible(req.ids) \o Suffix

After(h, n) == SubSeq(h, n + 1, Len(h))
Sources == {"none", "responses-visible", "responses-tool-output", "anthropic-tool-output",
            "memory-token", "memory-rewind", "thinking-visible", "disk-text", "extension"}

-----------------------------------------------------------------------------
(* The request and where it can continue from.                             *)

(* A full history of any protocol, or the outputs of calls that a binding  *)
(* knows, with the history they belong to or alone.                        *)
Arrive ==
    /\ pc = "idle"
    /\ \/ \E api \in {"responses", "anthropic", "openai"}, t \in Texts :
            req' = [api |-> api, text |-> t, ids |-> None, full |-> TRUE]
       \/ \E b \in {"responses", "anthropic"}, full \in BOOLEAN :
            /\ live[b] # None /\ live[b].calls # None
            /\ req' = [api |-> b, ids |-> live[b].calls, full |-> full,
                       text |-> IF full THEN Visible(live[b].calls) \o Suffix ELSE Suffix]
    /\ Len(req'.text) < Ctx
    /\ pc' = "choose"
    /\ UNCHANGED <<sessionVars, live, disk, prompt, source, out>>

(* A binding holds when the session stands where it stood.                 *)
Bound(b) == live[b] # None /\ live[b].len = Len(tokens)

(* Fault: a history that is not valid is continued.                        *)
ResumesInvalid == Len(tokens) > 0

(* build_live_prompt_suffix: only a valid checkpoint is continued.         *)
Resumes == valid

VisibleHit(b) ==
    /\ Resumes /\ Bound(b) /\ live[b].visible # None
    /\ SeqExt!IsStrictPrefix(live[b].visible, req.text)
CallsHit(b) ==
    /\ req.api = b /\ req.ids # None
    /\ Resumes /\ Bound(b) /\ live[b].calls = req.ids

ResponsesVisible == req.api = "responses" /\ VisibleHit("responses")
LiveHit == ResponsesVisible \/ CallsHit("responses") \/ CallsHit("anthropic")

(* The session is a prefix of the prompt, by tokens or by their text       *)
(* (memory-text), which are the same here.                                 *)
MemoryHit == valid /\ tokens # <<>> /\ SeqExt!IsPrefix(tokens, req.text)
(* live_prefix_rewind_target.                                              *)
RewindHit == Rewinds /\ valid /\ Len(req.text) > 1 /\ SeqExt!IsStrictPrefix(req.text, tokens)
ThinkingHit == req.api # "responses" /\ VisibleHit("thinking")

Prefill(src, p) ==
    /\ source' = src
    /\ prompt' = p
    /\ pc' = "sync"

ChooseResponsesVisible ==
    /\ pc = "choose" /\ ResponsesVisible
    /\ Prefill("responses-visible", tokens \o After(req.text, Len(live["responses"].visible)))
    /\ UNCHANGED <<sessionVars, live, disk, req, out>>

ChooseToolOutput(b) ==
    /\ pc = "choose" /\ ~ResponsesVisible /\ CallsHit(b)
    /\ Prefill(IF b = "responses" THEN "responses-tool-output" ELSE "anthropic-tool-output", tokens \o Suffix)
    /\ UNCHANGED <<sessionVars, live, disk, req, out>>

(* 409: the tool outputs cannot be continued and there is no history.      *)
Unavailable ==
    /\ pc = "choose" /\ ~LiveHit /\ ~req.full
    /\ pc' = "idle" /\ req' = NoReq
    /\ UNCHANGED <<sessionVars, live, disk, prompt, source, out>>

ChooseMemory ==
    /\ pc = "choose" /\ ~LiveHit /\ req.full /\ ~RewindHit /\ MemoryHit
    /\ Prefill("memory-token", req.text)
    /\ UNCHANGED <<sessionVars, live, disk, req, out>>

(* ds4_session_rewind, which may leave a checkpoint that must be rebuilt;  *)
(* the request then looks further, with a session that is not valid.       *)
ChooseRewind ==
    /\ pc = "choose" /\ ~LiveHit /\ req.full /\ RewindHit
    /\ tokens' = SubSeq(tokens, 1, Len(req.text) - 1)
    /\ \/ valid' = TRUE /\ Prefill("memory-rewind", req.text)
       \/ valid' = FALSE /\ UNCHANGED <<pc, prompt, source>>
    /\ UNCHANGED <<live, disk, req, out>>

ChooseThinking ==
    /\ pc = "choose" /\ ~LiveHit /\ req.full /\ ~RewindHit /\ ~MemoryHit /\ ThinkingHit
    /\ Prefill("thinking-visible", tokens \o After(req.text, Len(live["thinking"].visible)))
    /\ UNCHANGED <<sessionVars, live, disk, req, out>>

Miss == pc = "choose" /\ ~LiveHit /\ req.full /\ ~RewindHit /\ ~MemoryHit /\ ~ThinkingHit

(* kv_cache_store_current: a history with a visible binding is stored      *)
(* under the visible transcript, any other under its own text.             *)
StoreKey ==
    CASE Bound("responses") -> live["responses"].visible
      [] ~Bound("responses") /\ Bound("thinking") -> live["thinking"].visible
      [] OTHER -> tokens

Stored(key) ==
    IF key \in DOMAIN disk \/ Cardinality(DOMAIN disk) >= MaxFiles THEN disk
    ELSE [k \in DOMAIN disk \cup {key} |-> IF k = key THEN tokens ELSE disk[k]]

(* Fault: a session whose checkpoint is not valid is saved too.            *)
ChooseDiskSavesInvalid ==
    /\ Miss
    /\ disk' = IF tokens # <<>> THEN Stored(StoreKey) ELSE disk
    /\ Prefill("none", req.text)
    /\ UNCHANGED <<sessionVars, live, req, out>>

(* Nothing in memory: the session is saved before it is replaced, then a   *)
(* checkpoint whose key starts the prompt is loaded, or there is none.     *)
ChooseDisk ==
    /\ Miss
    /\ disk' = IF valid THEN Stored(StoreKey) ELSE disk
    /\ \/ \E k \in DOMAIN disk' :
            /\ SeqExt!IsPrefix(k, req.text)
            /\ tokens' = disk'[k] /\ valid' = TRUE
            /\ Prefill("disk-text", disk'[k] \o After(req.text, Len(k)))
       \/ /\ Prefill("none", req.text)
          /\ UNCHANGED sessionVars
    /\ UNCHANGED <<live, req, out>>

-----------------------------------------------------------------------------
(* The prefill.                                                            *)

(* server_session_sync and ds4_session_sync: the session is extended when  *)
(* it is a valid prefix of the prompt and rebuilt otherwise, slice by      *)
(* slice (the cold prefix, the quanta of a batched server, the chunks of   *)
(* the backend).  A failure leaves a checkpoint that is not valid, except  *)
(* that a backend may fall back to the last slice it completed, and that   *)
(* the slice that makes the prompt too long is refused.                    *)
Resumed(p) == valid /\ SeqExt!IsPrefix(tokens, p)
Slices(p) == {SubSeq(p, 1, n) : n \in (IF Resumed(p) THEN Len(tokens) ELSE 0)..Len(p)}
SyncFails(p) ==
    IF Len(p) >= Ctx THEN UNCHANGED sessionVars
    ELSE IF KeepsSlices
    THEN IF Resumed(p) THEN UNCHANGED sessionVars ELSE tokens' = <<>> /\ valid' = FALSE
    ELSE tokens' \in Slices(p) /\ valid' = FALSE
Synced == Len(prompt) < Ctx /\ tokens' = prompt /\ valid' = TRUE

Finish ==
    /\ pc' = "idle" /\ req' = NoReq /\ prompt' = <<>> /\ source' = "none" /\ out' = <<>>

ContinuedBinding ==
    CASE source \in {"responses-visible", "responses-tool-output"} -> "responses"
      [] source = "anthropic-tool-output" -> "anthropic"
      [] source = "thinking-visible" -> "thinking"
      [] OTHER -> "none"

(* server_session_sync of a batched server does no quantum more once the   *)
(* server is stopping.                                                     *)
Cut == Batched /\ stopping /\ source # "extension"

(* One more slice is done.                                                 *)
SyncSlice ==
    /\ pc \in {"sync", "rewrite"} /\ ~Cut
    /\ tokens' \in {t \in Slices(prompt) :
                      t # <<>> /\ t # prompt /\ Len(t) < Ctx /\ (Resumed(prompt) => t # tokens)}
    /\ valid' = TRUE
    /\ UNCHANGED <<live, disk, jobVars>>

(* Fault: the bindings of other requests survive the prefill.              *)
SyncOkKeepsAll ==
    /\ pc = "sync" /\ ~Cut /\ Synced
    /\ pc' = "decode"
    /\ UNCHANGED <<live, disk, req, prompt, source, out>>

(* The prefill is done: only the binding the request continued is kept.    *)
SyncOk ==
    /\ pc = "sync" /\ ~Cut /\ Synced
    /\ live' = [b \in Bindings |-> IF b = ContinuedBinding THEN live[b] ELSE None]
    /\ pc' = "decode"
    /\ UNCHANGED <<disk, req, prompt, source, out>>

(* kv_cache_discard_failed_disk_entry: the checkpoint the request was      *)
(* continued from goes, and the session with it.                           *)
Discard ==
    /\ tokens' = <<>> /\ valid' = FALSE
    /\ \E k \in DOMAIN disk :
        /\ SeqExt!IsPrefix(k, req.text) /\ prompt = disk[k] \o After(req.text, Len(k))
        /\ disk' = [d \in DOMAIN disk \ {k} |-> disk[d]]

(* A part of a prompt that continues no binding is not what the bindings   *)
(* were made for.                                                          *)
LeavesPart ==
    leftover' = (leftover \/ (valid' /\ ContinuedBinding = "none" /\ SeqExt!IsPrefix(tokens', prompt)))

(* The prefill fails.  The bindings stay.                                  *)
SyncFailed ==
    /\ pc = "sync" /\ ~Cut
    /\ \/ source # "disk-text" /\ SyncFails(prompt) /\ UNCHANGED disk
       \/ source = "disk-text" /\ Discard
    /\ LeavesPart
    /\ Finish
    /\ UNCHANGED live

(* The prefill is interrupted because the server stops: the slices done    *)
(* are the session, and the bindings stay as the client did not go away.   *)
Interrupted ==
    /\ pc = "sync" /\ Cut
    /\ \/ source # "disk-text" /\ UNCHANGED <<sessionVars, disk>>
       \/ source = "disk-text" /\ Discard
    /\ LeavesPart
    /\ Finish
    /\ UNCHANGED live

(* kv_cache_maybe_store_continued and the cold store: the session, or the  *)
(* part of the prompt it has reached, goes to the store under its text.    *)
StoreContinued ==
    /\ pc \in {"sync", "decode", "publish", "rewrite"} /\ valid
    /\ pc \in {"sync", "rewrite"} => tokens # <<>> /\ SeqExt!IsPrefix(tokens, prompt)
    /\ disk' = Stored(tokens)
    /\ UNCHANGED <<sessionVars, live, jobVars>>

-----------------------------------------------------------------------------
(* The answer.                                                             *)

(* Fault: the answer may outgrow the context.                              *)
DecodeUnbounded ==
    /\ pc = "decode" /\ ~stopping
    /\ \E o \in Answers \cup Calls : out' = o /\ tokens' = prompt \o o
    /\ pc' = "publish"
    /\ UNCHANGED <<valid, live, disk, req, prompt, source>>

Decode ==
    /\ pc = "decode" /\ ~stopping
    /\ \E o \in Answers \cup Calls :
        /\ Len(prompt) + Len(o) <= Ctx
        /\ out' = o
        /\ tokens' = prompt \o o
    /\ pc' = "publish"
    /\ UNCHANGED <<valid, live, disk, req, prompt, source>>

(* What a client has seen once it has this answer.                         *)
Transcript == req.text \o Visible(out)

Remember(b) ==
    [visible |-> IF b = "anthropic" THEN None ELSE Transcript,
     calls |-> IF b # "thinking" /\ out \in Calls THEN prompt \o out ELSE None,
     len |-> Len(tokens)]

(* The bindings after a turn that ended well.                              *)
Rebound(thinking) ==
    [b \in Bindings |->
        CASE b = "responses" -> IF req.api = b THEN Remember(b) ELSE live[b]
          [] b = "anthropic" -> IF req.api # b THEN live[b]
                                ELSE IF out \in Calls THEN Remember(b) ELSE None
          [] b = "thinking" -> IF out \notin Calls /\ thinking THEN Remember(b) ELSE None]

(* The bindings after a turn that ended in an error or at a limit.         *)
Dropped == [b \in Bindings |-> IF b \in {req.api, "thinking"} THEN None ELSE live[b]]

(* The turn ends.  With the exact text of its calls at hand nothing more   *)
(* is done to the session.                                                 *)
Publish ==
    /\ pc = "publish" /\ (exactReplay \/ out \notin Calls \/ req.api = "responses")
    /\ \E thinking \in BOOLEAN : live' = Rebound(thinking)
    /\ Finish
    /\ UNCHANGED <<sessionVars, disk>>

(* A stop sequence of the client cut the text: the session is invalidated  *)
(* and the bindings are made at position 0.                                *)
PublishStopped ==
    /\ pc = "publish"
    /\ tokens' = <<>> /\ valid' = FALSE
    /\ \E thinking \in BOOLEAN :
        live' = [b \in Bindings |-> IF Rebound(thinking)[b] = None THEN None
                                    ELSE [Rebound(thinking)[b] EXCEPT !.len = 0]]
    /\ Finish
    /\ UNCHANGED disk

(* finish is "length" or "error", before anything was sampled or after: a  *)
(* limit, an error of the backend, which leaves a checkpoint that is not   *)
(* valid, or a server that stops.                                          *)
PublishFailed ==
    /\ pc \in {"decode", "publish"}
    /\ valid' \in BOOLEAN
    /\ live' = Dropped
    /\ Finish
    /\ UNCHANGED <<tokens, disk>>

(* canonicalize_tool_checkpoint: after the bindings are made, the session  *)
(* is rewritten as the next request will render it, unless it is that      *)
(* already, the rendering is too long, or the session does not start with  *)
(* the request's own text.  It is extended, by ds4_session_sync alone, or  *)
(* rebuilt from nothing or from a checkpoint of the store.                 *)
Canonical == req.text \o Rendered[out]
Rewritable ==
    /\ Canonical # tokens
    /\ SeqExt!IsPrefix(req.text, tokens)
    /\ Len(Canonical) < Ctx

Rebuild ==
    \/ /\ SeqExt!IsPrefix(tokens, Canonical)
       /\ prompt' = Canonical /\ source' = "extension"
       /\ UNCHANGED sessionVars
    \/ /\ ~SeqExt!IsPrefix(tokens, Canonical)
       /\ prompt' = Canonical /\ source' = "none"
       /\ tokens' = <<>> /\ valid' = FALSE
    \/ /\ ~SeqExt!IsPrefix(tokens, Canonical)
       /\ source' = "disk-text"
       /\ \E k \in DOMAIN disk :
            /\ SeqExt!IsPrefix(k, Canonical)
            /\ prompt' = disk[k] \o After(Canonical, Len(k))
            /\ tokens' = disk[k] /\ valid' = TRUE

PublishCanonical ==
    /\ pc = "publish" /\ ~exactReplay /\ out \in Calls /\ req.api # "responses"
    /\ live' = Rebound(FALSE)
    /\ \/ Rewritable /\ Rebuild /\ pc' = "rewrite" /\ UNCHANGED <<req, out>>
       \/ ~Rewritable /\ Finish /\ UNCHANGED sessionVars
    /\ UNCHANGED disk

(* The rewrite is done, or it fails, is refused or is interrupted and a    *)
(* part of it may be left.  The bindings stay.                             *)
Rewritten ==
    /\ pc = "rewrite" /\ ~Cut
    /\ Synced
    /\ Finish
    /\ UNCHANGED <<live, disk>>

RewriteFailed ==
    /\ pc = "rewrite"
    /\ IF Cut THEN UNCHANGED sessionVars ELSE SyncFails(prompt)
    /\ LeavesPart
    /\ Finish
    /\ UNCHANGED <<live, disk>>

(* The client goes away: during a prefill, of which the slices done stay   *)
(* unless they follow a checkpoint the request is continued from, or later.*)
Cancelled ==
    /\ \/ /\ pc = "rewrite" \/ (pc = "sync" /\ source # "disk-text")
          /\ UNCHANGED sessionVars \/ (~Cut /\ (Synced \/ SyncFails(prompt)))
          /\ UNCHANGED disk
       \/ pc = "sync" /\ source = "disk-text" /\ Discard
       \/ pc \in {"decode", "publish"} /\ UNCHANGED <<sessionVars, disk>>
    /\ live' = Unbound
    /\ Finish

(* The store evicts a checkpoint.                                          *)
Evict ==
    /\ pc = "idle"
    /\ \E k \in DOMAIN disk : disk' = [d \in DOMAIN disk \ {k} |-> disk[d]]
    /\ UNCHANGED <<sessionVars, live, jobVars>>

-----------------------------------------------------------------------------
(* The process.                                                            *)

(* stop_signal_handler.  Requests that are queued are still run.           *)
Stop ==
    /\ ~stopping /\ stopping' = TRUE
    /\ UNCHANGED <<exactReplay, sessionVars, live, disk, jobVars, leftover>>

(* The next process, with the same model and context.                      *)
Restart ==
    /\ exactReplay' \in Replays /\ stopping' = FALSE
    /\ tokens' = <<>> /\ valid' = FALSE
    /\ live' = Unbound
    /\ Finish
    /\ UNCHANGED leftover

(* main has joined the workers and stores the session of every slot.       *)
Shutdown ==
    /\ stopping /\ pc = "idle"
    /\ disk' = IF valid THEN Stored(StoreKey) ELSE disk
    /\ Restart

(* A second signal, or anything else that ends the process at once.        *)
Killed == Restart /\ UNCHANGED disk

Step ==
    \/ Arrive \/ ChooseResponsesVisible \/ Unavailable \/ ChooseMemory \/ ChooseRewind
    \/ \E b \in {"responses", "anthropic"} : ChooseToolOutput(b)
    \/ ChooseThinking \/ ChooseDisk
    \/ SyncSlice \/ SyncOk \/ StoreContinued
    \/ Decode \/ Publish \/ PublishStopped \/ PublishFailed \/ PublishCanonical \/ Rewritten
    \/ Cancelled \/ Evict

Next ==
    \/ Step /\ UNCHANGED <<processVars, leftover>>
    \/ (SyncFailed \/ Interrupted \/ RewriteFailed) /\ UNCHANGED processVars
    \/ Stop \/ Shutdown \/ Killed

Spec == Init /\ [][Next]_vars

-----------------------------------------------------------------------------
(* Properties.                                                             *)

Histories == Seq(Tokens)

(* The session, the bindings, the store and the request have the types of  *)
(* the code's fields, and the session never outgrows the context.          *)
TypeOK ==
    /\ tokens \in Histories /\ Len(tokens) <= Ctx /\ valid \in BOOLEAN
    /\ \A b \in Bindings : live[b] = None
         \/ /\ live[b].visible \in Histories \cup {None} /\ live[b].calls \in Histories \cup {None}
            /\ live[b].len \in 0..Ctx
    /\ DOMAIN disk \subseteq Histories /\ Cardinality(DOMAIN disk) <= MaxFiles
    /\ \A k \in DOMAIN disk : disk[k] \in Histories
    /\ pc \in {"idle", "choose", "sync", "decode", "publish", "rewrite"}
    /\ source \in Sources /\ prompt \in Histories /\ out \in Histories
    /\ {exactReplay, stopping, leftover} \subseteq BOOLEAN

(* Whatever a request is continued from, a live binding, the session or a  *)
(* checkpoint of the store, what is evaluated is the history it asked for, *)
(* with only reasoning added.                                              *)
PromptAsAsked == pc = "sync" => Visible(prompt) = Asked

(* A checkpoint stored under a transcript that a full history can extend   *)
(* holds that very history.  kv_cache_store_current says of such a key: "On*)
(* load, DS4 restores the hidden KV payload and tokenizes only the visible *)
(* suffix that follows this key."                                          *)
CheckpointAsNamed ==
    \A k \in DOMAIN disk : Head(k) # Head(Suffix) => Visible(k) = Visible(disk[k])

(* A binding that would be trusted belongs to the history in the session:  *)
(* it is "only an in-memory binding from protocol tool-call IDs to the     *)
(* current sampled KV frontier".                                           *)
BindingAsTrusted ==
    pc = "idle" => \A b \in Bindings :
        valid /\ Bound(b) /\ live[b].calls # None => Visible(live[b].calls) = Visible(tokens)

(* The three hold through continued, cancelled and refused prefills,       *)
(* failures that invalidate the session, eviction, shutdown and restart,   *)
(* until a prefill that replaces the history ends early and its part of it *)
(* is a valid session beside bindings that nobody clears.                  *)

(* Before that, generate_job_inner evaluates the history it was asked for. *)
PromptFaithful == ~leftover => PromptAsAsked

(* Before that, kv_cache_store_current files no history under the          *)
(* transcript of another one, and no later process loads one as another.   *)
DiskFaithful == ~leftover => CheckpointAsNamed

(* Before that, the position a binding remembers is enough to tell whether *)
(* it belongs to the history in the session.                               *)
TrustedBindingIsCurrent == ~leftover => BindingAsTrusted

=============================================================================
