-------------------------- MODULE RunRecoveryProofs --------------------------
(* Theorems about RunRecovery and the prompt of EnginePrompt inside it: the  *)
(* types, with the four sessions a prompt can use; one editor of the         *)
(* worktree; the entry that names every session that was left behind; and    *)
(* the one pull request of a run that lives in the API server.               *)
EXTENDS RunRecovery, FiniteSetTheorems, TLAPS

(* How many sessions the prompt has made at each of its steps.               *)
Paced ==
  /\ at = "start" => made = 0 /\ attempt = 0 /\ then \in {"sync", "async"}
  /\ at = "create" => \/ then = "sync" /\ made = 0 /\ attempt = 0
                      \/ then = "async" /\ made <= attempt + 1
                      \/ then = "fsync" /\ made <= 3
  /\ at \in {"sync", "again"} => made <= 1 /\ attempt = 0
  /\ at \in {"async", "retry"} => made <= attempt + 2
  /\ at = "retry" => attempt = 0
  /\ at = "fallback" => made <= 3

(* The run is at its worker only in an API server that has not been          *)
(* restarted, and only then is a thread of the pool about.                   *)
Working ==
  /\ pc["run"] = "work" => home = "api" /\ pc["api"] = "idle" /\ swept = 0
  /\ pc["run"] # "work" => cancel = Quiet

TypeInv == TypeOK /\ Paced /\ Working

-----------------------------------------------------------------------------
(* What a deletion does to the sessions.                                     *)
LEMMA DeleteIs ==
  ASSUME NEW s, NEW ok \in BOOLEAN, busy \subseteq live, Delete(s, ok)
  PROVE  /\ live' \subseteq live /\ busy' \subseteq busy /\ busy' \subseteq live'
         /\ ok => s \notin live'
         /\ live \subseteq live' \union {s}
  BY DEF Delete

(* What a replacement does to them.                                          *)
LEMMA ReplaceIs ==
  ASSUME EpTypeOK, NEW next, NEW forget \in BOOLEAN, Replace(next, forget)
  PROVE  /\ live' \subseteq live /\ busy' \subseteq busy /\ busy' \subseteq live'
         /\ leaked \subseteq leaked' /\ leaked' \subseteq leaked \union ({sess} \intersect live')
         /\ sess \notin live' \ leaked'
         /\ sess' \in {0, sess} /\ at' = "create" /\ then' = next
<1>1. PICK ok \in BOOLEAN : Delete(sess, ok) /\ leaked' = IF sess \in live' THEN leaked \union {sess} ELSE leaked
  BY DEF Replace
<1>2. live' \subseteq live /\ busy' \subseteq busy /\ busy' \subseteq live'
  BY <1>1, DeleteIs DEF EpTypeOK
<1> QED BY <1>1, <1>2 DEF Replace

(* A run that may be left behind is one of the session in use.               *)
LEMMA LeavesIs ==
  ASSUME NEW o, busy \subseteq live, Leaves(o)
  PROVE  busy' \subseteq live /\ busy' \subseteq busy \union {sess}
  BY DEF Leaves

(* What a prompt returns.                                                    *)
LEMMA SyncReasonType ==
  ASSUME NEW o \in {"text", "empty", "timeout", "conflict", "lost"}, NEW tools \in BOOLEAN
  PROVE  SyncReason(o, tools) \in Reasons
  BY DEF SyncReason, Reasons

LEMMA ClassifiedType == \A w : Classified(w) \in Reasons
  BY DEF Classified, Reasons

LEMMA ReturnType ==
  ASSUME NEW r \in Reasons, NEW t \in BOOLEAN, Return(r, t)
  PROVE  at' = "finally" /\ answer' \in [reason : Reasons, text : BOOLEAN]
  BY DEF Return

LEMMA LastLookType ==
  ASSUME NEW r \in Reasons, LastLook(r)
  PROVE  at' = "finally" /\ answer' \in [reason : Reasons, text : BOOLEAN]
<1>1. PICK found \in BOOLEAN : Return(IF found THEN "" ELSE r, found)
  BY DEF LastLook
<1>2. (IF found THEN "" ELSE r) \in Reasons
  BY DEF Reasons
<1> QED BY <1>1, <1>2, ReturnType

-----------------------------------------------------------------------------
(* The steps of the prompt keep its types, and its pace.                     *)
LEMMA PromptTypes ==
  ASSUME EpTypeOK, Paced, PromptStep
  PROVE  EpTypeOK' /\ Paced'
<1> USE DEF Sessions
<1>r. "" \in Reasons /\ "RUN_ENDED" \in Reasons /\ "ENGINE_EXCEPTION" \in Reasons
      /\ "ENGINE_NO_ACTIVITY_RESPONSE" \in Reasons /\ NoAnswer \in [reason : Reasons, text : BOOLEAN]
  BY DEF Reasons, NoAnswer
<1>n. made \in Int /\ 0 <= made /\ made <= 4 /\ attempt \in Int /\ 0 <= attempt /\ attempt <= 1
  <2>1. made \in 0 .. 4 /\ attempt \in 0 .. 1
    BY DEF EpTypeOK
  <2> QED BY ONLY <2>1
<1>1. CASE Begin
  <2>1. EpTypeOK'
    BY <1>1, <1>r DEF Begin, EpTypeOK, Steps
  <2>2. Paced'
    BY <1>1, <1>n DEF Begin, Paced
  <2> QED BY <2>1, <2>2
<1>2. CASE Create
  <2>1. CASE at' = "finally" /\ UNCHANGED <<made, sess, live, marker>>
             /\ answer' \in [reason : Reasons, text : BOOLEAN]
    BY <1>2, <2>1 DEF Create, EpTypeOK, Steps, Paced
  <2>2. CASE /\ made' = made + 1 /\ sess' = made + 1
             /\ live' = live \union {made + 1} /\ marker' = made + 1
             /\ at' = then /\ UNCHANGED answer
    <3>1. at = "create" /\ UNCHANGED <<then, attempt, busy, why, current, cancel, leaked, crossed>>
      BY <1>2 DEF Create
    <3>2. made <= 3 /\ then \in {"sync", "async", "fsync"}
      BY <3>1, <1>n DEF Paced
    <3>3. EpTypeOK'
      <4>1. made + 1 \in 0 .. 4 /\ made + 1 \in Sessions /\ then \in Steps
        BY <3>2, <1>n DEF Steps
      <4> QED BY <2>2, <3>1, <4>1 DEF EpTypeOK
    <3>4. Paced'
      BY <2>2, <3>1, <3>2, <1>n DEF Paced
    <3> QED BY <3>3, <3>4
  <2> QED BY <1>2, <1>r, <2>1, <2>2, ReturnType DEF Create
<1>3. CASE PromptSync
  <2>1. PICK o \in {"text", "empty", "timeout", "conflict", "lost", "raises"},
             found \in BOOLEAN, tools \in BOOLEAN, dirty \in BOOLEAN :
       /\ Leaves(o)
       /\ IF o = "raises" THEN Return("ENGINE_EXCEPTION", FALSE)
          ELSE IF o = "text" \/ found THEN Return("", TRUE)
          ELSE IF o \in {"empty", "timeout"} /\ ~dirty
          THEN at' = "again" /\ UNCHANGED answer
          ELSE Return(SyncReason(o, tools), FALSE)
    BY <1>3 DEF PromptSync
  <2>2. busy' \subseteq live
    BY <2>1, LeavesIs DEF EpTypeOK
  <2>3. at' \in {"again", "finally"} /\ answer' \in [reason : Reasons, text : BOOLEAN]
    BY <2>1, <1>r, ReturnType, SyncReasonType DEF EpTypeOK
  <2> QED BY <1>3, <2>2, <2>3 DEF PromptSync, EpTypeOK, Steps, Paced
<1>4. CASE SyncAgain
  <2>1. CASE Stop /\ UNCHANGED <<sess, live, busy, then, leaked>>
    <3>1. at' = "finally" /\ answer' \in [reason : Reasons, text : BOOLEAN]
      BY <2>1, <1>r, ReturnType DEF Stop
    <3> QED BY <1>4, <2>1, <3>1 DEF SyncAgain, EpTypeOK, Steps, Paced
  <2>2. CASE Replace("async", FALSE) /\ UNCHANGED answer
    <3>1. /\ live' \subseteq live /\ busy' \subseteq live' /\ leaked' \subseteq leaked \union live'
          /\ sess' \in {0, sess} /\ at' = "create" /\ then' = "async"
      BY <2>2, ReplaceIs
    <3>2. EpTypeOK'
      BY <1>4, <2>2, <3>1 DEF SyncAgain, EpTypeOK, Steps
    <3>3. Paced'
      BY <1>4, <3>1, <1>n DEF SyncAgain, Paced
    <3> QED BY <3>2, <3>3
  <2> QED BY <1>4, <2>1, <2>2 DEF SyncAgain
<1>5. CASE RunAsync
  <2>1. /\ at' \in {"finally", IF attempt = 0 THEN "retry" ELSE "fallback"}
        /\ answer' \in [reason : Reasons, text : BOOLEAN]
        /\ busy' \subseteq live /\ why' \in StreamReasons
    <3>1. CASE Stopped /\ why' = "inactive" /\ UNCHANGED <<busy, answer>>
               /\ at' = IF attempt = 0 THEN "retry" ELSE "fallback"
      BY <3>1 DEF EpTypeOK, StreamReasons
    <3>2. ASSUME NEW r \in (StreamReasons \ {"inactive"}) \union {"text", "raises"},
                 Leaves(IF r = "session_run_conflict" THEN "conflict" ELSE r),
                 IF r = "raises" THEN Return("ENGINE_EXCEPTION", FALSE) /\ UNCHANGED why
                 ELSE IF r = "text" THEN Return("", TRUE) /\ UNCHANGED why
                 ELSE /\ why' = IF r = "" THEN why ELSE r
                      /\ \/ r = "" /\ Return("", TRUE)
                         \/ why' \in TerminalReasons /\ LastLook(Classified(why'))
                         \/ /\ why' \notin TerminalReasons
                            /\ at' = IF attempt = 0 THEN "retry" ELSE "fallback"
                            /\ UNCHANGED answer
          PROVE  /\ at' \in {"finally", IF attempt = 0 THEN "retry" ELSE "fallback"}
                 /\ answer' \in [reason : Reasons, text : BOOLEAN]
                 /\ busy' \subseteq live /\ why' \in StreamReasons
      <4>1. busy' \subseteq live
        BY <3>2, LeavesIs DEF EpTypeOK
      <4>2. why' \in StreamReasons
        BY <3>2 DEF EpTypeOK
      <4>3. /\ at' \in {"finally", IF attempt = 0 THEN "retry" ELSE "fallback"}
            /\ answer' \in [reason : Reasons, text : BOOLEAN]
        BY <3>2, <1>r, ReturnType, LastLookType, ClassifiedType DEF EpTypeOK
      <4> QED BY <4>1, <4>2, <4>3
    <3> QED BY <1>5, <3>1, <3>2 DEF RunAsync
  <2>2. EpTypeOK'
    BY <1>5, <2>1 DEF RunAsync, EpTypeOK, Steps
  <2>3. Paced'
    <3>1. at = "async" /\ UNCHANGED <<attempt, made, then>>
      BY <1>5 DEF RunAsync
    <3>2. made <= attempt + 2
      BY <3>1 DEF Paced
    <3>3. attempt # 0 => attempt = 1
      BY <1>n
    <3>4. CASE attempt = 0
      BY <2>1, <3>1, <3>2, <3>4 DEF Paced
    <3>5. CASE attempt = 1
      BY <2>1, <3>1, <3>2, <3>5 DEF Paced
    <3> QED BY <3>3, <3>4, <3>5
  <2> QED BY <2>2, <2>3
<1>6. CASE Retry
  <2>1. CASE Stop /\ UNCHANGED <<attempt, sess, live, busy, then, leaked>>
    <3>1. at' = "finally" /\ answer' \in [reason : Reasons, text : BOOLEAN]
      BY <2>1, <1>r, ReturnType DEF Stop
    <3> QED BY <1>6, <2>1, <3>1 DEF Retry, EpTypeOK, Steps, Paced
  <2>2. CASE Replace("async", TRUE) /\ attempt' = 1 /\ UNCHANGED answer
    <3>1. /\ live' \subseteq live /\ busy' \subseteq live' /\ leaked' \subseteq leaked \union live'
          /\ sess' \in {0, sess} /\ at' = "create" /\ then' = "async"
      BY <2>2, ReplaceIs
    <3>2. at = "retry" /\ UNCHANGED <<made, marker, why, current, cancel, crossed>>
      BY <1>6 DEF Retry
    <3>3. made <= 2
      BY <3>2 DEF Paced
    <3>4. Paced'
      BY <2>2, <3>1, <3>2, <3>3 DEF Paced
    <3>5. EpTypeOK'
      <4>1. attempt' \in 0 .. 1 /\ at' \in Steps /\ then' \in Steps
        BY <2>2, <3>1 DEF Steps
      <4>2. sess' \in {0} \union Sessions /\ live' \subseteq Sessions /\ leaked' \subseteq Sessions
        BY <3>1 DEF EpTypeOK
      <4> QED BY <2>2, <3>1, <3>2, <4>1, <4>2 DEF EpTypeOK
    <3> QED BY <3>4, <3>5
  <2>3. CASE /\ \E ok \in BOOLEAN : Delete(sess, ok)
             /\ leaked' = IF sess \in live' THEN leaked \union {sess} ELSE leaked
             /\ sess' = 0
             /\ Return("ENGINE_NO_ACTIVITY_RESPONSE", FALSE)
             /\ UNCHANGED <<attempt, then>>
    <3>1. at' = "finally" /\ answer' \in [reason : Reasons, text : BOOLEAN]
      BY <2>3, <1>r, ReturnType
    <3>2. live' \subseteq live /\ busy' \subseteq live'
      BY <2>3, DeleteIs DEF EpTypeOK
    <3> QED BY <1>6, <2>3, <3>1, <3>2 DEF Retry, EpTypeOK, Steps, Paced
  <2> QED BY <1>6, <2>1, <2>2, <2>3 DEF Retry
<1>7. CASE Fallback
  <2>1. CASE Stop /\ UNCHANGED <<sess, live, busy, then, leaked>>
    <3>1. at' = "finally" /\ answer' \in [reason : Reasons, text : BOOLEAN]
      BY <2>1, <1>r, ReturnType DEF Stop
    <3> QED BY <1>7, <2>1, <3>1 DEF Fallback, EpTypeOK, Steps, Paced
  <2>2. CASE Replace("fsync", FALSE) /\ UNCHANGED answer
    <3>1. /\ live' \subseteq live /\ busy' \subseteq live' /\ leaked' \subseteq leaked \union live'
          /\ sess' \in {0, sess} /\ at' = "create" /\ then' = "fsync"
      BY <2>2, ReplaceIs
    <3>2. EpTypeOK'
      BY <1>7, <2>2, <3>1 DEF Fallback, EpTypeOK, Steps
    <3>3. Paced'
      BY <1>7, <3>1, <1>n DEF Fallback, Paced
    <3> QED BY <3>2, <3>3
  <2>3. CASE at' = "fsync" /\ UNCHANGED <<sess, live, busy, then, answer, leaked>>
    BY <1>7, <2>3 DEF Fallback, EpTypeOK, Steps, Paced
  <2> QED BY <1>7, <2>1, <2>2, <2>3 DEF Fallback
<1>8. CASE FallbackSync
  <2>1. PICK o \in {"text", "empty", "timeout", "conflict", "lost", "raises"} :
       /\ Leaves(o)
       /\ CASE o = "raises" -> Return("ENGINE_EXCEPTION", FALSE)
            [] o = "text"   -> Return("", TRUE)
            [] o = "empty"  -> LastLook(Classified(why))
            [] OTHER        -> LastLook(SyncReason(o, FALSE))
    BY <1>8 DEF FallbackSync
  <2>2. busy' \subseteq live
    BY <2>1, LeavesIs DEF EpTypeOK
  <2>3. at' = "finally" /\ answer' \in [reason : Reasons, text : BOOLEAN]
    BY <2>1, <1>r, ReturnType, LastLookType, ClassifiedType, SyncReasonType
  <2> QED BY <1>8, <2>2, <2>3 DEF FallbackSync, EpTypeOK, Steps, Paced
<1>9. CASE Finally
  <2>1. live' \subseteq live /\ busy' \subseteq live' /\ marker' \in {0, sess, marker}
    BY <1>9, DeleteIs DEF Finally, EpTypeOK
  <2> QED BY <1>9, <2>1 DEF Finally, EpTypeOK, Steps, Paced
<1> QED BY <1>1, <1>2, <1>3, <1>4, <1>5, <1>6, <1>7, <1>8, <1>9 DEF PromptStep

-----------------------------------------------------------------------------
(* The steps of the run and of the server's start.                           *)
LEMMA GotoIs ==
  ASSUME TypeOK, NEW w \in Who, NEW p \in Points, Goto(w, p)
  PROVE  pc' \in [Who -> Points] /\ pc'[w] = p /\ \A v \in Who : v # w => pc'[v] = pc[v]
  BY DEF TypeOK, Goto

LEMMA WhoIs == "run" \in Who /\ "api" \in Who /\ \A w \in Who : w = "run" \/ w = "api"
  BY DEF Who

(* Where a step of finalize_completed_run may lead, and what it writes.      *)
LEMMA BlockIs ==
  ASSUME TypeOK, NEW w \in Who, Block(w)
  PROVE  /\ file' = "blocked" /\ events' = events \union {"run.blocked"}
         /\ pc' \in [Who -> Points] /\ pc'[w] \in {"ended", "sweep"}
         /\ \A v \in Who : v # w => pc'[v] = pc[v]
  BY GotoIs DEF Block, Leave, Points

FinalPoints == {"commit", "push", "publish", "note", "complete", "sync"}

(* A step that leaves the prompt alone and moves one of the two on.          *)
Moves(w) ==
  /\ UNCHANGED <<epVars, home, swept>>
  /\ pc[w] \notin {"work", "idle"}
  /\ pc' \in [Who -> Points] /\ pc'[w] # "work"
  /\ \A v \in Who : v # w => pc'[v] = pc[v]

LEMMA MovesTypes ==
  ASSUME TypeInv, NEW w \in Who, Moves(w)
  PROVE  EpTypeOK' /\ Paced' /\ Working'
<1>1. EpTypeOK' /\ Paced'
  <2>1. UNCHANGED <<at, then, attempt, sess, made, live, busy, marker, why, answer, current,
                    cancel, leaked, crossed>>
    BY DEF Moves, epVars
  <2>2. EpTypeOK'
    BY <2>1 DEF TypeInv, TypeOK, EpTypeOK
  <2>3. Paced'
    BY <2>1 DEF TypeInv, Paced
  <2> QED BY <2>2, <2>3
<1>2. Working'
  BY WhoIs DEF TypeInv, Moves, epVars, Working
<1> QED BY <1>1, <1>2

LEMMA FinalizeMoves ==
  ASSUME TypeOK, NEW w \in Who, Finalize(w)
  PROVE  /\ Moves(w) /\ pc[w] \in FinalPoints
         /\ UNCHANGED <<worker, term, gone>>
         /\ file' \in {file, "running", "blocked", "completed"}
         /\ events' \in {events, events \union {"run.blocked"},
                         events \union {"github_pull_request.created"}, events \union {"run.completed"}}
         /\ tree' \in {tree, "committed"}
         /\ prs' \in 0 .. MaxPrs
<1>b. Block(w) => /\ file' = "blocked" /\ events' = events \union {"run.blocked"}
                  /\ pc' \in [Who -> Points] /\ pc'[w] # "work"
                  /\ \A v \in Who : v # w => pc'[v] = pc[v]
  BY BlockIs
<1>g. \A p \in Points : Goto(w, p) => /\ pc' \in [Who -> Points] /\ pc'[w] = p
                                      /\ \A v \in Who : v # w => pc'[v] = pc[v]
  BY GotoIs
<1>p. FinalPoints \union {"ended", "sweep"} \subseteq Points
  BY DEF FinalPoints, Points
<1>t. prs \in 0 .. MaxPrs
  BY DEF TypeOK
<1>1. CASE Commit(w)
  BY <1>1, <1>b, <1>g, <1>p, <1>t DEF Commit, Moves, FinalPoints
<1>2. CASE Push(w)
  BY <1>2, <1>b, <1>g, <1>p, <1>t DEF Push, Moves, FinalPoints
<1>3. CASE Publish(w)
  <2>1. prs' \in 0 .. MaxPrs
    BY <1>3, <1>t DEF Publish, MaxPrs
  <2> QED BY <1>3, <2>1, <1>b, <1>g, <1>p DEF Publish, Moves, FinalPoints
<1>4. CASE Note(w)
  BY <1>4, <1>g, <1>p, <1>t DEF Note, Moves, FinalPoints
<1>5. CASE Complete(w)
  BY <1>5, <1>g, <1>p, <1>t DEF Complete, Moves, FinalPoints
<1>6. CASE Sync(w)
  BY <1>6, <1>b, <1>g, <1>p, <1>t DEF Sync, Leave, Moves, FinalPoints
<1> QED BY <1>1, <1>2, <1>3, <1>4, <1>5, <1>6 DEF Finalize

(* What the other threads and the engine do keeps the types of the prompt.   *)
LEMMA OthersTypes ==
  ASSUME EpTypeOK, Paced,
         GiveUp \/ CancelDeletes \/ CancelPops \/ \E s \in Sessions : EngineEnds(s)
  PROVE  EpTypeOK' /\ Paced'
<1>1. CASE GiveUp
  <2>1. cancel' \in [step : {"", "delete", "pop"}, of : {0} \union Sessions]
    BY <1>1 DEF GiveUp, EpTypeOK
  <2> QED BY <1>1, <2>1 DEF GiveUp, EpTypeOK, Paced
<1>2. CASE CancelDeletes
  <2>1. PICK ok \in BOOLEAN :
          /\ Delete(cancel.of, ok)
          /\ marker' = IF ok THEN marker ELSE cancel.of
          /\ cancel' = IF ok THEN [cancel EXCEPT !.step = "pop"] ELSE Quiet
          /\ crossed' = (crossed \/ (~ok /\ marker \notin {0, cancel.of}))
    BY <1>2 DEF CancelDeletes
  <2>2. live' \subseteq live /\ busy' \subseteq live'
    BY <2>1, DeleteIs DEF EpTypeOK
  <2>3. cancel' \in [step : {"", "delete", "pop"}, of : {0} \union Sessions]
    BY <2>1 DEF EpTypeOK, Quiet
  <2>4. marker' \in {0} \union Sessions
    BY <2>1 DEF EpTypeOK
  <2>5. UNCHANGED <<at, then, attempt, sess, made, why, answer, current, leaked>>
    BY <1>2 DEF CancelDeletes
  <2>6. EpTypeOK'
    BY <2>1, <2>2, <2>3, <2>4, <2>5 DEF EpTypeOK
  <2> QED BY <2>5, <2>6 DEF Paced
<1>3. CASE CancelPops
  BY <1>3 DEF CancelPops, EpTypeOK, Quiet, Paced
<1>4. CASE \E s \in Sessions : EngineEnds(s)
  <2>1. busy' \subseteq busy /\ UNCHANGED <<at, then, attempt, sess, made, live, marker, why, answer,
                                            current, cancel, leaked, crossed>>
    BY <1>4 DEF EngineEnds
  <2>2. EpTypeOK'
    BY <2>1 DEF EpTypeOK
  <2> QED BY <2>1, <2>2 DEF Paced
<1> QED BY <1>1, <1>2, <1>3, <1>4

(* Steps that leave the prompt where it is, and may lose sessions.           *)
LEMMA PacedSame == Paced /\ UNCHANGED <<at, then, attempt, made>> => Paced'
  BY DEF Paced

LEMMA EpSame ==
  ASSUME EpTypeOK, live' \subseteq live, busy' \subseteq live', marker' \in {0} \union Sessions,
         UNCHANGED <<at, then, attempt, sess, made, why, answer, current, cancel, leaked, crossed>>
  PROVE  EpTypeOK'
  BY DEF EpTypeOK

(* What is left of the prompt in memory when the worker is done or dead.     *)
LEMMA ResetTypes ==
  /\ NoAnswer \in [reason : Reasons, text : BOOLEAN] /\ "" \in StreamReasons
  /\ "sync" \in Steps /\ "over" \in Steps /\ 0 \in 0 .. 1 /\ 0 \in 0 .. 4
  /\ Quiet \in [step : {"", "delete", "pop"}, of : {0} \union Sessions] /\ Quiet.step = ""
<1>1. NoAnswer \in [reason : Reasons, text : BOOLEAN]
  BY DEF NoAnswer, Reasons
<1>2. "" \in StreamReasons /\ "sync" \in Steps /\ "over" \in Steps
  BY DEF StreamReasons, Steps
<1>3. 0 \in 0 .. 1 /\ 0 \in 0 .. 4
  OBVIOUS
<1>4. Quiet \in [step : {"", "delete", "pop"}, of : {0} \union Sessions] /\ Quiet.step = ""
  BY DEF Quiet
<1> QED BY <1>1, <1>2, <1>3, <1>4

LEMMA TypeNext == TypeInv /\ [Next]_allVars => TypeInv'
<1> SUFFICES ASSUME TypeInv, [Next]_allVars PROVE TypeInv'
  OBVIOUS
<1>t. TypeOK /\ EpTypeOK /\ Paced /\ Working
  BY DEF TypeInv, TypeOK
<1>f. /\ home \in {"api", "cli"} /\ pc \in [Who -> Points]
      /\ file \in {"running", "blocked", "completed"}
      /\ events \subseteq {"run.completed", "run.blocked", "github_pull_request.created"}
      /\ worker \in {"none", "completed", "failed"} /\ tree \in {"clean", "edited", "committed"}
      /\ prs \in 0 .. MaxPrs /\ term \in {"", "write", "over"}
      /\ swept \in {0} \union Sessions /\ gone \subseteq Sessions
  BY DEF TypeInv, TypeOK, Terminal
<1>p. \A w \in Who, p \in Points :
        Goto(w, p) => /\ pc' \in [Who -> Points] /\ pc'[w] = p
                      /\ \A v \in Who : v # w => pc'[v] = pc[v]
  BY <1>t, GotoIs
<1>1. CASE Prompts
  <2>1. EpTypeOK' /\ Paced' /\ UNCHANGED <<home, pc, file, events, worker, tree, prs, term, swept, gone>>
    BY <1>1, <1>t, PromptTypes DEF Prompts, rcVars
  <2>2. pc["run"] = "work"
    BY <1>1 DEF Prompts
  <2> QED BY <2>1, <2>2, <1>t DEF TypeInv, TypeOK, Working
<1>2. CASE Others
  <2>1. EpTypeOK' /\ Paced' /\ UNCHANGED <<home, pc, file, events, worker, tree, prs, term, swept, gone>>
    BY <1>2, <1>t, OthersTypes DEF Others, rcVars
  <2>2. pc["run"] # "work" => cancel' = Quiet
    <3>1. pc["run"] # "work" => cancel = Quiet /\ cancel.step = ""
      BY <1>t, ResetTypes DEF Working
    <3> QED BY <1>2, <3>1 DEF Others, CancelDeletes, CancelPops, EngineEnds
  <2> QED BY <2>1, <2>2, <1>t DEF TypeInv, TypeOK, Working
<1>3. CASE WorkerDone
  <2>1. /\ UNCHANGED <<at, sess, live, busy, marker, current, cancel, leaked, crossed>>
        /\ UNCHANGED <<home, prs, term, swept, gone>>
        /\ answer' = NoAnswer /\ why' = "" /\ attempt' = 0 /\ then' = "sync" /\ made' = 0
        /\ at = "over" /\ cancel = Quiet
    BY <1>3 DEF WorkerDone
  <2>2. /\ worker' \in {"completed", "failed"} /\ tree' \in {tree, "edited"}
        /\ file' \in {"running", "blocked"} /\ events' \in {events, events \union {"run.blocked"}}
        /\ pc' \in [Who -> Points] /\ pc'["run"] # "work"
    BY <1>3, <1>t, <1>p, WhoIs, BlockIs DEF WorkerDone, Points
  <2>3. EpTypeOK'
    <3>1. answer' \in [reason : Reasons, text : BOOLEAN] /\ why' \in StreamReasons /\ then' \in Steps
          /\ attempt' \in 0 .. 1 /\ made' \in 0 .. 4
      BY <2>1, ResetTypes
    <3> QED BY <2>1, <3>1, <1>t DEF EpTypeOK
  <2>4. Paced' /\ Working'
    BY <2>1, <2>2 DEF Paced, Working
  <2> QED BY <1>f, <2>1, <2>2, <2>3, <2>4 DEF TypeInv, TypeOK, Terminal
<1>4. CASE Review
  <2>1. Moves("run")
    BY <1>4, <1>t, <1>f, <1>p, WhoIs, BlockIs DEF Review, Moves, Points
  <2>2. /\ tree' \in {tree, "edited"} /\ file' \in {"running", "blocked"}
        /\ events' \in {events, events \union {"run.blocked"}} /\ UNCHANGED <<worker, prs, term, gone>>
    BY <1>4 DEF Review, Block
  <2>3. EpTypeOK' /\ Paced' /\ Working'
    BY <2>1, MovesTypes, WhoIs
  <2> QED BY <1>f, <2>1, <2>2, <2>3 DEF TypeInv, TypeOK, Terminal, Moves
<1>5. ASSUME NEW w \in Who, Finalize(w) PROVE TypeInv'
  <2>1. /\ Moves(w) /\ UNCHANGED <<worker, term, gone>>
        /\ file' \in {file, "running", "blocked", "completed"}
        /\ events' \in {events, events \union {"run.blocked"},
                        events \union {"github_pull_request.created"}, events \union {"run.completed"}}
        /\ tree' \in {tree, "committed"} /\ prs' \in 0 .. MaxPrs
    BY <1>5, <1>t, FinalizeMoves
  <2>2. EpTypeOK' /\ Paced' /\ Working'
    BY <2>1, MovesTypes
  <2> QED BY <1>f, <2>1, <2>2 DEF TypeInv, TypeOK, Terminal, Moves
<1>6. CASE Start \/ Verify \/ Raises
  <2>1. Moves("api") /\ UNCHANGED <<events, worker, tree, prs, term, gone>> /\ file' \in {file, "running"}
    BY <1>6, <1>p, WhoIs DEF Start, Verify, Raises, Moves, Points
  <2>2. EpTypeOK' /\ Paced' /\ Working'
    BY <2>1, MovesTypes, WhoIs
  <2> QED BY <1>f, <2>1, <2>2 DEF TypeInv, TypeOK, Terminal, Moves
<1>7. CASE Sweep
  <2>1. /\ UNCHANGED <<at, then, attempt, sess, made, marker, why, answer, current, cancel, leaked, crossed>>
        /\ UNCHANGED <<home, file, events, worker, tree, prs, term>> /\ pc["api"] = "sweep"
    BY <1>7 DEF Sweep
  <2>2. live' \subseteq live /\ busy' \subseteq live' /\ swept' \in {0, swept, marker}
        /\ gone' \subseteq gone \union {marker}
        /\ (gone' \subseteq gone \/ marker # 0)
    BY <1>7, <1>t, DeleteIs DEF Sweep, SweepDue, EpTypeOK
  <2>3. pc' \in [Who -> Points] /\ pc'["run"] = pc["run"]
    BY <1>7, <1>p, WhoIs DEF Sweep, Points
  <2>4. EpTypeOK' /\ Paced'
    <3>1. marker' \in {0} \union Sessions
      BY <2>1, <1>t DEF EpTypeOK
    <3>2. EpTypeOK'
      BY <2>1, <2>2, <3>1, <1>t, EpSame
    <3> QED BY <2>1, <3>2, <1>t, PacedSame
  <2>5. Working'
    BY <2>1, <2>3, <1>t DEF Working
  <2>6. marker \in {0} \union Sessions
    BY <1>t DEF EpTypeOK
  <2> QED BY <1>f, <2>1, <2>2, <2>3, <2>4, <2>5, <2>6 DEF TypeInv, TypeOK, Terminal
<1>8. CASE Unmark
  <2>1. /\ UNCHANGED <<at, then, attempt, sess, made, live, busy, why, answer, current, cancel, leaked,
                       crossed>>
        /\ UNCHANGED <<home, file, events, worker, tree, prs, term, gone>> /\ pc["api"] = "unmark"
        /\ marker' \in {0, marker} /\ swept' = 0
    BY <1>8 DEF Unmark
  <2>2. pc' \in [Who -> Points] /\ pc'["run"] = pc["run"]
    BY <1>8, <1>p, WhoIs DEF Unmark, Points
  <2>3. EpTypeOK' /\ Paced'
    <3>1. marker' \in {0} \union Sessions /\ busy' \subseteq live' /\ live' \subseteq live
      BY <2>1, <1>t DEF EpTypeOK
    <3>2. EpTypeOK'
      BY <2>1, <3>1, <1>t, EpSame
    <3> QED BY <2>1, <3>2, <1>t, PacedSame
  <2>4. Working'
    BY <2>1, <2>2, <1>t DEF Working
  <2> QED BY <1>f, <2>1, <2>2, <2>3, <2>4 DEF TypeInv, TypeOK, Terminal
<1>9. CASE TermRead \/ TermWrite
  <2>1. /\ UNCHANGED <<at, then, attempt, sess, made, live, busy, marker, why, answer, current,
                       cancel, leaked, crossed>>
        /\ UNCHANGED <<home, pc, worker, tree, prs, swept, gone>>
    BY <1>9 DEF TermRead, TermWrite, epVars
  <2>2. /\ term' \in {"write", "over"} /\ file' \in {file, "blocked"}
        /\ events' \in {events, events \union {"run.blocked"}}
    BY <1>9 DEF TermRead, TermWrite
  <2>3. EpTypeOK' /\ Paced' /\ Working'
    <3>1. marker' \in {0} \union Sessions /\ busy' \subseteq live' /\ live' \subseteq live
      BY <2>1, <1>t DEF EpTypeOK
    <3>2. EpTypeOK'
      BY <2>1, <3>1, <1>t, EpSame
    <3>3. Paced'
      BY <2>1, <1>t, PacedSame
    <3>4. Working'
      BY <2>1, <1>t DEF Working
    <3> QED BY <3>2, <3>3, <3>4
  <2> QED BY <1>f, <2>1, <2>2, <2>3 DEF TypeInv, TypeOK, Terminal
<1>10. ASSUME NEW q \in {"api", "cli"}, Dies(q) PROVE TypeInv'
  <2>1. /\ UNCHANGED <<live, busy, marker, current, leaked, crossed>>
        /\ UNCHANGED <<home, file, events, worker, tree, prs, gone>>
        /\ term' \in {term, "over"} /\ swept' \in {0, swept}
    BY <1>10 DEF Dies
  <2>2. pc' = [w \in Who |-> IF q = (IF w = "run" THEN home ELSE "api") THEN "down" ELSE pc[w]]
        /\ q \in {"api", home}
    BY <1>10 DEF Dies
  <2>3. pc' \in [Who -> Points]
    BY <2>2, <1>f DEF Points
  <2>4. CASE q = home
    <3>1. /\ at' = "over" /\ sess' = 0 /\ cancel' = Quiet
          /\ answer' = NoAnswer /\ why' = "" /\ attempt' = 0 /\ then' = "sync" /\ made' = 0
      BY <1>10, <2>4 DEF Dies
    <3>2. answer' \in [reason : Reasons, text : BOOLEAN] /\ why' \in StreamReasons /\ then' \in Steps
          /\ attempt' \in 0 .. 1 /\ made' \in 0 .. 4 /\ at' \in Steps
          /\ cancel' \in [step : {"", "delete", "pop"}, of : {0} \union Sessions]
      BY <3>1, ResetTypes
    <3>3. EpTypeOK'
      BY <2>1, <3>1, <3>2, <1>t DEF EpTypeOK
    <3>4. pc'["run"] = "down"
      BY <2>2, <2>4, WhoIs
    <3>5. Paced' /\ Working'
      BY <3>1, <3>4 DEF Paced, Working
    <3> QED BY <1>f, <2>1, <2>3, <3>3, <3>5 DEF TypeInv, TypeOK, Terminal
  <2>5. CASE q # home
    <3>1. UNCHANGED <<at, sess, cancel, answer, why, attempt, then, made>>
      BY <1>10, <2>5 DEF Dies
    <3>2. home = "cli" /\ q = "api"
      BY <2>2, <2>5, <1>f
    <3>3. pc'["run"] = pc["run"] /\ pc["run"] # "work"
      BY <2>2, <3>2, WhoIs, <1>t DEF Working
    <3>4. EpTypeOK' /\ Paced'
      <4>1. marker' \in {0} \union Sessions /\ busy' \subseteq live' /\ live' \subseteq live
        BY <2>1, <1>t DEF EpTypeOK
      <4>2. EpTypeOK'
        BY <2>1, <3>1, <4>1, <1>t, EpSame
      <4> QED BY <3>1, <4>2, <1>t, PacedSame
    <3>5. Working'
      BY <3>1, <3>3, <1>t DEF Working
    <3> QED BY <1>f, <2>1, <2>3, <3>4, <3>5 DEF TypeInv, TypeOK, Terminal
  <2> QED BY <2>4, <2>5
<1>11. CASE UNCHANGED allVars
  <2>1. /\ UNCHANGED <<at, then, attempt, sess, made, live, busy, marker, why, answer, current,
                       cancel, leaked, crossed>>
        /\ UNCHANGED <<home, pc, file, events, worker, tree, prs, term, swept, gone>>
    BY <1>11 DEF allVars, epVars, rcVars
  <2>2. EpTypeOK' /\ Paced' /\ Working'
    <3>1. marker' \in {0} \union Sessions /\ busy' \subseteq live' /\ live' \subseteq live
      BY <2>1, <1>t DEF EpTypeOK
    <3>2. EpTypeOK'
      BY <2>1, <3>1, <1>t, EpSame
    <3>3. Paced'
      BY <2>1, <1>t, PacedSame
    <3>4. Working'
      BY <2>1, <1>t DEF Working
    <3> QED BY <3>2, <3>3, <3>4
  <2> QED BY <1>f, <2>1, <2>2 DEF TypeInv, TypeOK, Terminal
<1> QED
  BY <1>1, <1>2, <1>3, <1>4, <1>5, <1>6, <1>7, <1>8, <1>9, <1>10, <1>11, WhoIs
     DEF Next, RunStep, ApiStep

LEMMA TypeInit == Init => TypeInv
<1> SUFFICES ASSUME Init PROVE TypeInv
  OBVIOUS
<1>0. /\ at = "start" /\ then \in FirstStep
      /\ attempt = 0 /\ sess = 0 /\ made = 0 /\ live = {} /\ busy = {} /\ marker = 0
      /\ why = "" /\ answer = NoAnswer /\ current = TRUE /\ cancel = Quiet /\ leaked = {}
      /\ crossed = FALSE
  BY DEF Init, EpInit
<1>n. then \in {"sync", "async"}
  BY <1>0 DEF FirstStep
<1>1. EpTypeOK
  <2>1. at \in Steps /\ then \in Steps
    BY <1>0, <1>n DEF Steps
  <2> QED BY <1>0, <2>1, ResetTypes DEF EpTypeOK
<1>2. Paced
  BY <1>0, <1>n DEF Paced
<1>i. \/ pc = [run |-> "work", api |-> "idle"] /\ home = "api"
      \/ pc = [run |-> "review", api |-> "idle"] /\ home = "cli"
  BY DEF Init
<1>3. pc \in [Who -> Points]
  <2>1. {"work", "review", "idle"} \subseteq Points
    BY DEF Points
  <2> QED BY <1>i, <2>1 DEF Who
<1>4. Working
  <2>1. swept = 0
    BY DEF Init
  <2>2. pc["run"] = "work" => home = "api" /\ pc["api"] = "idle"
    BY <1>i
  <2> QED BY <1>0, <2>1, <2>2 DEF Working
<1>5. prs \in 0 .. MaxPrs
  <2>1. prs = 0
    BY DEF Init
  <2> QED BY <2>1 DEF MaxPrs
<1>6. TypeOK
  BY <1>1, <1>3, <1>5, HomesAssumption DEF Init, TypeOK, Terminal
<1> QED BY <1>2, <1>4, <1>6 DEF TypeInv

(* The kinds of the variables of the run, the prompt and the server's start. *)
(* In particular a prompt never makes more than four sessions, through all   *)
(* its replacements of silent sessions and its fall back to prompt_sync.     *)
THEOREM Typing == Spec => []TypeOK
<1>1. TypeInv => TypeOK
  BY DEF TypeInv
<1> QED BY <1>1, TypeInit, TypeNext, PTL DEF Spec

-----------------------------------------------------------------------------
(* What a step of the prompt does to the sessions: nothing yet, a prompt to  *)
(* the session in use, its removal, a new one, or the end.                   *)
Rests ==
  /\ at \in {"start", "create"} /\ at' \in {"create", "finally", "over"}
  /\ UNCHANGED <<live, busy, leaked, sess, marker, made>>
Prompted ==
  /\ at \notin {"start", "create", "over"} /\ at' \notin {"start", "create", "over"}
  /\ UNCHANGED <<live, leaked, sess, made>>
  /\ busy' \subseteq busy \union {sess} /\ marker' \in {marker, sess}
Removes ==
  /\ at # "over" /\ at' \in {"create", "finally"}
  /\ live' \subseteq live /\ busy' \subseteq busy /\ busy' \subseteq live'
  /\ leaked \subseteq leaked' /\ leaked' \subseteq leaked \union ({sess} \intersect live')
  /\ sess \notin live' \ leaked'
  /\ sess' \in {0, sess} /\ UNCHANGED <<marker, made>>
Creates ==
  /\ at = "create" /\ at' \notin {"start", "create", "over"}
  /\ made' = made + 1 /\ sess' = made + 1 /\ marker' = made + 1 /\ live' = live \union {made + 1}
  /\ UNCHANGED <<busy, leaked>>
Ends ==
  /\ at = "finally" /\ at' = "over" /\ sess' = 0 /\ UNCHANGED <<leaked, made>>
  /\ live' \subseteq live /\ busy' \subseteq busy /\ marker' \in {0, marker, sess}
  /\ \/ sess = 0 /\ marker' = marker
     \/ sess \notin live'
     \/ marker' = sess

LEMMA PromptKinds ==
  ASSUME TypeInv, PromptStep
  PROVE  /\ Rests \/ Prompted \/ Removes \/ Creates \/ Ends
         /\ UNCHANGED <<cancel, crossed>>
<1>t. EpTypeOK /\ Paced /\ busy \subseteq live
  BY DEF TypeInv, TypeOK, EpTypeOK
<1>1. CASE Begin
  BY <1>1 DEF Begin, Rests
<1>2. CASE Create
  <2>1. then \in {"sync", "async", "fsync"}
    BY <1>2, <1>t DEF Create, Paced
  <2> QED BY <1>2, <2>1 DEF Create, Return, Rests, Creates
<1>3. CASE PromptSync
  <2>1. busy' \subseteq busy \union {sess}
    BY <1>3, <1>t, LeavesIs DEF PromptSync
  <2>2. at' \in {"again", "finally"}
    BY <1>3 DEF PromptSync, Return
  <2> QED BY <1>3, <2>1, <2>2 DEF PromptSync, Prompted
<1>4. CASE SyncAgain
  <2>1. CASE Replace("async", FALSE)
    BY <1>4, <2>1, <1>t, ReplaceIs DEF SyncAgain, Removes
  <2>2. CASE Stop /\ UNCHANGED <<sess, live, busy, then, leaked>>
    BY <1>4, <2>2 DEF SyncAgain, Stop, Return, Prompted
  <2> QED BY <1>4, <2>1, <2>2 DEF SyncAgain
<1>5. CASE RunAsync
  <2>1. busy' \subseteq busy \union {sess}
    BY <1>5, <1>t, LeavesIs DEF RunAsync
  <2>2. at' \in {"finally", "retry", "fallback"}
    BY <1>5 DEF RunAsync, Return, LastLook
  <2> QED BY <1>5, <2>1, <2>2 DEF RunAsync, Prompted
<1>6. CASE Retry
  <2>1. CASE Replace("async", TRUE)
    BY <1>6, <2>1, <1>t, ReplaceIs DEF Retry, Removes
  <2>2. CASE Stop /\ UNCHANGED <<attempt, sess, live, busy, then, leaked>>
    BY <1>6, <2>2 DEF Retry, Stop, Return, Prompted
  <2>3. CASE /\ \E ok \in BOOLEAN : Delete(sess, ok)
             /\ leaked' = IF sess \in live' THEN leaked \union {sess} ELSE leaked
             /\ sess' = 0 /\ Return("ENGINE_NO_ACTIVITY_RESPONSE", FALSE)
    <3>1. live' \subseteq live /\ busy' \subseteq busy /\ busy' \subseteq live'
      BY <2>3, <1>t, DeleteIs
    <3>2. at' = "finally"
      BY <2>3 DEF Return
    <3>3. at = "retry" /\ UNCHANGED <<made, marker, cancel, crossed>>
      BY <1>6 DEF Retry
    <3> QED BY <2>3, <3>1, <3>2, <3>3 DEF Removes
  <2> QED BY <1>6, <2>1, <2>2, <2>3 DEF Retry
<1>7. CASE Fallback
  <2>1. CASE Replace("fsync", FALSE)
    BY <1>7, <2>1, <1>t, ReplaceIs DEF Fallback, Removes
  <2>2. CASE (Stop \/ at' = "fsync") /\ UNCHANGED <<sess, live, busy, then, leaked>>
    BY <1>7, <2>2 DEF Fallback, Stop, Return, Prompted
  <2> QED BY <1>7, <2>1, <2>2 DEF Fallback
<1>8. CASE FallbackSync
  <2>1. PICK o \in {"text", "empty", "timeout", "conflict", "lost", "raises"} :
       /\ Leaves(o)
       /\ CASE o = "raises" -> Return("ENGINE_EXCEPTION", FALSE)
            [] o = "text"   -> Return("", TRUE)
            [] o = "empty"  -> LastLook(Classified(why))
            [] OTHER        -> LastLook(SyncReason(o, FALSE))
    BY <1>8 DEF FallbackSync
  <2>2. busy' \subseteq busy \union {sess}
    BY <2>1, <1>t, LeavesIs
  <2>3. at' = "finally"
    BY <2>1 DEF Return, LastLook
  <2> QED BY <1>8, <2>2, <2>3 DEF FallbackSync, Prompted
<1>9. CASE Finally
  <2>1. CASE sess = 0
    BY <1>9, <2>1 DEF Finally, Ends
  <2>2. CASE sess # 0
    <3>1. PICK ok \in BOOLEAN : /\ Delete(sess, ok)
                                /\ marker' = IF ~ok THEN sess ELSE IF marker = sess THEN 0 ELSE marker
      BY <1>9, <2>2 DEF Finally
    <3>2. live' \subseteq live /\ busy' \subseteq busy /\ (ok => sess \notin live')
      BY <3>1, <1>t, DeleteIs
    <3> QED BY <1>9, <3>1, <3>2 DEF Finally, Ends
  <2> QED BY <2>1, <2>2
<1> QED BY <1>1, <1>2, <1>3, <1>4, <1>5, <1>6, <1>7, <1>8, <1>9 DEF PromptStep

(* Every other step only takes sessions away, and dying leaves the prompt    *)
(* over.                                                                     *)
Fewer ==
  /\ live' \subseteq live /\ busy' \subseteq busy /\ leaked' = leaked
  /\ (at' = at /\ sess' = sess) \/ at' = "over"

LEMMA OtherKinds ==
  ASSUME TypeInv, [Next]_allVars
  PROVE  Prompts \/ Fewer
<1>t. busy \subseteq live
  BY DEF TypeInv, TypeOK, EpTypeOK
<1>1. CASE Others
  <2>1. CASE GiveUp \/ CancelPops \/ \E s \in Sessions : EngineEnds(s)
    BY <2>1 DEF GiveUp, CancelPops, EngineEnds, Fewer
  <2>2. CASE CancelDeletes
    <3>1. live' \subseteq live /\ busy' \subseteq busy
      BY <2>2, <1>t, DeleteIs DEF CancelDeletes
    <3> QED BY <2>2, <3>1 DEF CancelDeletes, Fewer
  <2> QED BY <1>1, <2>1, <2>2 DEF Others
<1>2. CASE UNCHANGED epVars
  BY <1>2 DEF epVars, Fewer
<1>3. CASE Review \/ Start \/ Verify \/ Raises \/ TermRead \/ TermWrite \/ UNCHANGED allVars
           \/ \E w \in Who : Finalize(w)
  <2>1. UNCHANGED epVars
    BY <1>3 DEF Review, Start, Verify, Raises, TermRead, TermWrite, allVars, Finalize, Commit, Push,
       Publish, Note, Complete, Sync
  <2> QED BY <2>1, <1>2
<1>4. CASE WorkerDone
  BY <1>4 DEF WorkerDone, Fewer
<1>5. CASE Sweep
  <2>1. live' \subseteq live /\ busy' \subseteq busy
    BY <1>5, <1>t, DeleteIs DEF Sweep
  <2> QED BY <1>5, <2>1 DEF Sweep, Fewer
<1>6. CASE Unmark
  BY <1>6 DEF Unmark, Fewer
<1>7. CASE \E p \in {"api", "cli"} : Dies(p)
  BY <1>7 DEF Dies, Fewer
<1> QED BY <1>1, <1>3, <1>4, <1>5, <1>6, <1>7, WhoIs DEF Next, RunStep, ApiStep

-----------------------------------------------------------------------------
(* As long as no replaced session was left to its run, a run of the engine   *)
(* that can edit the worktree is one of the session in use, and there is     *)
(* none while a session is to be created.                                    *)
EditorInv ==
  leaked = {} =>
    /\ at \in {"start", "create"} => busy = {}
    /\ at # "over" => busy \subseteq {sess}
    /\ \E s \in {0} \union Sessions : busy \subseteq {s}

LEMMA EditorNext == TypeInv /\ EditorInv /\ [Next]_allVars => EditorInv'
<1> SUFFICES ASSUME TypeInv, EditorInv, [Next]_allVars, leaked' = {}
             PROVE  /\ at' \in {"start", "create"} => busy' = {}
                    /\ at' # "over" => busy' \subseteq {sess'}
                    /\ \E s \in {0} \union Sessions : busy' \subseteq {s}
  BY DEF EditorInv
<1>t. sess \in {0} \union Sessions
  BY DEF TypeInv, TypeOK, EpTypeOK
<1>1. CASE Prompts
  <2>k. Rests \/ Prompted \/ Removes \/ Creates \/ Ends
    BY <1>1, PromptKinds DEF Prompts
  <2>1. CASE Rests
    BY <2>1, <1>t DEF Rests, EditorInv
  <2>2. CASE Prompted
    BY <2>2, <1>t DEF Prompted, EditorInv
  <2>3. CASE Removes
    <3>1. busy \subseteq {sess} /\ sess \notin live'
      BY <2>3 DEF Removes, EditorInv
    <3>2. busy' = {}
      BY <2>3, <3>1 DEF Removes
    <3> QED BY <3>2, <1>t
  <2>4. CASE Creates
    <3>1. busy' = {}
      BY <2>4 DEF Creates, EditorInv
    <3> QED BY <3>1, <1>t
  <2>5. CASE Ends
    BY <2>5, <1>t DEF Ends, EditorInv
  <2> QED BY <2>k, <2>1, <2>2, <2>3, <2>4, <2>5
<1>2. CASE Fewer
  <2>1. leaked = {} /\ busy' \subseteq busy
    BY <1>2 DEF Fewer
  <2>2. \E s \in {0} \union Sessions : busy' \subseteq {s}
    BY <2>1 DEF EditorInv
  <2> QED BY <1>2, <2>1, <2>2 DEF EditorInv, Fewer
<1> QED BY <1>1, <1>2, OtherKinds

(* A worktree has at most one run of the engine that may edit it, unless the *)
(* deletion of a replaced session failed: stream_tandem_prompt deletes a     *)
(* silent session before it creates the next one, and the pool, the          *)
(* restarts and the clean-ups only take sessions away.                       *)
THEOREM SingleEditor == Spec => []OneEditor
<1>1. Init => EditorInv
  BY DEF Init, EpInit, EditorInv
<1>2. EditorInv => OneEditor
  <2> SUFFICES ASSUME EditorInv, leaked = {} PROVE Cardinality(busy) <= 1
    BY DEF OneEditor
  <2>1. PICK s \in {0} \union Sessions : busy \subseteq {s}
    BY DEF EditorInv
  <2>2. CASE busy = {}
    BY <2>2, FS_EmptySet
  <2>3. CASE busy = {s}
    BY <2>3, FS_Singleton
  <2> QED BY <2>1, <2>2, <2>3
<1> QED BY <1>1, <1>2, TypeInit, TypeNext, EditorNext, PTL DEF Spec

-----------------------------------------------------------------------------
(* The sessions that no history excuses.                                     *)
Due == live \ leaked

(* Such a session is the recorded one, and while the prompt goes on it is    *)
(* the one in use.  What the pool's thread or the clean-up is about to take  *)
(* out of the file is gone, since a new session has a number of its own.     *)
OrphanInv ==
  /\ ~crossed => Due \subseteq {marker}
  /\ at \in {"start", "create"} => Due = {}
  /\ at # "over" => Due \subseteq {sess}
  /\ cancel.step = "pop" => cancel.of \notin live
  /\ pc["run"] = "work" => marker <= made /\ sess <= made /\ cancel.of <= made
  /\ swept \notin live

(* Sessions are numbered from one, and zero is none.                         *)
LEMMA Numbers ==
  ASSUME EpTypeOK
  PROVE  /\ live \subseteq Sessions /\ 0 \notin Sessions /\ busy \subseteq live
         /\ cancel \in [step : {"", "delete", "pop"}, of : {0} \union Sessions]
         /\ made \in Nat /\ 0 <= made
         /\ sess \in Nat /\ marker \in Nat /\ cancel.of \in Nat
<1>1. Sessions \subseteq Nat /\ 0 \notin Sessions
  BY DEF Sessions
<1>2. made \in 0 .. 4
  BY DEF EpTypeOK
<1>3. made \in Nat /\ 0 <= made
  BY ONLY <1>2
<1>4. /\ live \subseteq Sessions /\ busy \subseteq live /\ sess \in {0} \union Sessions
      /\ marker \in {0} \union Sessions
      /\ cancel \in [step : {"", "delete", "pop"}, of : {0} \union Sessions]
  BY DEF EpTypeOK
<1>5. cancel.of \in {0} \union Sessions
  BY <1>4
<1>6. {0} \union Sessions \subseteq Nat
  BY ONLY <1>1
<1>7. sess \in Nat /\ marker \in Nat /\ cancel.of \in Nat
  BY <1>4, <1>5, <1>6, Zenon
<1> QED BY <1>1, <1>3, <1>4, <1>7, Zenon

(* A step that leaves the prompt and the file alone.                         *)
LEMMA OrphanSame ==
  ASSUME OrphanInv, UNCHANGED <<at, sess, made, live, leaked, crossed, marker, cancel, swept>>,
         pc'["run"] = "work" => pc["run"] = "work"
  PROVE  OrphanInv'
  BY DEF OrphanInv, Due

LEMMA OrphanPrompt ==
  ASSUME TypeInv, TypeInv', OrphanInv, Prompts
  PROVE  OrphanInv'
<1>1. /\ pc["run"] = "work" /\ UNCHANGED <<pc, swept, cancel, crossed>> /\ swept = 0
      /\ Rests \/ Prompted \/ Removes \/ Creates \/ Ends
  BY PromptKinds DEF Prompts, rcVars, TypeInv, Working
<1>2. /\ live \subseteq Sessions /\ live' \subseteq Sessions /\ 0 \notin Sessions
      /\ made \in Nat /\ sess \in Nat /\ marker \in Nat /\ cancel.of \in Nat
  <2>1. EpTypeOK /\ EpTypeOK'
    BY DEF TypeInv, TypeOK
  <2>2. live' \subseteq Sessions
    BY <2>1 DEF EpTypeOK
  <2> QED BY <2>1, <2>2, Numbers
<1>3. marker <= made /\ sess <= made /\ cancel.of <= made
  BY <1>1 DEF OrphanInv
<1>4. swept' \notin live'
  BY <1>1, <1>2
<1>5. cancel.step = "pop" => cancel.of \notin live
  BY DEF OrphanInv
<1>6. CASE Rests
  BY <1>1, <1>4, <1>6 DEF Rests, OrphanInv, Due
<1>7. CASE Prompted
  BY <1>1, <1>2, <1>3, <1>4, <1>7 DEF Prompted, OrphanInv, Due
<1>8. CASE Removes
  <2>1. Due' = {}
    BY <1>8 DEF Removes, OrphanInv, Due
  <2>2. sess' <= made /\ made' = made /\ marker' = marker
    BY <1>2, <1>3, <1>8 DEF Removes
  <2>3. cancel.step = "pop" => cancel.of \notin live'
    BY <1>5, <1>8 DEF Removes
  <2> QED BY <1>1, <1>3, <1>4, <2>1, <2>2, <2>3 DEF OrphanInv
<1>9. CASE Creates
  <2>1. Due' \subseteq {made + 1}
    BY <1>9 DEF Creates, OrphanInv, Due
  <2>2. cancel.of # made + 1 /\ cancel.of <= made + 1
    BY <1>2, <1>3
  <2> QED BY <1>1, <1>2, <1>4, <1>5, <1>9, <2>1, <2>2 DEF Creates, OrphanInv
<1>10. CASE Ends
  <2>1. ~crossed => Due' \subseteq {marker'}
    BY <1>2, <1>10 DEF Ends, OrphanInv, Due
  <2>2. marker' <= made /\ sess' <= made /\ made' = made
    BY <1>2, <1>3, <1>10 DEF Ends
  <2>3. cancel.step = "pop" => cancel.of \notin live'
    BY <1>5, <1>10 DEF Ends
  <2> QED BY <1>1, <1>3, <1>4, <1>10, <2>1, <2>2, <2>3 DEF Ends, OrphanInv
<1> QED BY <1>1, <1>6, <1>7, <1>8, <1>9, <1>10

LEMMA OrphanOthers ==
  ASSUME TypeInv, OrphanInv, Others
  PROVE  OrphanInv'
<1>1. UNCHANGED <<pc, swept>>
  BY DEF Others, rcVars
<1>2. /\ live \subseteq Sessions /\ 0 \notin Sessions /\ busy \subseteq live
      /\ cancel \in [step : {"", "delete", "pop"}, of : {0} \union Sessions]
      /\ made \in Nat
  BY Numbers DEF TypeInv, TypeOK
<1>n. 0 <= made
  BY Numbers DEF TypeInv, TypeOK
<1>3. CASE GiveUp
  BY <1>1, <1>3 DEF GiveUp, OrphanInv, Due
<1>4. CASE CancelDeletes
  <2>1. PICK ok \in BOOLEAN :
          /\ Delete(cancel.of, ok)
          /\ marker' = IF ok THEN marker ELSE cancel.of
          /\ cancel' = IF ok THEN [cancel EXCEPT !.step = "pop"] ELSE Quiet
          /\ crossed' = (crossed \/ (~ok /\ marker \notin {0, cancel.of}))
    BY <1>4 DEF CancelDeletes
  <2>2. live' \subseteq live /\ (ok => cancel.of \notin live')
    BY <2>1, <1>2, DeleteIs
  <2>3. UNCHANGED <<at, sess, made, leaked>>
    BY <1>4 DEF CancelDeletes
  <2>4. CASE ok
    <3>1. cancel'.of = cancel.of /\ marker' = marker
      BY <2>1, <2>4, <1>2
    <3>2. ~crossed' => ~crossed
      BY <2>1
    <3> QED BY <1>1, <2>2, <2>3, <2>4, <3>1, <3>2 DEF OrphanInv, Due
  <2>5. CASE ~ok
    <3>1. marker' = cancel.of /\ cancel'.step = "" /\ cancel'.of = 0
      BY <2>1, <2>5 DEF Quiet
    <3>2. ~crossed' => Due \subseteq {cancel.of}
      BY <2>1, <2>5, <1>2 DEF OrphanInv, Due
    <3>3. pc["run"] = "work" => cancel.of <= made
      BY DEF OrphanInv
    <3> QED BY <1>1, <1>n, <2>2, <2>3, <3>1, <3>2, <3>3 DEF OrphanInv, Due
  <2> QED BY <2>4, <2>5
<1>5. CASE CancelPops
  <2>1. cancel.step = "pop" /\ cancel' = Quiet /\ marker' = 0
        /\ crossed' = (crossed \/ marker \notin {0, cancel.of})
        /\ UNCHANGED <<at, sess, made, live, leaked>>
    BY <1>5 DEF CancelPops
  <2>2. cancel'.step = "" /\ cancel'.of = 0
    BY <2>1 DEF Quiet
  <2>3. ~crossed' => Due = {}
    BY <2>1, <1>2 DEF OrphanInv, Due
  <2>5. Due' = Due
    BY <2>1 DEF Due
  <2> QED BY <1>1, <2>1, <2>2, <2>3, <1>n, <2>5 DEF OrphanInv
<1>6. CASE \E s \in Sessions : EngineEnds(s)
  <2>1. UNCHANGED <<at, sess, made, live, leaked, crossed, marker, cancel>>
    BY <1>6 DEF EngineEnds
  <2> QED BY <1>1, <2>1, OrphanSame
<1> QED BY <1>3, <1>4, <1>5, <1>6 DEF Others

LEMMA OrphanNext == TypeInv /\ OrphanInv /\ [Next]_allVars => OrphanInv'
<1> SUFFICES ASSUME TypeInv, OrphanInv, [Next]_allVars PROVE OrphanInv'
  OBVIOUS
<1>t. TypeInv' /\ TypeOK /\ busy \subseteq live /\ pc \in [Who -> Points] /\ 0 \notin live
  <2>1. TypeInv' /\ TypeOK /\ EpTypeOK /\ pc \in [Who -> Points]
    BY TypeNext DEF TypeInv, TypeOK
  <2> QED BY <2>1, Numbers
<1>1. CASE Prompts
  BY <1>1, <1>t, OrphanPrompt
<1>2. CASE Others
  BY <1>2, OrphanOthers
<1>3. CASE WorkerDone
  <2>1. UNCHANGED <<at, sess, live, leaked, crossed, marker, cancel, swept>>
    BY <1>3 DEF WorkerDone
  <2>2. pc'["run"] # "work"
    BY <1>3, <1>t, WhoIs, GotoIs, BlockIs DEF WorkerDone, Points
  <2> QED BY <2>1, <2>2 DEF OrphanInv, Due
<1>4. ASSUME NEW w \in Who, Moves(w) PROVE OrphanInv'
  <2>1. UNCHANGED <<at, sess, made, live, leaked, crossed, marker, cancel, swept>>
    BY <1>4 DEF Moves, epVars
  <2>2. pc'["run"] = "work" => pc["run"] = "work"
    BY <1>4, WhoIs DEF Moves
  <2> QED BY <2>1, <2>2, OrphanSame
<1>5. CASE Review
  <2>1. Moves("run")
    BY <1>5, <1>t, GotoIs, WhoIs, BlockIs DEF Review, Moves, Points
  <2> QED BY <2>1, <1>4, WhoIs
<1>6. CASE \E w \in Who : Finalize(w)
  BY <1>6, <1>4, <1>t, FinalizeMoves
<1>7. CASE Start \/ Verify \/ Raises
  <2>1. Moves("api")
    BY <1>7, <1>t, GotoIs, WhoIs DEF Start, Verify, Raises, Moves, Points
  <2> QED BY <2>1, <1>4, WhoIs
<1>8. CASE TermRead \/ TermWrite \/ UNCHANGED allVars
  <2>1. UNCHANGED <<at, sess, made, live, leaked, crossed, marker, cancel, swept, pc>>
    BY <1>8 DEF TermRead, TermWrite, allVars, epVars, rcVars
  <2> QED BY <2>1, OrphanSame
<1>9. CASE Sweep
  <2>1. UNCHANGED <<at, sess, made, marker, cancel, leaked, crossed>> /\ pc["api"] = "sweep"
    BY <1>9 DEF Sweep
  <2>2. live' \subseteq live /\ swept' \notin live'
    BY <1>9, <1>t, DeleteIs DEF Sweep, OrphanInv
  <2>3. pc["run"] # "work"
    BY <2>1 DEF TypeInv, Working
  <2>4. pc'["run"] = pc["run"]
    BY <1>9, <1>t, GotoIs, WhoIs DEF Sweep, Points
  <2> QED BY <2>1, <2>2, <2>3, <2>4 DEF OrphanInv, Due
<1>10. CASE Unmark
  <2>1. /\ UNCHANGED <<at, sess, made, live, cancel, leaked, crossed>> /\ pc["api"] = "unmark"
        /\ marker' = IF marker = swept THEN 0 ELSE marker
        /\ swept' = 0
    BY <1>10 DEF Unmark
  <2>2. pc["run"] # "work"
    BY <2>1 DEF TypeInv, Working
  <2>3. pc'["run"] = pc["run"]
    BY <1>10, <1>t, GotoIs, WhoIs DEF Unmark, Points
  <2>4. ~crossed => Due \subseteq {marker'}
    BY <2>1 DEF OrphanInv, Due
  <2> QED BY <1>t, <2>1, <2>2, <2>3, <2>4 DEF OrphanInv, Due
<1>11. CASE \E p \in {"api", "cli"} : Dies(p)
  <2>1. PICK q \in {"api", "cli"} : Dies(q)
    BY <1>11
  <2>2. UNCHANGED <<live, marker, leaked, crossed>> /\ swept' \in {0, swept}
    BY <2>1 DEF Dies
  <2>3. CASE q = home
    <3>1. at' = "over" /\ sess' = 0 /\ cancel'.step = "" /\ pc'["run"] = "down"
      BY <2>1, <2>3, WhoIs, ResetTypes DEF Dies
    <3> QED BY <1>t, <2>2, <3>1 DEF OrphanInv, Due
  <2>4. CASE q # home
    <3>1. UNCHANGED <<at, sess, cancel>> /\ home = "cli"
      BY <2>1, <2>4, <1>t DEF Dies, TypeOK
    <3>2. pc'["run"] = pc["run"] /\ pc["run"] # "work"
      BY <2>1, <2>4, <3>1, WhoIs DEF Dies, TypeInv, Working
    <3> QED BY <1>t, <2>2, <3>1, <3>2 DEF OrphanInv, Due
  <2> QED BY <2>3, <2>4
<1> QED
  BY <1>1, <1>2, <1>3, <1>5, <1>6, <1>7, <1>8, <1>9, <1>10, <1>11, WhoIs DEF Next, RunStep, ApiStep

(* Whatever a prompt leaves behind in the engine is named in                 *)
(* active_worker_engine_sessions.json once the prompt is over or its process *)
(* is dead, at whatever step that died, so that the clean-up of the next     *)
(* start finds it; a session whose deletion failed at its replacement, or    *)
(* whose entry the pool's thread overwrote, is excused.                      *)
THEOREM OrphansRecorded == Spec => []OrphansStayRecorded
<1>1. Init => OrphanInv
  <2> SUFFICES ASSUME Init PROVE OrphanInv
    OBVIOUS
  <2>1. live = {} /\ sess = 0 /\ made = 0 /\ marker = 0 /\ cancel = Quiet /\ swept = 0
    BY DEF Init, EpInit
  <2>2. cancel.step = "" /\ cancel.of = 0
    BY <2>1 DEF Quiet
  <2>4. marker = 0 /\ sess = 0 /\ cancel.of = 0 /\ made = 0
    BY <2>1, <2>2
  <2>3. marker <= made /\ sess <= made /\ cancel.of <= made
    BY ONLY <2>4
  <2> QED BY <2>1, <2>2, <2>3 DEF OrphanInv, Due
<1>2. OrphanInv => OrphansStayRecorded
  BY DEF OrphanInv, Due, OrphansStayRecorded
<1> QED BY <1>1, <1>2, TypeInit, TypeNext, OrphanNext, PTL DEF Spec

-----------------------------------------------------------------------------
(* A run of the API server and its recovery are never both alive, and no     *)
(* pull request was asked for at a step from which one is still to be: a     *)
(* commit that changed something is one that no request has followed yet.    *)
PullRequestInv ==
  home = "api" =>
    /\ prs <= 1
    /\ pc["run"] # "down" => pc["api"] = "idle"
    /\ \A w \in Who : pc[w] \in {"push", "publish"} => tree = "committed"
    /\ tree # "committed" => prs = 0
    /\ pc["run"] \in {"work", "review", "push", "publish"} => prs = 0
    /\ pc["api"] \in {"push", "publish"} => prs = 0

(* Where a step of finalize_completed_run leads, as far as the requests are  *)
(* concerned.                                                                *)
LEMMA FinalizeRequests ==
  ASSUME TypeOK, NEW w \in Who, Finalize(w)
  PROVE  \/ UNCHANGED prs /\ pc'[w] \notin {"work", "review", "push", "publish", "down"}
            /\ tree' \in {tree, "committed"}
         \/ UNCHANGED prs /\ tree = "edited" /\ tree' = "committed" /\ pc[w] = "commit"
            /\ pc'[w] = "push"
         \/ UNCHANGED <<prs, tree>> /\ pc[w] = "push" /\ pc'[w] = "publish"
         \/ UNCHANGED tree /\ prs' = prs + 1 /\ pc[w] = "publish"
            /\ pc'[w] \notin {"work", "review", "push", "publish", "down"}
<1>b. Block(w) => pc'[w] \in {"ended", "sweep"}
  BY BlockIs
<1>g. \A p \in Points : Goto(w, p) => pc'[w] = p
  BY GotoIs
<1>p. {"push", "publish", "note", "complete", "sync", "ended", "sweep"} \subseteq Points
  BY DEF Points
<1>1. CASE Commit(w)
  BY <1>1, <1>b, <1>g, <1>p DEF Commit
<1>2. CASE Push(w)
  BY <1>2, <1>b, <1>g, <1>p DEF Push
<1>3. CASE Publish(w)
  BY <1>3, <1>b, <1>g, <1>p DEF Publish
<1>4. CASE Note(w)
  BY <1>4, <1>g, <1>p DEF Note
<1>5. CASE Complete(w)
  BY <1>5, <1>g, <1>p DEF Complete
<1>6. CASE Sync(w)
  BY <1>6, <1>b, <1>g, <1>p DEF Sync, Leave
<1> QED BY <1>1, <1>2, <1>3, <1>4, <1>5, <1>6 DEF Finalize

(* A step that asks for nothing and moves neither process to a step from     *)
(* which it would.                                                           *)
LEMMA RequestsSame ==
  ASSUME TypeOK, PullRequestInv, UNCHANGED <<home, prs>>,
         tree' = tree \/ (prs = 0 /\ \A w \in Who : pc'[w] \notin {"push", "publish"}),
         pc["run"] = "down" => pc'["run"] = "down",
         pc'["run"] \in {"work", "review", "push", "publish"} => pc'["run"] = pc["run"],
         pc'["api"] \in {"push", "publish"} => pc'["api"] = pc["api"],
         pc'["run"] # "down" => pc'["api"] \in {pc["api"], "idle"}
  PROVE  PullRequestInv'
<1>1. SUFFICES ASSUME home = "api" PROVE PullRequestInv'
  BY DEF PullRequestInv
<1>2. prs <= 1 /\ prs' = prs
  BY <1>1 DEF PullRequestInv
<1>3. pc'["run"] # "down" => pc'["api"] = "idle"
  BY <1>1 DEF PullRequestInv
<1>4. tree' # "committed" => prs' = 0
  BY <1>1, <1>2 DEF PullRequestInv
<1>5. pc'["run"] \in {"work", "review", "push", "publish"} => prs' = 0
  BY <1>1, <1>2 DEF PullRequestInv
<1>6. pc'["api"] \in {"push", "publish"} => prs' = 0
  BY <1>1, <1>2 DEF PullRequestInv
<1>7. prs' <= 1
  BY <1>2
<1>8. \A w \in Who : pc'[w] \in {"push", "publish"} => tree' = "committed"
  BY <1>1, WhoIs DEF PullRequestInv
<1> QED BY <1>8, <1>3, <1>4, <1>5, <1>6, <1>7 DEF PullRequestInv

LEMMA RequestsFinalize ==
  ASSUME TypeInv, PullRequestInv, NEW w \in Who, Finalize(w)
  PROVE  PullRequestInv'
<1>m. Moves(w) /\ pc[w] \in FinalPoints /\ UNCHANGED home /\ \A v \in Who : v # w => pc'[v] = pc[v]
  BY FinalizeMoves DEF TypeInv, Moves
<1>1. SUFFICES ASSUME home = "api" PROVE PullRequestInv'
  BY <1>m DEF PullRequestInv
<1>2. pc[w] \notin {"down", "idle"}
  BY <1>m DEF FinalPoints
<1>3. /\ w = "run" => pc["api"] = "idle" /\ pc'["api"] = "idle"
      /\ w = "api" => pc["run"] = "down" /\ pc'["run"] = "down"
  BY <1>1, <1>2, <1>m, WhoIs DEF PullRequestInv
<1>4. /\ tree # "committed" => prs = 0
      /\ pc[w] \in {"push", "publish"} => tree = "committed"
      /\ pc[w] \in {"push", "publish"} => prs = 0
  BY <1>1, WhoIs DEF PullRequestInv
<1>5. prs <= 1 /\ prs \in Int
  <2>1. prs \in 0 .. MaxPrs /\ prs <= 1
    BY <1>1 DEF PullRequestInv, TypeInv, TypeOK
  <2> QED BY ONLY <2>1 DEF MaxPrs
<1>6. prs' <= 1 /\ (tree' # "committed" => prs' = 0)
      /\ (pc'[w] \in {"work", "review", "push", "publish"} => prs' = 0)
      /\ (pc'[w] \in {"push", "publish"} => tree' = "committed")
  <2>1. CASE UNCHANGED prs /\ pc'[w] \notin {"work", "review", "push", "publish", "down"}
             /\ tree' \in {tree, "committed"}
    BY <2>1, <1>4, <1>5
  <2>2. CASE UNCHANGED prs /\ tree = "edited" /\ tree' = "committed" /\ pc[w] = "commit"
             /\ pc'[w] = "push"
    BY <2>2, <1>4, <1>5
  <2>3. CASE UNCHANGED <<prs, tree>> /\ pc[w] = "push" /\ pc'[w] = "publish"
    BY <2>3, <1>4, <1>5
  <2>4. CASE UNCHANGED tree /\ prs' = prs + 1 /\ pc[w] = "publish"
             /\ pc'[w] \notin {"work", "review", "push", "publish", "down"}
    <3>1. prs = 0 /\ prs' = 1
      BY <2>4, <1>4
    <3>2. tree' = "committed"
      BY <2>4, <1>4
    <3> QED BY <2>4, <3>1, <3>2
  <2> QED BY <2>1, <2>2, <2>3, <2>4, FinalizeRequests DEF TypeInv
<1> QED BY <1>3, <1>6, <1>m, WhoIs DEF PullRequestInv

LEMMA RequestsNext == TypeInv /\ PullRequestInv /\ [Next]_allVars => PullRequestInv'
<1> SUFFICES ASSUME TypeInv, PullRequestInv, [Next]_allVars PROVE PullRequestInv'
  OBVIOUS
<1>t. TypeOK /\ Working /\ pc \in [Who -> Points] /\ home \in {"api", "cli"}
  BY DEF TypeInv, TypeOK
<1>p. \A w \in Who, p \in Points :
        Goto(w, p) => pc'[w] = p /\ \A v \in Who : v # w => pc'[v] = pc[v]
  BY <1>t, GotoIs
<1>q. {"review", "commit", "verify", "sweep", "unmark", "idle", "ended"} \subseteq Points
  BY DEF Points
<1>b. Block("run") => pc'["run"] \in {"ended", "sweep"} /\ pc'["api"] = pc["api"]
  BY <1>t, BlockIs, WhoIs
<1>g. \A p \in Points : /\ Goto("run", p) => pc'["run"] = p /\ pc'["api"] = pc["api"]
                        /\ Goto("api", p) => pc'["api"] = p /\ pc'["run"] = pc["run"]
  BY <1>p, WhoIs
<1>1. CASE UNCHANGED <<home, prs, tree, pc>>
  BY <1>1, <1>t, RequestsSame
<1>2. CASE Prompts \/ Others
  BY <1>2, <1>1 DEF Prompts, Others, rcVars
<1>3. CASE WorkerDone
  <2>1. pc["run"] = "work" /\ UNCHANGED <<home, prs>>
    BY <1>3 DEF WorkerDone
  <2>2. pc'["run"] \in {"review", "ended", "sweep"} /\ pc'["api"] = pc["api"]
    BY <1>3, <1>g, <1>b, <1>q DEF WorkerDone
  <2>3. SUFFICES ASSUME home = "api" PROVE PullRequestInv'
    BY <2>1 DEF PullRequestInv
  <2>4. prs = 0 /\ prs' = 0 /\ pc["api"] = "idle"
    BY <2>1, <2>3, <1>t DEF PullRequestInv
  <2>5. prs' <= 1
    BY ONLY <2>4
  <2> QED BY <2>2, <2>4, <2>5, WhoIs DEF PullRequestInv
<1>4. CASE Review
  <2>1. pc["run"] = "review" /\ UNCHANGED <<home, prs>>
    BY <1>4 DEF Review
  <2>2. pc'["run"] \in {"review", "commit", "ended", "sweep"} /\ pc'["api"] = pc["api"]
    BY <1>4, <2>1, <1>g, <1>b, <1>q DEF Review
  <2>3. SUFFICES ASSUME home = "api" PROVE PullRequestInv'
    BY <2>1 DEF PullRequestInv
  <2>4. prs = 0 /\ prs' = 0 /\ pc["api"] = "idle"
    BY <2>1, <2>3 DEF PullRequestInv
  <2>5. prs' <= 1
    BY ONLY <2>4
  <2> QED BY <2>2, <2>4, <2>5, WhoIs DEF PullRequestInv
<1>5. ASSUME NEW w \in Who, Finalize(w) PROVE PullRequestInv'
  BY <1>5, RequestsFinalize
<1>6. CASE Start \/ Verify \/ Raises \/ Sweep \/ Unmark
  <2>1. UNCHANGED <<home, prs, tree>> /\ pc["api"] # "idle"
    BY <1>6 DEF Start, Verify, Raises, Sweep, Unmark
  <2>2. pc'["run"] = pc["run"] /\ pc'["api"] \in {"verify", "commit", "sweep", "unmark", "idle"}
    BY <1>6, <1>g, <1>q DEF Start, Verify, Raises, Sweep, Unmark
  <2>3. SUFFICES ASSUME home = "api" PROVE PullRequestInv'
    BY <2>1 DEF PullRequestInv
  <2>4. pc["run"] = "down"
    BY <2>1, <2>3 DEF PullRequestInv
  <2> QED BY <1>t, <2>1, <2>2, <2>4, RequestsSame
<1>7. CASE TermRead \/ TermWrite
  BY <1>7, <1>1 DEF TermRead, TermWrite
<1>8. ASSUME NEW p \in {"api", "cli"}, Dies(p) PROVE PullRequestInv'
  <2>1. UNCHANGED <<home, prs, tree>> /\ p \in {"api", home}
        /\ pc' = [w \in Who |-> IF p = (IF w = "run" THEN home ELSE "api") THEN "down" ELSE pc[w]]
    BY <1>8 DEF Dies
  <2>2. SUFFICES ASSUME home = "api" PROVE PullRequestInv'
    BY <2>1 DEF PullRequestInv
  <2>3. pc'["run"] = "down" /\ pc'["api"] = "down"
    BY <2>1, <2>2, WhoIs
  <2> QED BY <1>t, <2>1, <2>3, WhoIs, RequestsSame
<1>9. CASE UNCHANGED allVars
  BY <1>9, <1>1 DEF allVars, rcVars
<1> QED BY <1>2, <1>3, <1>4, <1>5, <1>6, <1>7, <1>8, <1>9, WhoIs DEF Next, RunStep, ApiStep

(* A run that lives in the API server asks for one pull request at most,     *)
(* however often the server dies between the steps of                        *)
(* finalize_completed_run and takes the run up again: a second commit finds  *)
(* nothing to commit, and no request follows it.                             *)
THEOREM OneRequest == Spec => []OnePullRequest
<1>1. Init => PullRequestInv
  <2> SUFFICES ASSUME Init PROVE PullRequestInv
    OBVIOUS
  <2>3. prs = 0 /\ (home = "api" => pc = [run |-> "work", api |-> "idle"])
    BY DEF Init
  <2>4. pc = [run |-> "work", api |-> "idle"] => pc["run"] = "work" /\ pc["api"] = "idle"
    OBVIOUS
  <2>1. prs = 0 /\ (home = "api" => pc["run"] = "work" /\ pc["api"] = "idle")
    BY ONLY <2>3, <2>4
  <2>2. prs <= 1
    BY ONLY <2>1
  <2> QED BY <2>1, <2>2, WhoIs DEF PullRequestInv
<1>2. PullRequestInv => OnePullRequest
  BY DEF PullRequestInv, OnePullRequest
<1> QED BY <1>1, <1>2, TypeInit, TypeNext, RequestsNext, PTL DEF Spec
=============================================================================
