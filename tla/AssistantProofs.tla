-------------------------- MODULE AssistantProofs --------------------------
(***************************************************************************)
(* Proofs about Assistant, for any number of calls, rules, index rows and  *)
(* texts, however calls, analyses and the deletion of the recording        *)
(* overlap and are cut.  Each property has an invariant of its own, about  *)
(* what the calls in progress have read and done.                          *)
(***************************************************************************)
EXTENDS Assistant, TLAPS

-----------------------------------------------------------------------------
(* Calls                                                                   *)

\* The records of Calls, field by field.
CallOf(op, pc, arg, seen, left, stale) ==
  [op |-> op, pc |-> pc, arg |-> arg, seen |-> seen, left |-> left, stale |-> stale]
IsCall(c) == c = CallOf(c.op, c.pc, c.arg, c.seen, c.left, c.stale)
Shape ==
  /\ call = [s \in Actors |-> call[s]]
  /\ \A s \in Actors : IsCall(call[s])

\* Where a call is and what it carries, apart from its stale mark, which only
\* Disconnect reads.
Stands(c, op, pc, arg, seen, left) ==
  IsCall(c) /\ c.op = op /\ c.pc = pc /\ c.arg = arg /\ c.seen = seen /\ c.left = left
Same(t) == Stands(call'[t], call[t].op, call[t].pc, call[t].arg, call[t].seen, call[t].left)
\* A step of s leaves the other calls where they stand.
Others(s) == Shape' /\ \A t \in Actors \ {s} : Same(t)

LEMMA SlotsAreActors == Slots \subseteq Actors /\ Worker \in Actors /\ Worker \notin Slots
  BY CallsAssumption DEF Actors

LEMMA CallFields ==
  ASSUME NEW op, NEW pc, NEW arg, NEW seen, NEW left, NEW stale
  PROVE  Stands(CallOf(op, pc, arg, seen, left, stale), op, pc, arg, seen, left)
  BY DEF CallOf, Stands, IsCall

LEMMA FreshCall ==
  ASSUME NEW op, NEW pc, NEW arg, NEW seen
  PROVE  Stands(Fresh(op, pc, arg, seen), op, pc, arg, seen, {})
<1>1. Fresh(op, pc, arg, seen) = CallOf(op, pc, arg, seen, {}, FALSE)
  BY DEF Fresh, CallOf
<1> QED
  BY <1>1, CallFields

LEMMA IdleCall == Stands(Idle, "none", "idle", none, none, {})
  BY FreshCall DEF Idle

LEMMA OwnedCall ==
  ASSUME NEW op, NEW pc, NEW arg, NEW seen
  PROVE  Stands(Owned(op, pc, arg, seen), op, IF present THEN pc ELSE "404", arg, seen, {})
  BY FreshCall DEF Owned

\* The edits that the handlers make of a call.
LEMMA Edits ==
  ASSUME NEW c, IsCall(c), NEW op, NEW pc, NEW arg, NEW seen, NEW left
  PROVE  /\ Stands([c EXCEPT !.pc = pc], c.op, pc, c.arg, c.seen, c.left)
         /\ Stands([c EXCEPT !.op = op, !.pc = pc], op, pc, c.arg, c.seen, c.left)
         /\ Stands([c EXCEPT !.op = op, !.pc = pc, !.arg = arg], op, pc, arg, c.seen, c.left)
         /\ Stands([c EXCEPT !.pc = pc, !.seen = seen], c.op, pc, c.arg, seen, c.left)
         /\ Stands([c EXCEPT !.pc = pc, !.arg = arg], c.op, pc, arg, c.seen, c.left)
         /\ Stands([c EXCEPT !.arg = arg, !.pc = pc], c.op, pc, arg, c.seen, c.left)
         /\ Stands([c EXCEPT !.left = left, !.seen = seen], c.op, c.pc, c.arg, seen, left)
         /\ Stands([c EXCEPT !.pc = pc, !.left = left, !.arg = arg, !.seen = seen],
                   c.op, pc, arg, seen, left)
<1> DEFINE o == c.op  p == c.pc  a == c.arg  s == c.seen  l == c.left  st == c.stale
           k == CallOf(o, p, a, s, l, st)
<1>1. c = k
  BY DEF IsCall
<1> HIDE DEF o, p, a, s, l, st
<1>2. /\ [k EXCEPT !.pc = pc] = CallOf(o, pc, a, s, l, st)
      /\ [k EXCEPT !.op = op] = CallOf(op, p, a, s, l, st)
      /\ [k EXCEPT !.arg = arg] = CallOf(o, p, arg, s, l, st)
      /\ [k EXCEPT !.left = left] = CallOf(o, p, a, s, left, st)
  BY DEF CallOf
<1>3. [CallOf(op, p, a, s, l, st) EXCEPT !.pc = pc] = CallOf(op, pc, a, s, l, st)
  BY DEF CallOf
<1>4. [CallOf(op, pc, a, s, l, st) EXCEPT !.arg = arg] = CallOf(op, pc, arg, s, l, st)
  BY DEF CallOf
<1>5. /\ [CallOf(o, pc, a, s, l, st) EXCEPT !.seen = seen] = CallOf(o, pc, a, seen, l, st)
      /\ [CallOf(o, pc, a, s, l, st) EXCEPT !.arg = arg] = CallOf(o, pc, arg, s, l, st)
      /\ [CallOf(o, pc, a, s, l, st) EXCEPT !.left = left] = CallOf(o, pc, a, s, left, st)
  BY DEF CallOf
<1>6. /\ [CallOf(o, p, arg, s, l, st) EXCEPT !.pc = pc] = CallOf(o, pc, arg, s, l, st)
      /\ [CallOf(o, p, a, s, left, st) EXCEPT !.seen = seen] = CallOf(o, p, a, seen, left, st)
  BY DEF CallOf
<1>7. /\ [CallOf(o, pc, a, s, left, st) EXCEPT !.arg = arg] = CallOf(o, pc, arg, s, left, st)
      /\ [CallOf(o, pc, arg, s, left, st) EXCEPT !.seen = seen] = CallOf(o, pc, arg, seen, left, st)
  BY DEF CallOf
<1> HIDE DEF k
<1>8. [c EXCEPT !.pc = pc] = CallOf(o, pc, a, s, l, st)
  BY <1>1, <1>2
<1>9. /\ [c EXCEPT !.op = op, !.pc = pc] = [[c EXCEPT !.op = op] EXCEPT !.pc = pc]
      /\ [c EXCEPT !.op = op, !.pc = pc, !.arg = arg]
           = [[[c EXCEPT !.op = op] EXCEPT !.pc = pc] EXCEPT !.arg = arg]
  OBVIOUS
<1>10. /\ [c EXCEPT !.pc = pc, !.seen = seen] = [[c EXCEPT !.pc = pc] EXCEPT !.seen = seen]
       /\ [c EXCEPT !.pc = pc, !.arg = arg] = [[c EXCEPT !.pc = pc] EXCEPT !.arg = arg]
       /\ [c EXCEPT !.arg = arg, !.pc = pc] = [[c EXCEPT !.arg = arg] EXCEPT !.pc = pc]
       /\ [c EXCEPT !.left = left, !.seen = seen] = [[c EXCEPT !.left = left] EXCEPT !.seen = seen]
  OBVIOUS
<1>11. [c EXCEPT !.pc = pc, !.left = left, !.arg = arg, !.seen = seen]
         = [[[[c EXCEPT !.pc = pc] EXCEPT !.left = left] EXCEPT !.arg = arg] EXCEPT !.seen = seen]
  OBVIOUS
<1>12. /\ [c EXCEPT !.op = op, !.pc = pc] = CallOf(op, pc, a, s, l, st)
       /\ [c EXCEPT !.op = op, !.pc = pc, !.arg = arg] = CallOf(op, pc, arg, s, l, st)
  BY <1>1, <1>2, <1>3, <1>4, <1>9
<1>13. /\ [c EXCEPT !.pc = pc, !.seen = seen] = CallOf(o, pc, a, seen, l, st)
       /\ [c EXCEPT !.pc = pc, !.arg = arg] = CallOf(o, pc, arg, s, l, st)
       /\ [c EXCEPT !.arg = arg, !.pc = pc] = CallOf(o, pc, arg, s, l, st)
       /\ [c EXCEPT !.left = left, !.seen = seen] = CallOf(o, p, a, seen, left, st)
  BY <1>1, <1>2, <1>5, <1>6, <1>10
<1>14. [c EXCEPT !.pc = pc, !.left = left, !.arg = arg, !.seen = seen]
         = CallOf(o, pc, arg, seen, left, st)
  BY <1>1, <1>2, <1>5, <1>7, <1>11
<1> QED
  BY <1>8, <1>12, <1>13, <1>14, CallFields DEF o, p, a, s, l

LEMMA IdleEdits ==
  ASSUME NEW op, NEW pc, NEW arg
  PROVE  /\ Stands([Idle EXCEPT !.op = op, !.pc = pc], op, pc, none, none, {})
         /\ Stands([Idle EXCEPT !.op = op, !.pc = pc, !.arg = arg], op, pc, arg, none, {})
<1>1. PICK c : c = Idle
  OBVIOUS
<1>2. IsCall(c) /\ c.arg = none /\ c.seen = none /\ c.left = {}
  BY <1>1, IdleCall DEF Stands
<1>3. /\ Stands([c EXCEPT !.op = op, !.pc = pc], op, pc, c.arg, c.seen, c.left)
      /\ Stands([c EXCEPT !.op = op, !.pc = pc, !.arg = arg], op, pc, arg, c.seen, c.left)
  BY <1>2, Edits
<1> QED
  BY <1>1, <1>2, <1>3

LEMMA PutCall ==
  ASSUME Shape, NEW s \in Actors, NEW c, IsCall(c), Put(s, c)
  PROVE  Others(s) /\ call'[s] = c /\ received' = received
<1>1. call' = [t \in Actors |-> IF t = s THEN c ELSE call[t]]
  BY DEF Put, Shape
<1>2. \A t \in Actors \ {s} : call'[t] = call[t]
  BY <1>1
<1>3. call'[s] = c /\ call' = [t \in Actors |-> call'[t]]
  BY <1>1
<1>4. \A t \in Actors : IsCall(call'[t])
  BY <1>2, <1>3 DEF Shape
<1> QED
  BY <1>2, <1>3, <1>4 DEF Shape, Others, Same, Stands, Put

LEMMA OpenCall ==
  ASSUME Shape, NEW s \in Actors, NEW c, IsCall(c), Open(s, c)
  PROVE  /\ Others(s) /\ call'[s] = c /\ received' = received + 1
         /\ call[s] = Idle /\ s \in Slots
<1>1. call' = [t \in Actors |-> IF t = s THEN c ELSE call[t]]
  BY DEF Open, Shape
<1>2. \A t \in Actors \ {s} : call'[t] = call[t]
  BY <1>1
<1>3. call'[s] = c /\ call' = [t \in Actors |-> call'[t]]
  BY <1>1
<1>4. \A t \in Actors : IsCall(call'[t])
  BY <1>2, <1>3 DEF Shape
<1> QED
  BY <1>2, <1>3, <1>4 DEF Shape, Others, Same, Stands, Open

LEMMA StaleCall ==
  ASSUME NEW c, IsCall(c), NEW v
  PROVE  Stands([c EXCEPT !.stale = @ \/ v], c.op, c.pc, c.arg, c.seen, c.left)
<1> DEFINE o == c.op  p == c.pc  a == c.arg  s == c.seen  l == c.left  st == c.stale
<1>1. c = CallOf(o, p, a, s, l, st)
  BY DEF IsCall
<1>2. PICK w : w = (st \/ v)
  OBVIOUS
<1> HIDE DEF o, p, a, s, l, st
<1>3. [c EXCEPT !.stale = w] = CallOf(o, p, a, s, l, w)
  BY <1>1 DEF CallOf
<1>4. [c EXCEPT !.stale = @ \/ v] = [c EXCEPT !.stale = w]
  BY <1>2 DEF st
<1> QED
  BY <1>3, <1>4, CallFields DEF o, p, a, s, l

LEMMA PutStaleCall ==
  ASSUME Shape, NEW s \in Actors, NEW c, IsCall(c), NEW op, NEW pc, PutStale(s, c, op, pc)
  PROVE  Others(s) /\ call'[s] = c /\ received' = received
<1>1. call' = [t \in Actors |-> IF t = s THEN c ELSE
                 [call[t] EXCEPT !.stale = @ \/ At(t, op, pc)]]
  BY DEF PutStale
<1>2. ASSUME NEW t \in Actors \ {s} PROVE Same(t)
  <2>1. IsCall(call[t]) /\ call'[t] = [call[t] EXCEPT !.stale = @ \/ At(t, op, pc)]
    BY <1>1 DEF Shape
  <2> QED
    BY <2>1, StaleCall DEF Same
<1>3. call'[s] = c /\ call' = [t \in Actors |-> call'[t]]
  BY <1>1
<1>4. \A t \in Actors : IsCall(call'[t])
  BY <1>2, <1>3 DEF Same, Stands
<1> QED
  BY <1>2, <1>3, <1>4 DEF Shape, Others, PutStale

LEMMA CutEnds ==
  ASSUME Shape, NEW s \in Actors, CutCall(s)
  PROVE  Others(s) /\ call'[s] = Idle /\ received' = received /\ Under(s)
<1>1. call' = [t \in Actors |-> IF t = s THEN Idle ELSE call[t]]
  BY DEF CutCall, Shape
<1>2. \A t \in Actors \ {s} : call'[t] = call[t]
  BY <1>1
<1>3. call'[s] = Idle /\ call' = [t \in Actors |-> call'[t]]
  BY <1>1
<1>4. \A t \in Actors : IsCall(call'[t])
  BY <1>2, <1>3, IdleCall DEF Shape, Stands
<1> QED
  BY <1>2, <1>3, <1>4 DEF Shape, Others, Same, Stands, CutCall

LEMMA ReplyCall ==
  ASSUME Shape, NEW s \in Actors, NEW code, Reply(s, code)
  PROVE  /\ Others(s) /\ received' = received
         /\ Stands(call'[s], call[s].op, code, call[s].arg, call[s].seen, call[s].left)
<1>1. Stands([call[s] EXCEPT !.pc = code], call[s].op, code, call[s].arg, call[s].seen, call[s].left)
  BY Edits DEF Shape
<1>2. IsCall([call[s] EXCEPT !.pc = code])
  BY <1>1 DEF Stands
<1>3. Others(s) /\ call'[s] = [call[s] EXCEPT !.pc = code] /\ received' = received
  BY <1>2, PutCall DEF Reply
<1> QED
  BY <1>1, <1>3

\* What the handlers do when they begin and when they go on.
LEMMA OpenFresh ==
  ASSUME Shape, NEW s \in Actors, NEW c, NEW op, NEW pc, NEW arg, NEW seen, NEW left,
         Stands(c, op, pc, arg, seen, left), Open(s, c)
  PROVE  /\ Others(s) /\ Stands(call'[s], op, pc, arg, seen, left)
         /\ call[s] = Idle /\ received' = received + 1
  BY OpenCall DEF Stands

LEMMA PutFresh ==
  ASSUME Shape, NEW s \in Actors, NEW c, NEW op, NEW pc, NEW arg, NEW seen, NEW left,
         Stands(c, op, pc, arg, seen, left), Put(s, c)
  PROVE  Others(s) /\ Stands(call'[s], op, pc, arg, seen, left) /\ received' = received
  BY PutCall DEF Stands

LEMMA NothingPut ==
  ASSUME Shape, NEW s \in Actors, UNCHANGED callVars
  PROVE  Others(s) /\ call'[s] = call[s] /\ received' = received
  BY DEF Shape, Others, Same, Stands, callVars

-----------------------------------------------------------------------------
(* What each family of steps does                                          *)

\* Calls that neither chat nor run rules now.
PlainStep(s) ==
  \/ TranscribeNow(s) \/ EditSegment(s) \/ RunRulesNow(s)
  \/ CreateRule(s) \/ DeleteRuleFind(s) \/ DeleteRule(s)
  \/ SetIntegration(s) \/ DisconnectFind(s) \/ Disconnect(s) \/ PushRecording(s)
  \/ DeleteFind(s) \/ DeleteRow(s) \/ Close(s)
ChatStep(s) == ChatRead(s) \/ ChatAsk(s) \/ ChatModel(s) \/ ChatSave(s) \/ Cut(s)
RuleStep(s) == ListRules(s) \/ RunOne(s)
HookStep ==
  \/ RunTranscription \/ StoreFails
  \/ TakeAnalysis \/ ReadUnits \/ Embed \/ ClearIndex \/ FillIndex \/ HooksFail \/ Requeue

\* An answered call, or one whose kind is none of these, is of no concern to
\* the invariants.
Aside(c) ==
  /\ c.op \notin {"chat", "analysis"}
  /\ c.op = "run" => c.pc \in {"list", "404"}
  /\ c.op = "store" => c.pc \in {"upsert", "404"}

LEMMA PlainCalls ==
  ASSUME Shape, NEW s \in Slots, PlainStep(s)
  PROVE  /\ Others(s) /\ Aside(call'[s])
         /\ call[s].op \in {"chat", "store"} => call[s].pc \in Codes
         /\ received' \in {received, received + 1}
<1> DEFINE Done == /\ Others(s) /\ Aside(call'[s])
                   /\ call[s].op \in {"chat", "store"} => call[s].pc \in Codes
                   /\ received' \in {received, received + 1}
<1>0. s \in Actors
  BY SlotsAreActors
<1>1. ASSUME NEW c, NEW op, NEW pc, NEW arg, NEW seen, NEW left,
             Stands(c, op, pc, arg, seen, left), Open(s, c), Aside([op |-> op, pc |-> pc])
      PROVE  Done
  <2>1. /\ Others(s) /\ Stands(call'[s], op, pc, arg, seen, left)
        /\ call[s] = Idle /\ received' = received + 1
    BY <1>0, <1>1, OpenFresh
  <2>2. call[s].op \notin {"chat", "store"}
    BY <2>1, IdleCall DEF Stands
  <2> QED
    BY <1>1, <2>1, <2>2 DEF Stands, Aside
<1>2. ASSUME NEW op, NEW arg, NEW pc, Open(s, Owned(op, pc, arg, none)),
             Aside([op |-> op, pc |-> pc])
      PROVE  Done
  BY <1>1, <1>2, OwnedCall DEF Aside
<1>3. ASSUME Reply(s, "200"), call[s].op \notin {"chat", "analysis", "run", "store"}
      PROVE  Done
  BY <1>0, <1>3, ReplyCall DEF Stands, Aside
<1>4. CASE EditSegment(s)
  BY <1>2, <1>4 DEF EditSegment, Aside
<1>5. CASE RunRulesNow(s)
  BY <1>2, <1>5 DEF RunRulesNow, Aside
<1>6. CASE CreateRule(s)
  <2>1. PICK c : c = [Idle EXCEPT !.op = "create rule", !.pc = "200"] /\ Open(s, c)
    BY <1>6 DEF CreateRule
  <2>2. Stands(c, "create rule", "200", none, none, {})
    BY <2>1, IdleEdits
  <2>3. Aside([op |-> "create rule", pc |-> "200"])
    BY DEF Aside
  <2> QED
    BY <1>1, <2>1, <2>2, <2>3
<1>7. CASE DeleteRuleFind(s)
  <2>1. PICK r : Open(s, [Idle EXCEPT !.op = "delete rule", !.pc = "write", !.arg = r])
    BY <1>7 DEF DeleteRuleFind
  <2>2. PICK c : c = [Idle EXCEPT !.op = "delete rule", !.pc = "write", !.arg = r]
    OBVIOUS
  <2>3. Stands(c, "delete rule", "write", r, none, {})
    BY <2>2, IdleEdits
  <2>4. Aside([op |-> "delete rule", pc |-> "write"])
    BY DEF Aside
  <2> QED
    BY <1>1, <2>1, <2>2, <2>3, <2>4
<1>8. CASE DeleteRule(s)
  BY <1>3, <1>8 DEF DeleteRule, At
<1>9. CASE SetIntegration(s)
  <2>1. PICK c : c = [Idle EXCEPT !.op = "connect", !.pc = "200"] /\ Open(s, c)
    BY <1>9 DEF SetIntegration
  <2>2. Stands(c, "connect", "200", none, none, {})
    BY <2>1, IdleEdits
  <2> QED
    BY <1>1, <2>1, <2>2 DEF Aside
<1>10. CASE DisconnectFind(s)
  <2>1. PICK c : c = [Idle EXCEPT !.op = "disconnect", !.pc = "write"] /\ Open(s, c)
    BY <1>10 DEF DisconnectFind
  <2>2. Stands(c, "disconnect", "write", none, none, {})
    BY <2>1, IdleEdits
  <2> QED
    BY <1>1, <2>1, <2>2 DEF Aside
<1>11. CASE Disconnect(s)
  <2>1. /\ call[s].op = "disconnect"
        /\ PutStale(s, [call[s] EXCEPT !.pc = "200"], "disconnect", "write")
    BY <1>11 DEF Disconnect, At
  <2>2. Stands([call[s] EXCEPT !.pc = "200"], call[s].op, "200", call[s].arg,
                call[s].seen, call[s].left)
    BY <1>0, Edits DEF Shape
  <2> QED
    BY <1>0, <2>1, <2>2, PutStaleCall DEF Stands, Aside
<1>12. CASE PushRecording(s)
  <2>0. PICK c : c = Owned("push", "200", none, none)
    OBVIOUS
  <2>1. PICK pc : Open(s, [c EXCEPT !.pc = pc])
    BY <1>12, <2>0 DEF PushRecording
  <2>2. IsCall(c) /\ c.op = "push" /\ c.arg = none /\ c.seen = none /\ c.left = {}
    BY <2>0, OwnedCall DEF Stands
  <2>3. Stands([c EXCEPT !.pc = pc], "push", pc, none, none, {})
    BY <2>2, Edits
  <2> QED
    BY <1>1, <2>1, <2>3 DEF Aside
<1>13. CASE DeleteFind(s)
  BY <1>2, <1>13 DEF DeleteFind, Aside
<1>14. CASE DeleteRow(s)
  BY <1>3, <1>14 DEF DeleteRow, At
<1>15. CASE Close(s)
  BY <1>0, <1>15, PutFresh, IdleCall DEF Close, Stands, Aside
<1>16. CASE TranscribeNow(s)
  BY <1>2, <1>16 DEF TranscribeNow, Aside
<1> QED
  BY <1>4, <1>5, <1>6, <1>7, <1>8, <1>9, <1>10, <1>11, <1>12, <1>13, <1>14, <1>15, <1>16
     DEF PlainStep

\* A run lists its rules, tries one of those that are left, or is over.
LEMMA RuleCalls ==
  ASSUME Shape, NEW s \in Actors, RuleStep(s)
  PROVE  /\ Others(s) /\ received' = received
         /\ call[s].op \in {"analysis", "run"} /\ call'[s].op = call[s].op
         /\ \/ \E found : /\ ListRules(s) /\ twice' = twice
                          /\ Stands(call'[s], call[s].op, IF found = {} THEN "200" ELSE "rule",
                                    found, [r \in {} |-> none], found)
            \/ /\ RunOne(s) /\ call[s].pc = "rule"
               /\ \E r \in call[s].left : \E outcome :
                    /\ twice' = (twice \/ (/\ r \in DOMAIN call[s].seen
                                           /\ {call[s].seen[r], outcome} \subseteq Delivered))
                    /\ Stands(call'[s], call[s].op, "rule", call[s].arg,
                              [q \in DOMAIN call[s].seen \cup {r} |->
                                IF q = r THEN outcome ELSE call[s].seen[q]],
                              call[s].left \ {r})
            \/ /\ RunOne(s) /\ call[s].pc = "rule" /\ call[s].left = {} /\ twice' = twice
               /\ Stands(call'[s], call[s].op, "200", call[s].arg, call[s].seen, {})
<1>1. CASE ListRules(s)
  <2> DEFINE found == IF present THEN Live ELSE {}
  <2>1. /\ call[s].op \in {"analysis", "run"} /\ twice' = twice
        /\ Put(s, [call[s] EXCEPT !.pc = IF found = {} THEN "200" ELSE "rule",
                                  !.left = found, !.arg = found, !.seen = [r \in {} |-> none]])
    BY <1>1 DEF ListRules, At, assistantVars
  <2> HIDE DEF found
  <2>2. /\ IsCall(call[s])
        /\ Stands([call[s] EXCEPT !.pc = IF found = {} THEN "200" ELSE "rule",
                                  !.left = found, !.arg = found, !.seen = [r \in {} |-> none]],
                  call[s].op, IF found = {} THEN "200" ELSE "rule",
                  found, [r \in {} |-> none], found)
    BY Edits DEF Shape
  <2>3. /\ Others(s) /\ received' = received
        /\ Stands(call'[s], call[s].op, IF found = {} THEN "200" ELSE "rule",
                  found, [r \in {} |-> none], found)
    BY <2>1, <2>2, PutFresh
  <2> QED
    BY <1>1, <2>1, <2>3 DEF Stands
<1>2. CASE RunOne(s)
  <2>1. call[s].op \in {"analysis", "run"} /\ call[s].pc = "rule"
    BY <1>2 DEF RunOne
  <2>2. ASSUME NEW r \in call[s].left, NEW outcome,
               twice' = (twice \/ (/\ r \in DOMAIN call[s].seen
                                   /\ {call[s].seen[r], outcome} \subseteq Delivered)),
               Put(s, [call[s] EXCEPT !.left = Remaining(s, r, outcome),
                                      !.seen = [q \in DOMAIN call[s].seen \cup {r} |->
                                                 IF q = r THEN outcome ELSE call[s].seen[q]]])
        PROVE  /\ Others(s) /\ received' = received
               /\ Stands(call'[s], call[s].op, "rule", call[s].arg,
                         [q \in DOMAIN call[s].seen \cup {r} |->
                           IF q = r THEN outcome ELSE call[s].seen[q]],
                         call[s].left \ {r})
    <3> DEFINE outcomes == [q \in DOMAIN call[s].seen \cup {r} |->
                             IF q = r THEN outcome ELSE call[s].seen[q]]
               left == call[s].left \ {r}
    <3>1. Put(s, [call[s] EXCEPT !.left = left, !.seen = outcomes])
      BY <2>2 DEF Remaining
    <3> HIDE DEF outcomes, left
    <3>2. Stands([call[s] EXCEPT !.left = left, !.seen = outcomes],
                 call[s].op, call[s].pc, call[s].arg, outcomes, left)
      BY Edits DEF Shape
    <3>3. /\ Others(s) /\ received' = received
          /\ Stands(call'[s], call[s].op, call[s].pc, call[s].arg, outcomes, left)
      BY <3>1, <3>2, PutFresh
    <3> QED
      BY <2>1, <3>3 DEF outcomes, left
  <2>3. ASSUME call[s].left = {}, Reply(s, "200"), UNCHANGED twice
        PROVE  /\ Others(s) /\ received' = received
               /\ Stands(call'[s], call[s].op, "200", call[s].arg, call[s].seen, {})
    BY <2>3, ReplyCall
  <2>4. CASE \E r \in call[s].left : \E outcome \in Outcomes(r) :
               /\ twice' = (twice \/ (/\ r \in DOMAIN call[s].seen
                                      /\ {call[s].seen[r], outcome} \subseteq Delivered))
               /\ Put(s, [call[s] EXCEPT !.left = Remaining(s, r, outcome),
                                         !.seen = [q \in DOMAIN call[s].seen \cup {r} |->
                                                    IF q = r THEN outcome ELSE call[s].seen[q]]])
    <3>1. PICK r \in call[s].left : \E outcome \in Outcomes(r) :
               /\ twice' = (twice \/ (/\ r \in DOMAIN call[s].seen
                                      /\ {call[s].seen[r], outcome} \subseteq Delivered))
               /\ Put(s, [call[s] EXCEPT !.left = Remaining(s, r, outcome),
                                         !.seen = [q \in DOMAIN call[s].seen \cup {r} |->
                                                    IF q = r THEN outcome ELSE call[s].seen[q]]])
      BY <2>4
    <3>2. PICK outcome \in Outcomes(r) :
               /\ twice' = (twice \/ (/\ r \in DOMAIN call[s].seen
                                      /\ {call[s].seen[r], outcome} \subseteq Delivered))
               /\ Put(s, [call[s] EXCEPT !.left = Remaining(s, r, outcome),
                                         !.seen = [q \in DOMAIN call[s].seen \cup {r} |->
                                                    IF q = r THEN outcome ELSE call[s].seen[q]]])
      BY <3>1
    <3>3. /\ Others(s) /\ received' = received
          /\ Stands(call'[s], call[s].op, "rule", call[s].arg,
                    [q \in DOMAIN call[s].seen \cup {r} |->
                      IF q = r THEN outcome ELSE call[s].seen[q]],
                    call[s].left \ {r})
      BY <2>2, <3>2
    <3>4. call'[s].op = call[s].op
      BY <3>3 DEF Stands
    <3> QED
      BY <1>2, <2>1, <3>2, <3>3, <3>4
  <2>5. CASE call[s].left = {} /\ Reply(s, "200") /\ UNCHANGED twice
    BY <1>2, <2>1, <2>3, <2>5 DEF Stands
  <2> QED
    BY <1>2, <2>4, <2>5 DEF RunOne
<1> QED
  BY <1>1, <1>2 DEF RuleStep

\* A store goes on by one database call, or is over.
LEMMA StoreCalls ==
  ASSUME Shape, NEW s \in Actors, StoreStep(s)
  PROVE  /\ Others(s) /\ received' = received /\ call[s].op = "store" /\ call'[s].op = "store"
         /\ UNCHANGED <<present, lite, indexVars, chatVars, ruleVars, twice>>
<1>0. IsCall(call[s])
  BY DEF Shape
<1>1. CASE UpsertTranscript(s)
  <2>1. call[s].op = "store" /\ Reply(s, IF present THEN "clear" ELSE "500")
    BY <1>1 DEF UpsertTranscript, At
  <2>2. PICK pc : Reply(s, pc)
    BY <2>1
  <2> QED
    BY <1>1, <2>1, <2>2, ReplyCall DEF UpsertTranscript, Stands
<1>2. CASE ClearSegments(s)
  <2>1. PICK pc, v : call[s].op = "store" /\ Put(s, [call[s] EXCEPT !.pc = pc, !.seen = v])
    BY <1>2 DEF ClearSegments, At
  <2>2. Stands([call[s] EXCEPT !.pc = pc, !.seen = v], call[s].op, pc, call[s].arg, v, call[s].left)
    BY <1>0, Edits
  <2>3. /\ Others(s) /\ received' = received
        /\ Stands(call'[s], call[s].op, pc, call[s].arg, v, call[s].left)
    BY <2>1, <2>2, PutFresh
  <2> QED
    BY <1>2, <2>1, <2>3 DEF ClearSegments, Stands
<1>3. CASE FillSegments(s)
  <2>1. call[s].op = "store" /\ Reply(s, IF present THEN "chain" ELSE "500")
    BY <1>3 DEF FillSegments, At
  <2>2. PICK pc : Reply(s, pc)
    BY <2>1
  <2> QED
    BY <1>3, <2>1, <2>2, ReplyCall DEF FillSegments, Stands
<1>4. CASE ChainAnalysis(s)
  <2>1. call[s].op = "store" /\ Reply(s, IF present THEN "200" ELSE "500")
    BY <1>4 DEF ChainAnalysis, At
  <2>2. PICK pc : Reply(s, pc)
    BY <2>1
  <2> QED
    BY <1>4, <2>1, <2>2, ReplyCall DEF ChainAnalysis, Stands
<1> QED
  BY <1>1, <1>2, <1>3, <1>4 DEF StoreStep

\* The worker takes a job, or is in the hooks of an analysis before the rules.
LEMMA HookCalls ==
  ASSUME Shape, HookStep
  PROVE  /\ Others(Worker) /\ received' = received
         /\ call'[Worker].op \in {"none", "analysis", "store"}
         /\ call'[Worker].pc \notin {"rule", "200"}
         /\ UNCHANGED <<present, lite, text, stored, chatVars, ruleVars, twice>>
<1>0. Worker \in Actors /\ IsCall(call[Worker]) /\ IsCall(Idle)
  BY SlotsAreActors, IdleCall DEF Shape, Stands
<1>1. CASE TakeAnalysis
  <2>1. CASE Put(Worker, [Idle EXCEPT !.op = "analysis", !.pc = "units"])
    <3>1. PICK c : c = [Idle EXCEPT !.op = "analysis", !.pc = "units"] /\ Put(Worker, c)
      BY <2>1
    <3>2. Stands(c, "analysis", "units", none, none, {})
      BY <3>1, IdleEdits
    <3>3. /\ Others(Worker) /\ received' = received
          /\ Stands(call'[Worker], "analysis", "units", none, none, {})
      BY <1>0, <3>1, <3>2, PutFresh
    <3> QED
      BY <1>1, <3>3 DEF TakeAnalysis, Stands
  <2>2. CASE UNCHANGED callVars
    BY <1>0, <1>1, <2>2, NothingPut, IdleCall DEF TakeAnalysis, Stands
  <2> QED
    BY <1>1, <2>1, <2>2 DEF TakeAnalysis
<1>2. CASE ReadUnits
  <2>1. PICK pc \in {"list", "embed"} :
          /\ call[Worker].op = "analysis"
          /\ Put(Worker, [call[Worker] EXCEPT !.pc = pc, !.seen = text])
    BY <1>2 DEF ReadUnits, Analysing, At
  <2>2. Stands([call[Worker] EXCEPT !.pc = pc, !.seen = text],
               call[Worker].op, pc, call[Worker].arg, text, call[Worker].left)
    BY <1>0, Edits
  <2>3. /\ Others(Worker) /\ received' = received
        /\ Stands(call'[Worker], call[Worker].op, pc, call[Worker].arg, text, call[Worker].left)
    BY <1>0, <2>1, <2>2, PutFresh
  <2> QED
    BY <1>2, <2>1, <2>3 DEF ReadUnits, Stands, assistantVars, textVars
<1>3. CASE Embed
  <2>1. PICK pc \in {"clear", "list"} : /\ call[Worker].op = "analysis"
                                        /\ Reply(Worker, pc)
    BY <1>3 DEF Embed, Analysing, At, Reply
  <2> QED
    BY <1>0, <1>3, <2>1, ReplyCall DEF Embed, Stands, assistantVars, textVars
<1>4. CASE ClearIndex
  <2>1. PICK n : /\ call[Worker].op = "analysis"
                 /\ Put(Worker, [call[Worker] EXCEPT !.pc = "fill", !.arg = n])
    BY <1>4 DEF ClearIndex, Analysing, At
  <2>2. Stands([call[Worker] EXCEPT !.pc = "fill", !.arg = n],
               call[Worker].op, "fill", n, call[Worker].seen, call[Worker].left)
    BY <1>0, Edits
  <2>3. /\ Others(Worker) /\ received' = received
        /\ Stands(call'[Worker], call[Worker].op, "fill", n, call[Worker].seen, call[Worker].left)
    BY <1>0, <2>1, <2>2, PutFresh
  <2> QED
    BY <1>4, <2>1, <2>3 DEF ClearIndex, Stands, textVars
<1>5. CASE FillIndex
  <2>1. PICK pc, n : /\ pc \in {"fill", "list"} /\ call[Worker].op = "analysis"
                     /\ Put(Worker, [call[Worker] EXCEPT !.arg = n, !.pc = pc])
    BY <1>5 DEF FillIndex, Analysing, At
  <2>2. Stands([call[Worker] EXCEPT !.arg = n, !.pc = pc],
               call[Worker].op, pc, n, call[Worker].seen, call[Worker].left)
    BY <1>0, Edits
  <2>3. /\ Others(Worker) /\ received' = received
        /\ Stands(call'[Worker], call[Worker].op, pc, n, call[Worker].seen, call[Worker].left)
    BY <1>0, <2>1, <2>2, PutFresh
  <2> QED
    BY <1>5, <2>1, <2>3 DEF FillIndex, Stands, textVars
<1>6. CASE HooksFail
  BY <1>0, <1>6, CutEnds, IdleCall DEF HooksFail, Stands, assistantVars, textVars
<1>7. CASE Requeue
  BY <1>0, <1>7, CutEnds, IdleCall DEF Requeue, Stands
<1>8. CASE RunTranscription
  <2>1. PICK c : c = [Idle EXCEPT !.op = "store", !.pc = "upsert"] /\ Put(Worker, c)
    BY <1>8 DEF RunTranscription
  <2>2. Stands(c, "store", "upsert", none, none, {})
    BY <2>1, IdleEdits
  <2>3. /\ Others(Worker) /\ received' = received
        /\ Stands(call'[Worker], "store", "upsert", none, none, {})
    BY <1>0, <2>1, <2>2, PutFresh
  <2> QED
    BY <1>8, <2>3 DEF RunTranscription, Stands, assistantVars, textVars
<1>9. CASE StoreFails
  BY <1>0, <1>9, CutEnds, IdleCall DEF StoreFails, Stands
<1> QED
  BY <1>1, <1>2, <1>3, <1>4, <1>5, <1>6, <1>7, <1>8, <1>9 DEF HookStep

\* The chat: what a step of it does to its call.
ChatMove(s) ==
  \/ /\ ChatRead(s) /\ call[s].op # "chat" /\ received' = received + 1
     /\ call'[s].op = "chat" /\ call'[s].arg = received /\ call'[s].pc \in {"ask", "404", "409"}
  \/ /\ ChatAsk(s) \/ ChatModel(s) \/ ChatSave(s)
     /\ call[s].op = "chat" /\ received' = received
     /\ call'[s].op = "chat" /\ call'[s].arg = call[s].arg
     /\ Reply(s, call'[s].pc)
  \/ Cut(s) /\ received' = received /\ call'[s].op = "none" /\ Under(s)

LEMMA ChatCalls ==
  ASSUME Shape, NEW s \in Slots, ChatStep(s)
  PROVE  Others(s) /\ ChatMove(s)
<1>0. s \in Actors /\ IsCall(call[s])
  BY SlotsAreActors DEF Shape
<1>1. CASE ChatRead(s)
  <2>1. PICK c : c = Owned("chat", "ask", received, none)
    OBVIOUS
  <2>2. PICK pc : pc = IF present /\ ~transcript THEN "409" ELSE c.pc
    OBVIOUS
  <2>3. Open(s, [c EXCEPT !.pc = pc])
    BY <1>1, <2>1, <2>2 DEF ChatRead
  <2>4. /\ IsCall(c) /\ c.op = "chat" /\ c.arg = received /\ c.seen = none /\ c.left = {}
        /\ pc \in {"ask", "404", "409"}
    BY <2>1, <2>2, OwnedCall DEF Stands
  <2>5. Stands([c EXCEPT !.pc = pc], "chat", pc, received, none, {})
    BY <2>4, Edits
  <2>6. /\ Others(s) /\ Stands(call'[s], "chat", pc, received, none, {})
        /\ call[s] = Idle /\ received' = received + 1
    BY <1>0, <2>3, <2>5, OpenFresh
  <2>7. call[s].op # "chat"
    BY <2>6, IdleCall DEF Stands
  <2> QED
    BY <1>1, <2>4, <2>6, <2>7 DEF Stands, ChatMove
<1>2. CASE ChatAsk(s) \/ ChatModel(s) \/ ChatSave(s)
  <2>1. call[s].op = "chat" /\ \E code : Reply(s, code)
    BY <1>2 DEF ChatAsk, ChatModel, ChatSave, At
  <2>2. PICK code : Reply(s, code)
    BY <2>1
  <2>3. /\ Others(s) /\ received' = received
        /\ Stands(call'[s], call[s].op, code, call[s].arg, call[s].seen, call[s].left)
    BY <1>0, <2>2, ReplyCall
  <2> QED
    BY <1>2, <2>1, <2>2, <2>3 DEF Stands, ChatMove
<1>3. CASE Cut(s)
  BY <1>0, <1>3, CutEnds, IdleCall DEF Cut, Stands, ChatMove
<1> QED
  BY <1>1, <1>2, <1>3 DEF ChatStep

-----------------------------------------------------------------------------
(* Who makes which calls                                                   *)

\* The worker stores and analyses; the owner's calls do everything else.
Roles ==
  /\ Shape
  /\ call[Worker].op \in {"none", "analysis", "store"}
  /\ \A s \in Slots : call[s].op # "analysis"

\* A step is one of these, so that each invariant looks at six cases.
LEMMA Steps ==
  ASSUME Roles, Next
  PROVE  \/ HookStep
         \/ Close(Worker)
         \/ \E s \in Actors : StoreStep(s)
         \/ \E s \in Actors : RuleStep(s)
         \/ \E s \in Slots : PlainStep(s)
         \/ \E s \in Slots : ChatStep(s)
  BY SlotsAreActors DEF Next, Drainer, Step, HookStep, RuleStep, PlainStep, ChatStep

LEMMA CloseWorker ==
  ASSUME Shape, Close(Worker)
  PROVE  /\ Others(Worker) /\ Stands(call'[Worker], "none", "idle", none, none, {})
         /\ received' = received /\ UNCHANGED <<present, assistantVars>>
  BY SlotsAreActors, PutFresh, IdleCall DEF Close

LEMMA RolesStep == Roles /\ [Next]_vars => Roles'
<1> SUFFICES ASSUME Roles, [Next]_vars PROVE Roles'
  OBVIOUS
<1>0. Slots \subseteq Actors /\ Worker \in Actors /\ Worker \notin Slots
  BY SlotsAreActors
<1>1. CASE UNCHANGED vars
  BY <1>0, <1>1 DEF vars, callVars, Roles, Shape
<1>7. ASSUME NEW s \in Actors, StoreStep(s) PROVE Roles'
  <2>1. Others(s) /\ call[s].op = "store" /\ call'[s].op = "store"
    BY <1>7, StoreCalls DEF Roles
  <2> QED
    BY <1>0, <2>1 DEF Roles, Others, Same, Stands
<1>2. CASE HookStep
  BY <1>0, <1>2, HookCalls DEF Roles, Others, Same, Stands
<1>3. CASE Close(Worker)
  BY <1>0, <1>3, CloseWorker DEF Roles, Others, Same, Stands
<1>4. ASSUME NEW s \in Actors, RuleStep(s) PROVE Roles'
  <2>1. Others(s) /\ call'[s].op = call[s].op
    BY <1>4, RuleCalls DEF Roles
  <2> QED
    BY <1>0, <2>1 DEF Roles, Others, Same, Stands
<1>5. ASSUME NEW s \in Slots, PlainStep(s) PROVE Roles'
  <2>1. Others(s) /\ call'[s].op # "analysis"
    BY <1>5, PlainCalls DEF Roles, Aside
  <2> QED
    BY <1>0, <2>1 DEF Roles, Others, Same, Stands
<1>6. ASSUME NEW s \in Slots, ChatStep(s) PROVE Roles'
  <2>1. Others(s) /\ call'[s].op # "analysis"
    BY <1>6, ChatCalls DEF Roles, ChatMove
  <2> QED
    BY <1>0, <2>1 DEF Roles, Others, Same, Stands
<1> QED
  BY <1>1, <1>2, <1>3, <1>4, <1>5, <1>6, <1>7, Steps

LEMMA RolesInit == Init => Roles
<1> SUFFICES ASSUME Init PROVE Roles
  OBVIOUS
<1>1. call = [s \in Actors |-> Idle]
  BY DEF Init, NoCalls
<1>2. IsCall(Idle) /\ Idle.op = "none"
  BY IdleCall DEF Stands
<1> QED
  BY <1>1, <1>2, SlotsAreActors DEF Roles, Shape

-----------------------------------------------------------------------------
(* The rules of a run                                                      *)

\* A run has tried the rules it found but for those that are left.
Tally(op, pc, arg, seen, left) ==
  op \in {"analysis", "run"} /\ pc \in {"rule", "200"} =>
    /\ left \subseteq arg /\ DOMAIN seen = arg \ left
    /\ pc = "200" => left = {}
RuleInv ==
  /\ ~twice
  /\ \A s \in Actors : Tally(call[s].op, call[s].pc, call[s].arg, call[s].seen, call[s].left)

LEMMA RuleInvStep == Roles /\ RuleInv /\ [Next]_vars => RuleInv'
<1> SUFFICES ASSUME Roles, RuleInv, [Next]_vars PROVE RuleInv'
  OBVIOUS
<1>0. Slots \subseteq Actors /\ Worker \in Actors /\ Shape
  BY SlotsAreActors DEF Roles
<1>a. ASSUME NEW s \in Actors, Others(s), ~twice',
             Tally(call'[s].op, call'[s].pc, call'[s].arg, call'[s].seen, call'[s].left)
      PROVE  RuleInv'
  BY <1>a DEF RuleInv, Others, Same, Stands
<1>b. ASSUME NEW s \in Actors, Others(s), twice' = twice,
             call'[s].op \in {"analysis", "run"} => call'[s].pc \notin {"rule", "200"}
      PROVE  RuleInv'
  BY <1>a, <1>b DEF Tally, RuleInv
<1>1. CASE UNCHANGED vars
  BY <1>1 DEF vars, callVars, RuleInv, Tally, assistantVars
<1>7. ASSUME NEW s \in Actors, StoreStep(s) PROVE RuleInv'
  BY <1>0, <1>7, <1>b, StoreCalls
<1>2. CASE HookStep
  BY <1>0, <1>2, <1>b, HookCalls
<1>3. CASE Close(Worker)
  BY <1>0, <1>3, <1>b, CloseWorker DEF Stands, assistantVars
<1>4. ASSUME NEW s \in Actors, RuleStep(s) PROVE RuleInv'
  <2>0. /\ Others(s)
        /\ \/ \E found : /\ ListRules(s) /\ twice' = twice
                         /\ Stands(call'[s], call[s].op, IF found = {} THEN "200" ELSE "rule",
                                   found, [r \in {} |-> none], found)
           \/ /\ RunOne(s) /\ call[s].pc = "rule"
              /\ \E r \in call[s].left : \E outcome :
                   /\ twice' = (twice \/ (/\ r \in DOMAIN call[s].seen
                                          /\ {call[s].seen[r], outcome} \subseteq Delivered))
                   /\ Stands(call'[s], call[s].op, "rule", call[s].arg,
                             [q \in DOMAIN call[s].seen \cup {r} |->
                               IF q = r THEN outcome ELSE call[s].seen[q]],
                             call[s].left \ {r})
           \/ /\ RunOne(s) /\ call[s].pc = "rule" /\ call[s].left = {} /\ twice' = twice
              /\ Stands(call'[s], call[s].op, "200", call[s].arg, call[s].seen, {})
    BY <1>0, <1>4, RuleCalls
  <2>1. call[s].op \in {"analysis", "run"}
    BY <1>0, <1>4, RuleCalls
  <2>2. ASSUME NEW found, twice' = twice,
               Stands(call'[s], call[s].op, IF found = {} THEN "200" ELSE "rule",
                      found, [r \in {} |-> none], found)
        PROVE  RuleInv'
    BY <1>a, <2>0, <2>2 DEF Stands, Tally, RuleInv
  <2>3. ASSUME call[s].pc = "rule", NEW r \in call[s].left, NEW outcome,
               twice' = (twice \/ (/\ r \in DOMAIN call[s].seen
                                   /\ {call[s].seen[r], outcome} \subseteq Delivered)),
               Stands(call'[s], call[s].op, "rule", call[s].arg,
                      [q \in DOMAIN call[s].seen \cup {r} |->
                        IF q = r THEN outcome ELSE call[s].seen[q]],
                      call[s].left \ {r})
        PROVE  RuleInv'
    <3>1. /\ call[s].left \subseteq call[s].arg
          /\ DOMAIN call[s].seen = call[s].arg \ call[s].left
      BY <2>1, <2>3 DEF RuleInv, Tally
    <3>2. r \notin DOMAIN call[s].seen /\ ~twice'
      BY <2>3, <3>1 DEF RuleInv
    <3>3. /\ call'[s].left = call[s].left \ {r} /\ call'[s].arg = call[s].arg
          /\ DOMAIN call'[s].seen = DOMAIN call[s].seen \cup {r} /\ call'[s].pc = "rule"
      BY <2>3 DEF Stands
    <3>4. Tally(call'[s].op, call'[s].pc, call'[s].arg, call'[s].seen, call'[s].left)
      BY <2>3, <3>1, <3>3 DEF Tally
    <3> QED
      BY <1>a, <2>0, <3>2, <3>4
  <2>4. ASSUME call[s].pc = "rule", call[s].left = {}, twice' = twice,
               Stands(call'[s], call[s].op, "200", call[s].arg, call[s].seen, {})
        PROVE  RuleInv'
    BY <1>a, <2>0, <2>1, <2>4 DEF Stands, Tally, RuleInv
  <2> QED
    BY <2>0, <2>2, <2>3, <2>4
<1>5. ASSUME NEW s \in Slots, PlainStep(s) PROVE RuleInv'
  <2>1. Others(s) /\ Aside(call'[s])
    BY <1>0, <1>5, PlainCalls
  <2>2. twice' = twice
    BY <1>5 DEF PlainStep, TranscribeNow, EditSegment, RunRulesNow, CreateRule, DeleteRuleFind, DeleteRule,
                SetIntegration, DisconnectFind, Disconnect, PushRecording, DeleteFind, DeleteRow,
                Close, assistantVars
  <2> QED
    BY <1>0, <1>b, <2>1, <2>2 DEF Aside
<1>6. ASSUME NEW s \in Slots, ChatStep(s) PROVE RuleInv'
  <2>1. Others(s) /\ call'[s].op \notin {"analysis", "run"}
    BY <1>0, <1>6, ChatCalls DEF ChatMove
  <2>2. twice' = twice
    BY <1>6 DEF ChatStep, ChatRead, ChatAsk, ChatModel, ChatSave, Cut, assistantVars
  <2> QED
    BY <1>0, <1>b, <2>1, <2>2
<1> QED
  BY <1>1, <1>2, <1>3, <1>4, <1>5, <1>6, <1>7, Steps

\* Each run that ends has tried every rule it found, whatever the others'
\* failures, and delivered none of them twice: run_rules of automation.py, for
\* any rules, created and deleted meanwhile.
THEOREM RulesTriedOnce == Spec => []EachRuleOnce
<1>1. Init => RuleInv
  <2> SUFFICES ASSUME Init PROVE RuleInv
    OBVIOUS
  <2>1. \A s \in Actors : call[s] = Idle
    BY DEF Init, NoCalls
  <2>2. Idle.op = "none"
    BY IdleCall DEF Stands
  <2> QED
    BY <2>1, <2>2 DEF Init, RuleInv, Tally
<1>2. RuleInv => EachRuleOnce
  BY DEF RuleInv, Tally, EachRuleOnce
<1> QED
  BY <1>1, <1>2, RolesInit, RolesStep, RuleInvStep, PTL DEF Spec

-----------------------------------------------------------------------------
(* The index                                                               *)

\* A text v that was read or indexed is that of the segments there are, or an
\* analysis of these is due or about to be chained, or nobody asked for one.
Covered(v) == due > 0 \/ Chaining \/ text \in {0} \cup unread \/ v = text
\* An analysis that refills the index holds such a text, and the rows so far
\* are of it.
Refill(op, pc, arg, seen) ==
  op = "analysis" =>
    /\ pc \in {"units", "embed", "clear", "fill"} => ~indexed
    /\ pc \in {"embed", "clear", "fill"} => seen \in 0..stored /\ (present => Covered(seen))
    /\ pc = "fill" => /\ arg \in 1..UnitsOf(seen)
                      /\ index = [i \in 1..(UnitsOf(seen) - arg) |-> seen]
\* A store has a version of its own from the moment it clears the segments.
Storing(op, pc, seen) == op = "store" /\ pc \in {"fill", "chain"} => seen \in 0..stored
IndexInv ==
  /\ stored \in Nat /\ text \in 0..stored /\ due \in Nat /\ {present, indexed} \subseteq BOOLEAN
  /\ \A s \in Actors : Storing(call[s].op, call[s].pc, call[s].seen)
  /\ Refill(call[Worker].op, call[Worker].pc, call[Worker].arg, call[Worker].seen)
  /\ indexed => \E v \in 0..stored : index = Rows(v) /\ (present => Covered(v))

\* One row more.
LEMMA RowAppended ==
  ASSUME NEW n \in Nat, NEW v
  PROVE  Append([i \in 1..n |-> v], v) = [i \in 1..(n + 1) |-> v]
  OBVIOUS

LEMMA SomeUnits == \A v : UnitsOf(v) \in Nat \ {0}
  BY AssistantAssumption DEF UnitsOf

\* A step that leaves the index and its refill alone.
LEMMA IndexKept ==
  ASSUME IndexInv, NEW s \in Actors, Others(s), UNCHANGED indexVars,
         s = Worker => call'[s].op # "analysis" \/ call'[s].pc \notin {"units", "embed", "clear", "fill"},
         Storing(call[s].op, call[s].pc, call[s].seen)',
         present' \in BOOLEAN, present' => present, due' \in Nat,
         stored' \in Nat, stored <= stored', text' \in 0..stored',
         \A v \in 0..stored : present' /\ Covered(v) => Covered(v)'
  PROVE  IndexInv'
<1>1. \A v \in 0..stored : v \in 0..stored'
  BY DEF IndexInv
<1>2. \A t \in Actors : Storing(call[t].op, call[t].pc, call[t].seen)'
  <2> SUFFICES ASSUME NEW t \in Actors PROVE Storing(call[t].op, call[t].pc, call[t].seen)'
    OBVIOUS
  <2>1. CASE t = s
    BY <2>1
  <2>2. CASE t # s
    BY <1>1, <2>2 DEF Others, Same, Stands, Storing, IndexInv
  <2> QED
    BY <2>1, <2>2
<1>3. Refill(call[Worker].op, call[Worker].pc, call[Worker].arg, call[Worker].seen)'
  <2>1. CASE s = Worker
    BY <2>1 DEF Refill
  <2>2. CASE s # Worker
    <3>1. Same(Worker)
      BY <2>2, SlotsAreActors DEF Others
    <3> QED
      BY <1>1, <3>1 DEF Same, Stands, Refill, IndexInv, indexVars, UnitsOf
  <2> QED
    BY <2>1, <2>2
<1>4. indexed' => \E v \in 0..stored' : index' = Rows(v) /\ (present' => Covered(v)')
  <2> SUFFICES ASSUME indexed' PROVE \E v \in 0..stored' : index' = Rows(v) /\ (present' => Covered(v)')
    OBVIOUS
  <2>1. PICK v \in 0..stored : index = Rows(v) /\ (present => Covered(v))
    BY DEF IndexInv, indexVars
  <2> QED
    BY <1>1, <2>1 DEF indexVars
<1>5. Rows(0)' = Rows(0) /\ {present', indexed'} \subseteq BOOLEAN
  BY DEF IndexInv, indexVars, Rows, UnitsOf
<1> QED
  BY <1>2, <1>3, <1>4, <1>5 DEF IndexInv, Rows, UnitsOf

\* A step of a call that is not chaining, which writes no text, covers what was.
LEMMA StillCovered ==
  ASSUME NEW s \in Actors, Others(s), ~At(s, "store", "chain"),
         UNCHANGED <<text, unread>>, due > 0 => due' > 0
  PROVE  \A v : Covered(v) => Covered(v)'
<1>1. Chaining => Chaining'
  <2> SUFFICES ASSUME Chaining PROVE Chaining'
    OBVIOUS
  <2>1. PICK t \in Actors : At(t, "store", "chain") /\ call[t].seen = text
    BY DEF Chaining
  <2>2. t # s
    BY <2>1
  <2>3. At(t, "store", "chain")' /\ call'[t].seen = text'
    BY <2>1, <2>2 DEF Others, Same, Stands, At
  <2> QED
    BY <2>3 DEF Chaining
<1> QED
  BY <1>1 DEF Covered

\* A store writes the text, and is chaining it or has asked for its analysis.
LEMMA StoreKeepsIndex ==
  ASSUME Roles, IndexInv, NEW s \in Actors, StoreStep(s)
  PROVE  IndexInv'
<1>0. /\ Others(s) /\ call[s].op = "store" /\ call'[s].op = "store"
      /\ UNCHANGED <<present, indexVars>> /\ Shape /\ IsCall(call[s])
  BY StoreCalls DEF Roles, Shape
<1>1. present' \in BOOLEAN /\ (present' => present)
  BY <1>0 DEF IndexInv
<1>a. ASSUME NEW code, Reply(s, code)
      PROVE  call'[s].pc = code /\ call'[s].seen = call[s].seen
  BY <1>0, <1>a, ReplyCall DEF Stands
<1>2. CASE UpsertTranscript(s)
  <2>1. /\ Reply(s, IF present THEN "clear" ELSE "500") /\ ~At(s, "store", "chain")
        /\ UNCHANGED <<text, stored, due, unread>>
    BY <1>2 DEF UpsertTranscript, At
  <2>2. call'[s].pc \notin {"fill", "chain"}
    BY <2>1, <1>a
  <2>3. Storing(call[s].op, call[s].pc, call[s].seen)'
    BY <2>2 DEF Storing
  <2>4. \A v : Covered(v) => Covered(v)'
    BY <1>0, <2>1, StillCovered
  <2>5. stored' \in Nat /\ stored <= stored' /\ text' \in 0..stored' /\ due' \in Nat
    BY <2>1 DEF IndexInv
  <2> QED
    BY <1>0, <1>1, <2>3, <2>4, <2>5, IndexKept
<1>3. CASE ClearSegments(s)
  <2>1. /\ text' = 0 /\ stored' = stored + 1 /\ due' = due
        /\ \E pc : Put(s, [call[s] EXCEPT !.pc = pc, !.seen = stored + 1])
    BY <1>3 DEF ClearSegments
  <2>2. PICK k : k = stored + 1
    OBVIOUS
  <2>3. PICK pc : Put(s, [call[s] EXCEPT !.pc = pc, !.seen = k])
    BY <2>1, <2>2
  <2>4. Stands([call[s] EXCEPT !.pc = pc, !.seen = k], call[s].op, pc, call[s].arg, k, call[s].left)
    BY <1>0, Edits
  <2>5. call'[s].seen = stored + 1
    <3>1. Stands(call'[s], call[s].op, pc, call[s].arg, k, call[s].left)
      BY <1>0, <2>3, <2>4, PutFresh
    <3> QED
      BY <2>2, <3>1 DEF Stands
  <2>6. stored' \in Nat /\ stored <= stored' /\ text' \in 0..stored' /\ due' \in Nat
    BY <2>1 DEF IndexInv
  <2>7. Storing(call[s].op, call[s].pc, call[s].seen)'
    BY <2>1, <2>5, <2>6 DEF Storing
  <2>8. \A v : Covered(v)'
    BY <2>1 DEF Covered
  <2> QED
    BY <1>0, <1>1, <2>6, <2>7, <2>8, IndexKept
<1>4. CASE FillSegments(s)
  <2>1. /\ text' = (IF present THEN call[s].seen ELSE text) /\ call[s].pc = "fill"
        /\ UNCHANGED <<stored, due, unread>>
        /\ Reply(s, IF present THEN "chain" ELSE "500")
    BY <1>4 DEF FillSegments, At
  <2>2. call[s].seen \in 0..stored
    BY <1>0, <2>1 DEF IndexInv, Storing
  <2>3. call'[s].seen = call[s].seen /\ call'[s].pc = (IF present THEN "chain" ELSE "500")
    BY <1>a, <2>1
  <2>4. stored' \in Nat /\ stored <= stored' /\ text' \in 0..stored' /\ due' \in Nat
    BY <2>1, <2>2 DEF IndexInv
  <2>5. Storing(call[s].op, call[s].pc, call[s].seen)'
    BY <2>1, <2>2, <2>3 DEF Storing
  <2>6. present' => Chaining'
    <3> SUFFICES ASSUME present' PROVE Chaining'
      OBVIOUS
    <3>1. At(s, "store", "chain")' /\ call'[s].seen = text'
      BY <1>0, <1>1, <2>1, <2>3 DEF At
    <3> QED
      BY <3>1 DEF Chaining
  <2>7. \A v : present' => Covered(v)'
    BY <2>6 DEF Covered
  <2> QED
    BY <1>0, <1>1, <2>4, <2>5, <2>7, IndexKept
<1>5. CASE ChainAnalysis(s)
  <2>1. /\ due' = (IF present THEN due + 1 ELSE due) /\ UNCHANGED <<text, stored, unread>>
        /\ Reply(s, IF present THEN "200" ELSE "500")
    BY <1>5 DEF ChainAnalysis, Chained
  <2>2. call'[s].pc \notin {"fill", "chain"}
    BY <2>1, <1>a
  <2>3. Storing(call[s].op, call[s].pc, call[s].seen)'
    BY <2>2 DEF Storing
  <2>4. stored' \in Nat /\ stored <= stored' /\ text' \in 0..stored' /\ due' \in Nat
    BY <2>1 DEF IndexInv
  <2>5. \A v : present' => Covered(v)'
    BY <1>1, <2>1 DEF Covered, IndexInv
  <2> QED
    BY <1>0, <1>1, <2>3, <2>4, <2>5, IndexKept
<1> QED
  BY <1>2, <1>3, <1>4, <1>5 DEF StoreStep

\* A store that is cut leaves its version behind as unread.
LEMMA CutKeepsIndex ==
  ASSUME Roles, IndexInv, NEW s \in Actors, CutCall(s), unread' = Unread(s),
         UNCHANGED <<present, text, stored, due, indexVars>>
  PROVE  IndexInv'
<1>0. Others(s) /\ call'[s].op = "none"
  BY CutEnds, IdleCall DEF Roles, Stands
<1>1. /\ present' \in BOOLEAN /\ (present' => present)
      /\ stored' \in Nat /\ stored <= stored' /\ text' \in 0..stored' /\ due' \in Nat
  BY DEF IndexInv
<1>2. Storing(call[s].op, call[s].pc, call[s].seen)'
  BY <1>0 DEF Storing
<1>3. \A v : Covered(v) => Covered(v)'
  <2>1. CASE At(s, "store", "chain") /\ call[s].seen = text
    <3>1. text' \in unread'
      BY <2>1 DEF Unread
    <3> QED
      BY <3>1 DEF Covered
  <2>2. CASE ~(At(s, "store", "chain") /\ call[s].seen = text)
    <3>1. Chaining => Chaining'
      <4> SUFFICES ASSUME Chaining PROVE Chaining'
        OBVIOUS
      <4>1. PICK t \in Actors : At(t, "store", "chain") /\ call[t].seen = text
        BY DEF Chaining
      <4>2. At(t, "store", "chain")' /\ call'[t].seen = text'
        BY <1>0, <2>2, <4>1 DEF Others, Same, Stands, At
      <4> QED
        BY <4>2 DEF Chaining
    <3>2. unread \subseteq unread'
      BY DEF Unread
    <3> QED
      BY <3>1, <3>2 DEF Covered
  <2> QED
    BY <2>1, <2>2
<1> QED
  BY <1>0, <1>1, <1>2, <1>3, IndexKept

\* What an analysis read was covered when it read it.  It is alone in refilling
\* the index, and what it leaves is what it read.
LEMMA HookKeepsIndex ==
  ASSUME Roles, IndexInv, HookStep
  PROVE  IndexInv'
<1>0. Worker \in Actors /\ Shape /\ IsCall(call[Worker])
  BY SlotsAreActors DEF Roles, Shape
<1>1. /\ Others(Worker) /\ UNCHANGED <<present, text, stored>>
  BY <1>0, HookCalls
<1> DEFINE w == call[Worker]
<1>2. /\ present' \in BOOLEAN /\ (present' => present)
      /\ stored' \in Nat /\ stored <= stored' /\ text' \in 0..stored'
  BY <1>1 DEF IndexInv
\* The analysis goes on from pc with another text or count.
<1>a. ASSUME w.op = "analysis", UNCHANGED <<due, unread>>,
             call'[Worker].op = "analysis",
             Refill("analysis", call[Worker].pc, call[Worker].arg, call[Worker].seen)',
             {indexed'} \subseteq BOOLEAN,
             indexed' => \E v \in 0..stored : index' = Rows(v) /\ (present => Covered(v))
      PROVE  IndexInv'
  <2>1. \A v : Covered(v) => Covered(v)'
    BY <1>0, <1>1, <1>a, StillCovered DEF At
  <2>2. \A t \in Actors : Storing(call[t].op, call[t].pc, call[t].seen)'
    BY <1>1, <1>a DEF Others, Same, Stands, Storing, IndexInv
  <2>3. indexed' => \E v \in 0..stored' : index' = Rows(v) /\ (present' => Covered(v)')
    BY <1>1, <1>a, <2>1
  <2>4. due' \in Nat
    BY <1>a DEF IndexInv
  <2> QED
    BY <1>2, <1>a, <2>2, <2>3, <2>4 DEF IndexInv, Rows, UnitsOf
\* What the analysis read stays covered.
<1>b. ASSUME w.op = "analysis", UNCHANGED <<due, unread>>
      PROVE  \A v : Covered(v) => Covered(v)'
  BY <1>0, <1>1, <1>b, StillCovered DEF At
<1>3. CASE RunTranscription
  <2>1. PICK c : c = [Idle EXCEPT !.op = "store", !.pc = "upsert"] /\ Put(Worker, c)
    BY <1>3 DEF RunTranscription
  <2>2. Stands(c, "store", "upsert", none, none, {})
    BY <2>1, IdleEdits
  <2>3. Stands(call'[Worker], "store", "upsert", none, none, {})
    BY <1>0, <2>1, <2>2, PutFresh
  <2>4. UNCHANGED <<due, unread, indexVars>> /\ w.op = "none"
    BY <1>3, IdleCall DEF RunTranscription, Stands, assistantVars, textVars
  <2>5. \A v : Covered(v) => Covered(v)'
    BY <1>0, <1>1, <2>4, StillCovered DEF At
  <2>6. /\ Storing(call[Worker].op, call[Worker].pc, call[Worker].seen)' /\ due' \in Nat
        /\ call'[Worker].op # "analysis"
    BY <2>3, <2>4 DEF Storing, Stands, IndexInv
  <2> QED
    BY <1>0, <1>1, <1>2, <2>4, <2>5, <2>6, IndexKept
<1>4. CASE StoreFails
  BY <1>0, <1>4, CutKeepsIndex DEF StoreFails
<1>5. CASE TakeAnalysis
  <2>1. indexed' = FALSE /\ UNCHANGED unread /\ w.op = "none" /\ due' \in Nat
    BY <1>5, IdleCall DEF TakeAnalysis, Stands, IndexInv
  <2>2. call'[Worker].op # "store" /\ call'[Worker].pc \notin {"embed", "clear", "fill"}
    <3>1. CASE UNCHANGED callVars
      BY <3>1, <1>5, IdleCall DEF TakeAnalysis, callVars, Stands
    <3>2. CASE Put(Worker, [Idle EXCEPT !.op = "analysis", !.pc = "units"])
      <4>1. PICK c : c = [Idle EXCEPT !.op = "analysis", !.pc = "units"] /\ Put(Worker, c)
        BY <3>2
      <4>2. Stands(c, "analysis", "units", none, none, {})
        BY <4>1, IdleEdits
      <4>3. Stands(call'[Worker], "analysis", "units", none, none, {})
        BY <1>0, <4>1, <4>2, PutFresh
      <4> QED
        BY <4>3 DEF Stands
    <3> QED
      BY <1>5, <3>1, <3>2 DEF TakeAnalysis
  <2>3. \A t \in Actors : Storing(call[t].op, call[t].pc, call[t].seen)'
    BY <1>1, <2>2 DEF Others, Same, Stands, Storing, IndexInv
  <2>4. Refill(call[Worker].op, call[Worker].pc, call[Worker].arg, call[Worker].seen)'
    BY <2>1, <2>2 DEF Refill
  <2> QED
    BY <1>2, <2>1, <2>3, <2>4 DEF IndexInv
<1>6. CASE ReadUnits
  <2>1. PICK pc \in {"list", "embed"} :
          Put(Worker, [call[Worker] EXCEPT !.pc = pc, !.seen = text])
    BY <1>6 DEF ReadUnits
  <2>2. w.op = "analysis" /\ w.pc = "units" /\ UNCHANGED <<due, unread, indexVars>>
    BY <1>6 DEF ReadUnits, Analysing, At, assistantVars, textVars
  <2>3. Stands([call[Worker] EXCEPT !.pc = pc, !.seen = text], w.op, pc, w.arg, text, w.left)
    BY <1>0, Edits
  <2>4. Stands(call'[Worker], w.op, pc, w.arg, text, w.left)
    BY <1>0, <2>1, <2>3, PutFresh
  <2>5. Covered(text)'
    BY <1>1 DEF Covered
  <2>6. call'[Worker].op = "analysis" /\ ~indexed' /\ indexed' \in BOOLEAN
    BY <2>2, <2>4 DEF Stands, IndexInv, Refill, indexVars
  <2>7. Refill("analysis", call[Worker].pc, call[Worker].arg, call[Worker].seen)'
    BY <1>1, <1>2, <2>4, <2>5, <2>6 DEF Refill, Stands
  <2> QED
    BY <1>a, <2>2, <2>6, <2>7
<1>7. CASE Embed
  <2>0. PICK v : v = w.seen
    OBVIOUS
  <2>1. PICK pc \in {"clear", "list"} : Reply(Worker, pc) /\ w.op = "analysis" /\ w.pc = "embed"
    BY <1>7 DEF Embed, Analysing, At, Reply
  <2>2. Stands(call'[Worker], w.op, pc, w.arg, w.seen, w.left)
    BY <1>0, <2>1, ReplyCall
  <2>3. UNCHANGED <<due, unread, indexVars>>
    BY <1>7 DEF Embed, assistantVars, textVars
  <2>4. /\ ~indexed' /\ indexed' \in BOOLEAN /\ v \in 0..stored /\ (present => Covered(v))
        /\ call'[Worker].op = "analysis"
    BY <2>0, <2>1, <2>2, <2>3 DEF IndexInv, Refill, indexVars, Stands
  <2>5. present' => Covered(v)'
    BY <1>b, <1>1, <2>1, <2>3, <2>4
  <2>6. Refill("analysis", call[Worker].pc, call[Worker].arg, call[Worker].seen)'
    BY <1>1, <2>0, <2>1, <2>2, <2>4, <2>5 DEF Refill, Stands
  <2> QED
    BY <1>a, <2>1, <2>3, <2>4, <2>6
<1>8. CASE ClearIndex
  <2>0. PICK v : v = w.seen
    OBVIOUS
  <2>1. /\ w.op = "analysis" /\ w.pc = "clear" /\ index' = <<>>
        /\ Put(Worker, [call[Worker] EXCEPT !.pc = "fill", !.arg = UnitsOf(w.seen)])
        /\ UNCHANGED <<due, unread, indexed>>
    BY <1>8 DEF ClearIndex, Analysing, At, textVars
  <2>2. PICK n : n = UnitsOf(w.seen)
    OBVIOUS
  <2>3. Stands([call[Worker] EXCEPT !.pc = "fill", !.arg = n], w.op, "fill", n, w.seen, w.left)
    BY <1>0, Edits
  <2>4. Stands(call'[Worker], w.op, "fill", n, w.seen, w.left)
    BY <1>0, <2>1, <2>2, <2>3, PutFresh
  <2>5. /\ ~indexed' /\ indexed' \in BOOLEAN /\ v \in 0..stored /\ (present => Covered(v))
        /\ call'[Worker].op = "analysis"
    BY <2>0, <2>1, <2>4 DEF IndexInv, Refill, Stands
  <2>6. present' => Covered(v)'
    BY <1>b, <1>1, <2>1, <2>5
  <2>7. n \in Nat \ {0}
    BY <2>2, SomeUnits
  <2>8. n \in 1..n /\ <<>> = [i \in 1..(n - n) |-> w.seen]
    BY <2>7
  <2>9. Refill("analysis", call[Worker].pc, call[Worker].arg, call[Worker].seen)'
    BY <1>1, <2>0, <2>1, <2>2, <2>4, <2>5, <2>6, <2>8 DEF Refill, Stands, UnitsOf
  <2> QED
    BY <1>a, <2>1, <2>5, <2>9
<1>9. CASE FillIndex
  <2>0. PICK v : v = w.seen
    OBVIOUS
  <2>1. /\ w.op = "analysis" /\ w.pc = "fill" /\ index' = Append(index, w.seen)
        /\ indexed' = (w.arg = 1)
        /\ UNCHANGED <<due, unread>>
    BY <1>9 DEF FillIndex, Analysing, At, textVars
  <2>2. PICK pc, n : /\ pc = (IF w.arg = 1 THEN "list" ELSE w.pc) /\ n = w.arg - 1
                     /\ Put(Worker, [call[Worker] EXCEPT !.arg = n, !.pc = pc])
    BY <1>9 DEF FillIndex
  <2>3. Stands([call[Worker] EXCEPT !.arg = n, !.pc = pc], w.op, pc, n, w.seen, w.left)
    BY <1>0, Edits
  <2>4. Stands(call'[Worker], w.op, pc, n, w.seen, w.left)
    BY <1>0, <2>2, <2>3, PutFresh
  <2>5. PICK u : u = UnitsOf(w.seen)
    OBVIOUS
  <2>6. /\ w.arg \in 1..u /\ ~indexed /\ u \in Nat \ {0}
        /\ index = [i \in 1..(u - w.arg) |-> w.seen]
        /\ v \in 0..stored /\ (present => Covered(v))
    BY <2>0, <2>1, <2>5, SomeUnits DEF IndexInv, Refill
  <2>7. u - w.arg \in Nat /\ (u - w.arg) + 1 = u - n
    BY <2>2, <2>6
  <2>8. index' = [i \in 1..(u - n) |-> w.seen]
    BY <2>1, <2>6, <2>7, RowAppended
  <2>9. present' => Covered(v)'
    BY <1>b, <1>1, <2>1, <2>6
  <2>10. call'[Worker].op = "analysis" /\ indexed' \in BOOLEAN /\ {indexed'} \subseteq BOOLEAN
    BY <2>1, <2>4 DEF Stands
  <2>11. CASE w.arg = 1
    <3>1. n = 0 /\ pc = "list" /\ u - n = u
      BY <2>2, <2>6, <2>11
    <3>2. index' = Rows(v)
      BY <2>0, <2>5, <2>8, <3>1 DEF Rows
    <3>3. Refill("analysis", call[Worker].pc, call[Worker].arg, call[Worker].seen)'
      BY <2>4, <3>1 DEF Refill, Stands
    <3> QED
      BY <1>a, <2>1, <2>6, <2>10, <3>2, <3>3
  <2>12. CASE w.arg # 1
    <3>1. n \in 1..u
      BY <2>2, <2>6, <2>12
    <3>2. pc = "fill" /\ ~indexed'
      BY <2>1, <2>2, <2>12
    <3>3. Refill("analysis", call[Worker].pc, call[Worker].arg, call[Worker].seen)'
      BY <1>1, <2>0, <2>4, <2>5, <2>6, <2>8, <2>9, <3>1, <3>2 DEF Refill, Stands, UnitsOf
    <3> QED
      BY <1>a, <2>1, <2>10, <3>2, <3>3
  <2> QED
    BY <2>11, <2>12
<1>10. CASE HooksFail \/ Requeue
  <2>1. /\ w.op = "analysis" /\ call'[Worker].op = "none" /\ UNCHANGED <<unread, indexVars>>
        /\ due' \in Nat /\ (due > 0 => due' > 0)
    BY <1>0, <1>10, CutEnds, IdleCall
       DEF HooksFail, Requeue, Stands, assistantVars, textVars, IndexInv
  <2>2. \A v : Covered(v) => Covered(v)'
    BY <1>0, <1>1, <2>1, StillCovered DEF At
  <2>3. Storing(call[Worker].op, call[Worker].pc, call[Worker].seen)'
    BY <2>1 DEF Storing
  <2> QED
    BY <1>0, <1>1, <1>2, <2>1, <2>2, <2>3, IndexKept
<1> QED
  BY <1>3, <1>4, <1>5, <1>6, <1>7, <1>8, <1>9, <1>10 DEF HookStep

LEMMA IndexInvStep == Roles /\ IndexInv /\ [Next]_vars => IndexInv'
<1> SUFFICES ASSUME Roles, IndexInv, [Next]_vars PROVE IndexInv'
  OBVIOUS
<1>0. Slots \subseteq Actors /\ Worker \in Actors /\ Worker \notin Slots /\ Shape
  BY SlotsAreActors DEF Roles
\* The text stands, and the call was not chaining and is not storing.
<1>a. ASSUME NEW s \in Actors, Others(s), ~At(s, "store", "chain"),
             UNCHANGED <<present, text, stored, due, unread, indexVars>>,
             s = Worker => call'[s].op # "analysis" \/ call'[s].pc \in {"rule", "200"},
             call'[s].op = "store" => call'[s].pc \notin {"fill", "chain"}
      PROVE  IndexInv'
  <2>1. \A v : Covered(v) => Covered(v)'
    BY <1>a, StillCovered
  <2>2. Storing(call[s].op, call[s].pc, call[s].seen)'
    BY <1>a DEF Storing
  <2>3. /\ present' \in BOOLEAN /\ (present' => present) /\ due' \in Nat
        /\ stored' \in Nat /\ stored <= stored' /\ text' \in 0..stored'
    BY <1>a DEF IndexInv
  <2>4. s = Worker => call'[s].op # "analysis" \/ call'[s].pc \notin {"units", "embed", "clear", "fill"}
    BY <1>a
  <2> QED
    BY <1>a, <2>1, <2>2, <2>3, <2>4, IndexKept
<1>1. CASE HookStep
  BY <1>1, HookKeepsIndex
<1>2. ASSUME NEW s \in Actors, StoreStep(s) PROVE IndexInv'
  BY <1>2, StoreKeepsIndex
<1>3. CASE Close(Worker)
  <2>1. ~At(Worker, "store", "chain")
    BY <1>3 DEF Close, At, Codes
  <2>2. /\ Others(Worker) /\ call'[Worker].op = "none"
        /\ UNCHANGED <<present, text, stored, due, unread, indexVars>>
    BY <1>0, <1>3, CloseWorker DEF Stands, assistantVars, textVars
  <2> QED
    BY <1>0, <1>a, <2>1, <2>2
<1>4. ASSUME NEW s \in Actors, RuleStep(s) PROVE IndexInv'
  <2>1. Others(s) /\ UNCHANGED <<present, text, stored, due, unread, indexVars>>
    BY <1>0, <1>4, RuleCalls DEF RuleStep, ListRules, RunOne, assistantVars, textVars
  <2>2. /\ call'[s].pc \in {"rule", "200"} /\ call[s].op \in {"analysis", "run"}
        /\ call'[s].op = call[s].op
    BY <1>0, <1>4, RuleCalls DEF Stands
  <2> QED
    BY <1>a, <2>1, <2>2 DEF At
<1>5. ASSUME NEW s \in Slots, PlainStep(s) PROVE IndexInv'
  <2>0. s \in Actors /\ s # Worker
    BY <1>0
  <2>1. /\ Others(s) /\ ~At(s, "store", "chain")
        /\ call'[s].op = "store" => call'[s].pc \notin {"fill", "chain"}
    BY <1>0, <1>5, PlainCalls DEF Aside, At, Codes
  <2>2. Storing(call[s].op, call[s].pc, call[s].seen)'
    BY <2>1 DEF Storing
  <2>3. CASE EditSegment(s)
    <3>1. /\ UNCHANGED <<present, due, indexVars>>
          /\ stored' = stored + 1 /\ text' = stored + 1 /\ unread' = unread \cup {stored + 1}
      BY <2>3 DEF EditSegment
    <3>2. \A v : Covered(v)'
      BY <3>1 DEF Covered
    <3>3. /\ present' \in BOOLEAN /\ (present' => present) /\ due' \in Nat
          /\ stored' \in Nat /\ stored <= stored' /\ text' \in 0..stored'
      BY <3>1 DEF IndexInv
    <3> QED
      BY <2>0, <2>1, <2>2, <3>1, <3>2, <3>3, IndexKept
  <2>4. CASE DeleteRow(s)
    <3>1. present' = FALSE /\ text' = 0 /\ due' = 0 /\ UNCHANGED <<stored, indexVars>>
      BY <2>4 DEF DeleteRow
    <3>2. present' \in BOOLEAN /\ ~present'
      BY <3>1
    <3>3. stored \in Nat /\ stored' = stored
      BY <3>1 DEF IndexInv
    <3>4. stored' \in Nat /\ stored <= stored' /\ text' \in 0..stored' /\ due' \in Nat
      BY <3>1, <3>3
    <3> QED
      BY <2>0, <2>1, <2>2, <3>1, <3>2, <3>4, IndexKept
  <2>5. CASE ~EditSegment(s) /\ ~DeleteRow(s)
    <3>1. UNCHANGED <<present, text, stored, due, unread, indexVars>>
      BY <1>5, <2>5 DEF PlainStep, TranscribeNow, RunRulesNow, CreateRule, DeleteRuleFind,
                DeleteRule, SetIntegration, DisconnectFind, Disconnect, PushRecording,
                DeleteFind, Close, assistantVars, textVars
    <3> QED
      BY <1>a, <2>0, <2>1, <3>1
  <2> QED
    BY <2>3, <2>4, <2>5
<1>6. ASSUME NEW s \in Slots, ChatStep(s) PROVE IndexInv'
  <2>0. s \in Actors /\ s # Worker
    BY <1>0
  <2>1. CASE Cut(s)
    BY <2>0, <2>1, CutKeepsIndex DEF Cut
  <2>2. CASE ChatRead(s) \/ ChatAsk(s) \/ ChatModel(s) \/ ChatSave(s)
    <3>1. UNCHANGED <<present, text, stored, due, unread, indexVars>>
      BY <2>2 DEF ChatRead, ChatAsk, ChatModel, ChatSave, assistantVars, textVars
    <3>2. call[s].op \in {"none", "chat"}
      BY <2>2, IdleCall DEF ChatRead, ChatAsk, ChatModel, ChatSave, At, Open, Stands
    <3>3. Others(s) /\ (call'[s].op \in {"none", "chat"})
      BY <1>0, <1>6, ChatCalls DEF ChatMove
    <3> QED
      BY <1>a, <2>0, <3>1, <3>2, <3>3 DEF At
  <2> QED
    BY <1>6, <2>1, <2>2 DEF ChatStep
<1>7. CASE UNCHANGED vars
  <2>1. UNCHANGED <<present, call, textVars, indexVars>>
    BY <1>7 DEF vars, callVars, assistantVars
  <2>2. Chaining' = Chaining
    BY <2>1 DEF Chaining, At, textVars
  <2> QED
    BY <2>1, <2>2 DEF textVars, indexVars, IndexInv, Refill, Storing, Covered, Rows, UnitsOf
<1> QED
  BY <1>1, <1>2, <1>3, <1>4, <1>5, <1>6, <1>7, Steps

\* A full index is of one text, each unit once, and of the segments as they are
\* unless an analysis of these is due, about to be chained, or was never asked
\* for: index_recording clears and refills the index and is cut and run again,
\* while any number of stores, of the worker and of transcribe-now, edits and the
\* deletion go on.
THEOREM SearchFindsText == Spec => []IndexFaithful
<1>1. Init => IndexInv
  <2> SUFFICES ASSUME Init PROVE IndexInv
    OBVIOUS
  <2>1. (\A s \in Actors : call[s] = Idle) /\ Worker \in Actors /\ Idle.op = "none"
    BY IdleCall, SlotsAreActors DEF Init, NoCalls, Stands
  <2>2. present = TRUE /\ indexed = FALSE /\ due = 0 /\ text \in {0, 1} /\ stored = text
    BY DEF Init
  <2>3. stored \in Nat /\ text \in 0..stored
    BY <2>2
  <2> QED
    BY <2>1, <2>2, <2>3 DEF IndexInv, Refill, Storing
<1>2. IndexInv => IndexFaithful
  BY DEF IndexInv, IndexFaithful, Covered
<1> QED
  BY <1>1, <1>2, RolesInit, RolesStep, IndexInvStep, PTL DEF Spec

-----------------------------------------------------------------------------
(* The chat                                                                *)

\* Every question has a number of its own.  It is in the chat from the moment it
\* is asked, and its reply is not before it was given.
ChatRow == [role : {"USER", "ASSISTANT"}, of : Nat]
ChatTypes ==
  /\ present \in BOOLEAN /\ received \in Nat /\ chat \in Seq(ChatRow)
  /\ ~present => chat = <<>>
Awaits(s) == call[s].op = "chat" /\ call[s].pc \in {"answer", "save"}
Numbers ==
  /\ \A i \in DOMAIN chat : chat[i].of < received
  /\ \A s \in Slots : call[s].op = "chat" => call[s].arg \in Nat /\ call[s].arg < received
  /\ \A s, t \in Slots :
       call[s].op = "chat" /\ call[t].op = "chat" /\ call[s].arg = call[t].arg => s = t
  /\ \A s \in Slots : At(s, "chat", "ask") => \A i \in DOMAIN chat : chat[i].of # call[s].arg
  /\ \A s \in Slots : Awaits(s) /\ present =>
       /\ \E i \in DOMAIN chat : chat[i] = Message("USER", call[s].arg)
       /\ \A i \in DOMAIN chat : chat[i] # Message("ASSISTANT", call[s].arg)
Once == \A i, j \in DOMAIN chat : chat[i] = chat[j] => i = j
RepliesFollow ==
  \A i \in DOMAIN chat : chat[i].role = "ASSISTANT" =>
    \E j \in 1..(i - 1) : chat[j] = Message("USER", chat[i].of)
NoneForgotten ==
  \A i \in DOMAIN chat : chat[i].role = "USER" =>
    \/ \E j \in DOMAIN chat : chat[j] = Message("ASSISTANT", chat[i].of)
    \/ chat[i].of \in unanswered
    \/ \E s \in Slots : Awaits(s) /\ call[s].arg = chat[i].of
RepliesStored ==
  \A s \in Slots : At(s, "chat", "200") /\ present =>
    \E i \in DOMAIN chat : chat[i] = Message("ASSISTANT", call[s].arg)
ChatInv == ChatTypes /\ Numbers /\ Once /\ RepliesFollow /\ NoneForgotten /\ RepliesStored

LEMMA MessageType ==
  ASSUME NEW role \in {"USER", "ASSISTANT"}, NEW q \in Nat
  PROVE  /\ Message(role, q) \in ChatRow
         /\ Message(role, q).role = role /\ Message(role, q).of = q
  BY DEF Message, ChatRow

\* Two rows are the same when they say the same of the same question.
LEMMA MessageFields ==
  ASSUME NEW m \in ChatRow
  PROVE  m = Message(m.role, m.of) /\ m.role \in {"USER", "ASSISTANT"} /\ m.of \in Nat
  BY DEF Message, ChatRow

LEMMA ChatGrows ==
  ASSUME chat \in Seq(ChatRow), NEW m \in ChatRow, chat' = Append(chat, m)
  PROVE  /\ chat' \in Seq(ChatRow) /\ Len(chat) + 1 \in DOMAIN chat' /\ chat'[Len(chat) + 1] = m
         /\ DOMAIN chat' = DOMAIN chat \cup {Len(chat) + 1}
         /\ \A i \in DOMAIN chat : chat'[i] = chat[i] /\ i # Len(chat) + 1
         /\ DOMAIN chat = 1..Len(chat) /\ Len(chat) \in Nat
  OBVIOUS

\* A step of anything but a chat: the chat stands, or goes with its recording.
LEMMA Bystander ==
  ASSUME ChatInv, NEW s \in Actors, Others(s), call'[s].op # "chat",
         call[s].op = "chat" => call[s].pc \in Codes,
         received' \in {received, received + 1}, unanswered' = unanswered,
         \/ present' = present /\ chat' = chat
         \/ present' = FALSE /\ chat' = <<>>
  PROVE  ChatInv'
<1>0. \A t \in Slots : call'[t].op = "chat" =>
        /\ call[t].op = "chat" /\ call'[t].pc = call[t].pc /\ call'[t].arg = call[t].arg
  BY SlotsAreActors DEF Others, Same, Stands
<1>1. \A t \in Slots : Awaits(t) => Awaits(t)' /\ call'[t].arg = call[t].arg
  BY SlotsAreActors DEF Others, Same, Stands, Awaits, Codes
<1>2. ChatTypes' /\ received <= received'
  <2>1. received \in Nat /\ received' \in Nat /\ received <= received'
    BY DEF ChatInv, ChatTypes
  <2>2. <<>> \in Seq(ChatRow)
    OBVIOUS
  <2> QED
    BY <2>1, <2>2 DEF ChatInv, ChatTypes
<1>3. CASE present' = present /\ chat' = chat
  <2>1. Numbers'
    <3>1. received \in Nat /\ received' \in Nat /\ received <= received'
      BY <1>2 DEF ChatInv, ChatTypes
    <3>2. \A i \in DOMAIN chat : chat[i].of \in Nat
      <4>1. \A i \in DOMAIN chat : chat[i] \in ChatRow
        BY DEF ChatInv, ChatTypes
      <4> QED
        BY <4>1, MessageFields
    <3>3. \A i \in DOMAIN chat : chat[i].of < received'
      BY <3>1, <3>2 DEF ChatInv, Numbers
    <3>4. \A t \in Slots : call'[t].op = "chat" => call'[t].arg \in Nat /\ call'[t].arg < received'
      BY <1>0, <3>1 DEF ChatInv, Numbers
    <3>5. \A t, u \in Slots :
            call'[t].op = "chat" /\ call'[u].op = "chat" /\ call'[t].arg = call'[u].arg => t = u
      BY <1>0 DEF ChatInv, Numbers
    <3>6. \A t \in Slots : At(t, "chat", "ask")' => \A i \in DOMAIN chat : chat[i].of # call'[t].arg
      BY <1>0 DEF ChatInv, Numbers, At
    <3>7. \A t \in Slots : Awaits(t)' /\ present =>
            /\ \E i \in DOMAIN chat : chat[i] = Message("USER", call'[t].arg)
            /\ \A i \in DOMAIN chat : chat[i] # Message("ASSISTANT", call'[t].arg)
      BY <1>0 DEF ChatInv, Numbers, Awaits
    <3> QED
      BY <1>3, <3>3, <3>4, <3>5, <3>6, <3>7 DEF Numbers, Awaits, At
  <2>2. Once' /\ RepliesFollow'
    BY <1>3 DEF ChatInv, Once, RepliesFollow
  <2>3. NoneForgotten'
    BY <1>1, <1>3 DEF ChatInv, NoneForgotten
  <2>4. RepliesStored'
    BY <1>0, <1>3 DEF ChatInv, RepliesStored, At
  <2> QED
    BY <1>2, <2>1, <2>2, <2>3, <2>4 DEF ChatInv
<1>4. CASE present' = FALSE /\ chat' = <<>>
  <2>1. Numbers'
    BY <1>0, <1>2, <1>4 DEF ChatInv, ChatTypes, Numbers, Awaits, At
  <2> QED
    BY <1>2, <1>4, <2>1 DEF ChatInv, Once, RepliesFollow, NoneForgotten, RepliesStored
<1> QED
  BY <1>3, <1>4

\* A question gets the number of its call, which no call has had.
LEMMA ReadKeeps ==
  ASSUME ChatInv, NEW s \in Slots, Others(s), ChatRead(s), call[s].op # "chat",
         received' = received + 1, call'[s].op = "chat", call'[s].arg = received,
         call'[s].pc \in {"ask", "404", "409"}
  PROVE  ChatInv'
<1>0. UNCHANGED <<present, chat, unanswered>> /\ s \in Actors
  BY SlotsAreActors DEF ChatRead, assistantVars, chatVars
<1>1. \A t \in Slots \ {s} :
        call'[t].op = call[t].op /\ call'[t].pc = call[t].pc /\ call'[t].arg = call[t].arg
  BY SlotsAreActors DEF Others, Same, Stands
<1>2. /\ ~Awaits(s)' /\ ~Awaits(s) /\ ~At(s, "chat", "200")'
      /\ \A t \in Slots \ {s} : Awaits(t)' = Awaits(t)
  BY <1>1 DEF Awaits, At
<1>3. received \in Nat /\ received' \in Nat /\ received < received'
  BY DEF ChatInv, ChatTypes
<1>4. \A i \in DOMAIN chat : chat[i].of \in Nat /\ chat[i].of < received
  <2>1. \A i \in DOMAIN chat : chat[i] \in ChatRow
    BY DEF ChatInv, ChatTypes
  <2> QED
    BY <2>1, MessageFields DEF ChatInv, Numbers
<1>5. Numbers'
  <2>1. \A i \in DOMAIN chat : chat[i].of < received'
    BY <1>3, <1>4
  <2>2. \A t \in Slots : call'[t].op = "chat" => call'[t].arg \in Nat /\ call'[t].arg < received'
    BY <1>1, <1>3 DEF ChatInv, Numbers
  <2>3. \A t \in Slots \ {s} : call[t].op = "chat" => call[t].arg # received
    BY <1>3 DEF ChatInv, Numbers
  <2>4. \A t, u \in Slots :
          call'[t].op = "chat" /\ call'[u].op = "chat" /\ call'[t].arg = call'[u].arg => t = u
    BY <1>1, <2>3 DEF ChatInv, Numbers
  <2>5. \A i \in DOMAIN chat : chat[i].of # received
    BY <1>3, <1>4
  <2>6. \A t \in Slots : At(t, "chat", "ask")' => \A i \in DOMAIN chat : chat[i].of # call'[t].arg
    BY <1>1, <2>5 DEF ChatInv, Numbers, At
  <2>7. \A t \in Slots : Awaits(t)' /\ present =>
          /\ \E i \in DOMAIN chat : chat[i] = Message("USER", call'[t].arg)
          /\ \A i \in DOMAIN chat : chat[i] # Message("ASSISTANT", call'[t].arg)
    BY <1>1, <1>2 DEF ChatInv, Numbers, Awaits
  <2> QED
    BY <1>0, <2>1, <2>2, <2>4, <2>6, <2>7 DEF Numbers, Awaits, At
<1>6. ChatTypes' /\ Once' /\ RepliesFollow'
  BY <1>0, <1>3 DEF ChatInv, ChatTypes, Once, RepliesFollow
<1>7. NoneForgotten'
  BY <1>0, <1>1, <1>2 DEF ChatInv, NoneForgotten
<1>8. RepliesStored'
  BY <1>0, <1>1, <1>2 DEF ChatInv, RepliesStored, At
<1> QED
  BY <1>5, <1>6, <1>7, <1>8 DEF ChatInv

\* A step of a chat that leaves the rows alone: the recording is gone, the model
\* failed or answered, or the call is cut.
LEMMA RowsStand ==
  ASSUME ChatInv, NEW s \in Slots, Others(s), UNCHANGED <<present, chat, received>>,
         call'[s].op \in {call[s].op, "none"}, call'[s].arg = call[s].arg \/ call'[s].op = "none",
         call[s].op = "chat", ~At(s, "chat", "ask")',
         At(s, "chat", "200")' => ~present, Awaits(s)' => Awaits(s),
         unanswered \subseteq unanswered',
         Awaits(s) /\ ~Awaits(s)' => ~present \/ call[s].arg \in unanswered'
  PROVE  ChatInv'
<1>1. \A t \in Slots \ {s} :
        call'[t].op = call[t].op /\ call'[t].pc = call[t].pc /\ call'[t].arg = call[t].arg
  BY SlotsAreActors DEF Others, Same, Stands
<1>2. \A t \in Slots \ {s} : Awaits(t)' = Awaits(t)
  BY <1>1 DEF Awaits
<1>3. Numbers'
  <2>1. \A t \in Slots : call'[t].op = "chat" => call[t].op = "chat" /\ call'[t].arg = call[t].arg
    BY <1>1
  <2>2. \A t \in Slots : At(t, "chat", "ask")' => At(t, "chat", "ask")
    BY <1>1 DEF At
  <2>3. \A t \in Slots : Awaits(t)' => Awaits(t)
    BY <1>2
  <2>4. \A t \in Slots : At(t, "chat", "ask")' => \A i \in DOMAIN chat : chat[i].of # call'[t].arg
    BY <2>1, <2>2 DEF ChatInv, Numbers, At
  <2>5. \A t \in Slots : Awaits(t)' /\ present =>
          /\ \E i \in DOMAIN chat : chat[i] = Message("USER", call'[t].arg)
          /\ \A i \in DOMAIN chat : chat[i] # Message("ASSISTANT", call'[t].arg)
    BY <2>1, <2>3 DEF ChatInv, Numbers, Awaits
  <2> QED
    BY <2>1, <2>4, <2>5 DEF ChatInv, Numbers, At, Awaits
<1>4. ChatTypes' /\ Once' /\ RepliesFollow'
  BY DEF ChatInv, ChatTypes, Once, RepliesFollow
<1>5. NoneForgotten'
  <2> SUFFICES ASSUME NEW i \in DOMAIN chat, chat[i].role = "USER",
                      \A j \in DOMAIN chat : chat[j] # Message("ASSISTANT", chat[i].of),
                      chat[i].of \notin unanswered'
               PROVE  \E t \in Slots : Awaits(t)' /\ call'[t].arg = chat[i].of
    BY DEF NoneForgotten
  <2>1. present
    BY DEF ChatInv, ChatTypes
  <2>2. PICK t \in Slots : Awaits(t) /\ call[t].arg = chat[i].of
    BY DEF ChatInv, NoneForgotten
  <2>3. Awaits(t)'
    BY <1>2, <2>1, <2>2
  <2>4. call'[t].arg = call[t].arg
    BY <1>1, <2>3 DEF Awaits
  <2> QED
    BY <2>2, <2>3, <2>4
<1>6. RepliesStored'
  BY <1>1 DEF ChatInv, RepliesStored, At
<1> QED
  BY <1>3, <1>4, <1>5, <1>6 DEF ChatInv

\* The question is stored behind the rows that are there.
LEMMA AskKeeps ==
  ASSUME ChatInv, NEW s \in Slots, Others(s), present, At(s, "chat", "ask"),
         chat' = Append(chat, Message("USER", call[s].arg)),
         call'[s].op = "chat", call'[s].arg = call[s].arg, call'[s].pc = "answer",
         UNCHANGED <<present, received, unanswered>>
  PROVE  ChatInv'
<1> DEFINE n == Len(chat) + 1  m == Message("USER", call[s].arg)
<1>1. \A t \in Slots \ {s} :
        call'[t].op = call[t].op /\ call'[t].pc = call[t].pc /\ call'[t].arg = call[t].arg
  BY SlotsAreActors DEF Others, Same, Stands
<1>2. /\ call[s].arg \in Nat /\ call[s].arg < received
      /\ \A i \in DOMAIN chat : chat[i].of # call[s].arg
  BY DEF ChatInv, Numbers, At
<1>3. m \in ChatRow /\ m.role = "USER" /\ m.of = call[s].arg
  BY <1>2, MessageType
<1>4. chat \in Seq(ChatRow)
  BY DEF ChatInv, ChatTypes
<1> HIDE DEF m
<1>5. chat' = Append(chat, m)
  BY DEF m
<1>6. /\ chat' \in Seq(ChatRow) /\ n \in DOMAIN chat' /\ chat'[n] = m
      /\ DOMAIN chat' = DOMAIN chat \cup {n}
      /\ \A i \in DOMAIN chat : chat'[i] = chat[i] /\ i # n
      /\ DOMAIN chat = 1..Len(chat) /\ Len(chat) \in Nat
  BY <1>3, <1>4, <1>5, ChatGrows
<1> HIDE DEF n
<1>7. Awaits(s)' /\ \A t \in Slots : Awaits(t) => Awaits(t)' /\ call'[t].arg = call[t].arg
  BY <1>1 DEF Awaits, At
<1>8. \A t \in Slots \ {s} : call[t].op = "chat" => call[t].arg # call[s].arg
  BY DEF ChatInv, Numbers, At
<1>9. m = Message("USER", call[s].arg) /\ \A q : m # Message("ASSISTANT", q)
  BY <1>3, MessageType DEF m, Message
<1>10. Numbers'
  <2>1. \A i \in DOMAIN chat' : chat'[i].of < received
    BY <1>2, <1>3, <1>6 DEF ChatInv, Numbers
  <2>2. /\ \A t \in Slots : call'[t].op = "chat" => call'[t].arg \in Nat /\ call'[t].arg < received
        /\ \A t, u \in Slots :
             call'[t].op = "chat" /\ call'[u].op = "chat" /\ call'[t].arg = call'[u].arg => t = u
    BY <1>1 DEF ChatInv, Numbers, At
  <2>3. \A t \in Slots : At(t, "chat", "ask")' => \A i \in DOMAIN chat' : chat'[i].of # call'[t].arg
    <3> SUFFICES ASSUME NEW t \in Slots, At(t, "chat", "ask")', NEW i \in DOMAIN chat'
                 PROVE  chat'[i].of # call'[t].arg
      OBVIOUS
    <3>1. t # s /\ At(t, "chat", "ask") /\ call'[t].arg = call[t].arg
      BY <1>1 DEF At
    <3>2. CASE i \in DOMAIN chat
      BY <1>6, <3>1, <3>2 DEF ChatInv, Numbers
    <3>3. CASE i = n
      BY <1>3, <1>6, <1>8, <3>1, <3>3 DEF At
    <3> QED
      BY <1>6, <3>2, <3>3
  <2>4. ASSUME NEW t \in Slots, Awaits(t)'
        PROVE  /\ \E i \in DOMAIN chat' : chat'[i] = Message("USER", call'[t].arg)
               /\ \A i \in DOMAIN chat' : chat'[i] # Message("ASSISTANT", call'[t].arg)
    <3>1. CASE t = s
      <4>1. \A i \in DOMAIN chat : chat[i] # Message("ASSISTANT", call[s].arg)
        BY <1>2, MessageType
      <4> QED
        BY <1>6, <1>9, <3>1, <4>1
    <3>2. CASE t # s
      <4>1. Awaits(t) /\ call'[t].arg = call[t].arg
        BY <1>1, <2>4, <3>2 DEF Awaits
      <4> QED
        BY <1>6, <1>9, <4>1 DEF ChatInv, Numbers
    <3> QED
      BY <3>1, <3>2
  <2> QED
    BY <2>1, <2>2, <2>3, <2>4 DEF Numbers
<1>11. Once'
  <2>1. \A i \in DOMAIN chat : chat[i] # m
    BY <1>2, <1>3
  <2> QED
    BY <1>6, <2>1 DEF ChatInv, Once
<1>12. RepliesFollow'
  <2> SUFFICES ASSUME NEW i \in DOMAIN chat', chat'[i].role = "ASSISTANT"
               PROVE  \E j \in 1..(i - 1) : chat'[j] = Message("USER", chat'[i].of)
    BY DEF RepliesFollow
  <2>1. i \in DOMAIN chat /\ chat'[i] = chat[i]
    BY <1>3, <1>6
  <2>2. PICK j \in 1..(i - 1) : chat[j] = Message("USER", chat[i].of)
    BY <2>1 DEF ChatInv, RepliesFollow
  <2>3. j \in DOMAIN chat
    BY <1>6, <2>1
  <2> QED
    BY <1>6, <2>1, <2>2, <2>3
<1>13. NoneForgotten'
  <2> SUFFICES ASSUME NEW i \in DOMAIN chat', chat'[i].role = "USER",
                      \A j \in DOMAIN chat' : chat'[j] # Message("ASSISTANT", chat'[i].of),
                      chat'[i].of \notin unanswered
               PROVE  \E t \in Slots : Awaits(t)' /\ call'[t].arg = chat'[i].of
    BY DEF NoneForgotten
  <2>1. CASE i = n
    BY <1>3, <1>6, <1>7, <2>1
  <2>2. CASE i \in DOMAIN chat
    <3>1. PICK t \in Slots : Awaits(t) /\ call[t].arg = chat[i].of
      BY <1>6, <2>2 DEF ChatInv, NoneForgotten
    <3> QED
      BY <1>6, <1>7, <2>2, <3>1
  <2> QED
    BY <1>6, <2>1, <2>2
<1>14. RepliesStored'
  <2> SUFFICES ASSUME NEW t \in Slots, At(t, "chat", "200")'
               PROVE  \E i \in DOMAIN chat' : chat'[i] = Message("ASSISTANT", call'[t].arg)
    BY DEF RepliesStored
  <2>1. At(t, "chat", "200") /\ call'[t].arg = call[t].arg
    BY <1>1 DEF At
  <2> QED
    BY <1>6, <2>1 DEF ChatInv, RepliesStored
<1> QED
  BY <1>6, <1>10, <1>11, <1>12, <1>13, <1>14 DEF ChatInv, ChatTypes

\* The reply is stored behind its question.
LEMMA ReplyKeeps ==
  ASSUME ChatInv, NEW s \in Slots, Others(s), present, At(s, "chat", "save"),
         chat' = Append(chat, Message("ASSISTANT", call[s].arg)),
         call'[s].op = "chat", call'[s].arg = call[s].arg, call'[s].pc = "200",
         UNCHANGED <<present, received, unanswered>>
  PROVE  ChatInv'
<1> DEFINE n == Len(chat) + 1  m == Message("ASSISTANT", call[s].arg)
<1>1. \A t \in Slots \ {s} :
        call'[t].op = call[t].op /\ call'[t].pc = call[t].pc /\ call'[t].arg = call[t].arg
  BY SlotsAreActors DEF Others, Same, Stands
<1>2. /\ call[s].arg \in Nat /\ call[s].arg < received
      /\ \E i \in DOMAIN chat : chat[i] = Message("USER", call[s].arg)
      /\ \A i \in DOMAIN chat : chat[i] # m
  BY DEF ChatInv, Numbers, At, Awaits
<1>3. m \in ChatRow /\ m.role = "ASSISTANT" /\ m.of = call[s].arg
  BY <1>2, MessageType
<1>4. chat \in Seq(ChatRow)
  BY DEF ChatInv, ChatTypes
<1> HIDE DEF m
<1>5. chat' = Append(chat, m)
  BY DEF m
<1>6. /\ chat' \in Seq(ChatRow) /\ n \in DOMAIN chat' /\ chat'[n] = m
      /\ DOMAIN chat' = DOMAIN chat \cup {n}
      /\ \A i \in DOMAIN chat : chat'[i] = chat[i] /\ i # n
      /\ DOMAIN chat = 1..Len(chat) /\ n = Len(chat) + 1 /\ Len(chat) \in Nat
  BY <1>3, <1>4, <1>5, ChatGrows
<1> HIDE DEF n
<1>7. \A t \in Slots \ {s} : Awaits(t)' = Awaits(t)
  BY <1>1 DEF Awaits
<1>8. ~Awaits(s)' /\ ~At(s, "chat", "ask")'
  BY DEF Awaits, At
<1>9. \A t \in Slots \ {s} : call[t].op = "chat" => call[t].arg # call[s].arg
  BY DEF ChatInv, Numbers, At
<1>10. Numbers'
  <2>1. \A i \in DOMAIN chat' : chat'[i].of < received
    BY <1>2, <1>3, <1>6 DEF ChatInv, Numbers
  <2>2. /\ \A t \in Slots : call'[t].op = "chat" => call'[t].arg \in Nat /\ call'[t].arg < received
        /\ \A t, u \in Slots :
             call'[t].op = "chat" /\ call'[u].op = "chat" /\ call'[t].arg = call'[u].arg => t = u
    BY <1>1 DEF ChatInv, Numbers, At
  <2>3. \A t \in Slots : At(t, "chat", "ask")' => \A i \in DOMAIN chat' : chat'[i].of # call'[t].arg
    <3> SUFFICES ASSUME NEW t \in Slots, At(t, "chat", "ask")', NEW i \in DOMAIN chat'
                 PROVE  chat'[i].of # call'[t].arg
      OBVIOUS
    <3>1. t # s /\ At(t, "chat", "ask") /\ call'[t].arg = call[t].arg
      BY <1>1, <1>8 DEF At
    <3>2. CASE i \in DOMAIN chat
      BY <1>6, <3>1, <3>2 DEF ChatInv, Numbers
    <3>3. CASE i = n
      BY <1>3, <1>6, <1>9, <3>1, <3>3 DEF At
    <3> QED
      BY <1>6, <3>2, <3>3
  <2>4. ASSUME NEW t \in Slots, Awaits(t)'
        PROVE  /\ \E i \in DOMAIN chat' : chat'[i] = Message("USER", call'[t].arg)
               /\ \A i \in DOMAIN chat' : chat'[i] # Message("ASSISTANT", call'[t].arg)
    <3>1. t # s /\ Awaits(t) /\ call'[t].arg = call[t].arg
      BY <1>1, <1>7, <1>8, <2>4
    <3>2. /\ \E i \in DOMAIN chat : chat[i] = Message("USER", call[t].arg)
          /\ \A i \in DOMAIN chat : chat[i] # Message("ASSISTANT", call[t].arg)
      BY <3>1 DEF ChatInv, Numbers
    <3>3. call[t].arg \in Nat /\ call[t].arg # call[s].arg
      BY <1>9, <3>1 DEF ChatInv, Numbers, Awaits
    <3>4. m # Message("ASSISTANT", call[t].arg)
      BY <1>3, <3>3, MessageType
    <3> QED
      BY <1>6, <3>1, <3>2, <3>4
  <2> QED
    BY <2>1, <2>2, <2>3, <2>4 DEF Numbers
<1>11. Once'
  BY <1>2, <1>6 DEF ChatInv, Once
<1>12. RepliesFollow'
  <2> SUFFICES ASSUME NEW i \in DOMAIN chat', chat'[i].role = "ASSISTANT"
               PROVE  \E j \in 1..(i - 1) : chat'[j] = Message("USER", chat'[i].of)
    BY DEF RepliesFollow
  <2>1. CASE i \in DOMAIN chat
    <3>1. PICK j \in 1..(i - 1) : chat[j] = Message("USER", chat[i].of)
      BY <1>6, <2>1 DEF ChatInv, RepliesFollow
    <3>2. j \in DOMAIN chat
      BY <1>6, <2>1
    <3> QED
      BY <1>6, <2>1, <3>1, <3>2
  <2>2. CASE i = n
    <3>1. PICK j \in DOMAIN chat : chat[j] = Message("USER", call[s].arg)
      BY <1>2
    <3>2. j \in 1..(i - 1)
      BY <1>6, <2>2
    <3> QED
      BY <1>3, <1>6, <2>2, <3>1, <3>2
  <2> QED
    BY <1>6, <2>1, <2>2
<1>13. NoneForgotten'
  <2> SUFFICES ASSUME NEW i \in DOMAIN chat', chat'[i].role = "USER",
                      \A j \in DOMAIN chat' : chat'[j] # Message("ASSISTANT", chat'[i].of),
                      chat'[i].of \notin unanswered
               PROVE  \E t \in Slots : Awaits(t)' /\ call'[t].arg = chat'[i].of
    BY DEF NoneForgotten
  <2>1. i \in DOMAIN chat /\ chat'[i] = chat[i]
    BY <1>3, <1>6
  <2>2. \A j \in DOMAIN chat : chat[j] # Message("ASSISTANT", chat[i].of)
    BY <1>6, <2>1
  <2>3. PICK t \in Slots : Awaits(t) /\ call[t].arg = chat[i].of
    BY <2>1, <2>2 DEF ChatInv, NoneForgotten
  <2>4. t # s
    BY <1>6, <2>1, <2>3 DEF m
  <2> QED
    BY <1>1, <1>7, <2>1, <2>3, <2>4
<1>14. RepliesStored'
  <2> SUFFICES ASSUME NEW t \in Slots, At(t, "chat", "200")'
               PROVE  \E i \in DOMAIN chat' : chat'[i] = Message("ASSISTANT", call'[t].arg)
    BY DEF RepliesStored
  <2>1. CASE t = s
    BY <1>6, <2>1 DEF m
  <2>2. CASE t # s
    <3>1. At(t, "chat", "200") /\ call'[t].arg = call[t].arg
      BY <1>1, <2>2 DEF At
    <3> QED
      BY <1>6, <3>1 DEF ChatInv, RepliesStored
  <2> QED
    BY <2>1, <2>2
<1> QED
  BY <1>6, <1>10, <1>11, <1>12, <1>13, <1>14 DEF ChatInv, ChatTypes

LEMMA ChatStepKeeps ==
  ASSUME Roles, ChatInv, NEW s \in Slots, ChatStep(s)
  PROVE  ChatInv'
<1>0. s \in Actors /\ Shape /\ Others(s)
  BY SlotsAreActors, ChatCalls DEF Roles
<1>1. ASSUME NEW code, Reply(s, code)
      PROVE  /\ call'[s].op = call[s].op /\ call'[s].pc = code /\ call'[s].arg = call[s].arg
             /\ received' = received
  BY <1>0, <1>1, ReplyCall DEF Stands
<1>2. CASE ChatRead(s)
  <2>1. /\ call[s].op # "chat" /\ received' = received + 1
        /\ call'[s].op = "chat" /\ call'[s].arg = received /\ call'[s].pc \in {"ask", "404", "409"}
    <3>1. ~ChatAsk(s) /\ ~ChatModel(s) /\ ~ChatSave(s) /\ ~Cut(s)
      <4>1. call[s].op = "none"
        BY <1>2, IdleCall DEF ChatRead, Open, Stands
      <4> QED
        BY <4>1 DEF ChatAsk, ChatModel, ChatSave, Cut, CutCall, Under, At
    <3> QED
      BY <1>0, <1>2, <3>1, ChatCalls DEF ChatMove
  <2> QED
    BY <1>0, <1>2, <2>1, ReadKeeps
<1>3. CASE ChatAsk(s)
  <2>1. At(s, "chat", "ask") /\ UNCHANGED <<present, unanswered>>
    BY <1>3 DEF ChatAsk
  <2>2. CASE present
    <3>1. chat' = Append(chat, Message("USER", call[s].arg)) /\ Reply(s, "answer")
      BY <1>3, <2>2 DEF ChatAsk
    <3> QED
      BY <1>0, <1>1, <2>1, <2>2, <3>1, AskKeeps DEF At
  <2>3. CASE ~present
    <3>1. chat' = chat /\ Reply(s, "500")
      BY <1>3, <2>3 DEF ChatAsk
    <3>2. /\ call[s].op = "chat" /\ call[s].pc = "ask"
          /\ call'[s].op = "chat" /\ call'[s].pc = "500" /\ call'[s].arg = call[s].arg
          /\ received' = received
      BY <1>1, <2>1, <3>1 DEF At
    <3>3. ~At(s, "chat", "ask")' /\ ~At(s, "chat", "200")' /\ ~Awaits(s)' /\ ~Awaits(s)
      BY <3>2 DEF At, Awaits
    <3> QED
      BY <1>0, <2>1, <3>1, <3>2, <3>3, RowsStand
  <2> QED
    BY <2>2, <2>3
<1>4. CASE ChatModel(s)
  <2>1. PICK ok \in BOOLEAN :
          /\ Reply(s, Ensured(ok))
          /\ unanswered' = IF ok THEN unanswered ELSE unanswered \cup {call[s].arg}
    BY <1>4 DEF ChatModel
  <2>2. At(s, "chat", "answer") /\ UNCHANGED <<present, chat>>
    BY <1>4 DEF ChatModel
  <2>3. /\ call[s].op = "chat" /\ call[s].pc = "answer"
        /\ call'[s].op = "chat" /\ call'[s].pc = Ensured(ok) /\ call'[s].arg = call[s].arg
        /\ received' = received
    BY <1>1, <2>1, <2>2 DEF At
  <2>4. /\ ~At(s, "chat", "ask")' /\ ~At(s, "chat", "200")' /\ Awaits(s)
        /\ Awaits(s)' \/ call[s].arg \in unanswered'
        /\ unanswered \subseteq unanswered'
    BY <2>1, <2>3 DEF At, Awaits, Ensured
  <2> QED
    BY <1>0, <2>2, <2>3, <2>4, RowsStand
<1>5. CASE ChatSave(s)
  <2>1. At(s, "chat", "save") /\ UNCHANGED <<present, unanswered>>
    BY <1>5 DEF ChatSave
  <2>2. CASE present
    <3>1. chat' = Append(chat, Message("ASSISTANT", call[s].arg)) /\ Reply(s, "200")
      BY <1>5, <2>2 DEF ChatSave
    <3> QED
      BY <1>0, <1>1, <2>1, <2>2, <3>1, ReplyKeeps DEF At
  <2>3. CASE ~present
    <3>1. chat' = chat /\ Reply(s, "500")
      BY <1>5, <2>3 DEF ChatSave
    <3>2. /\ call[s].op = "chat" /\ call[s].pc = "save"
          /\ call'[s].op = "chat" /\ call'[s].pc = "500" /\ call'[s].arg = call[s].arg
          /\ received' = received
      BY <1>1, <2>1, <3>1 DEF At
    <3>3. ~At(s, "chat", "ask")' /\ ~At(s, "chat", "200")' /\ ~Awaits(s)'
      BY <3>2 DEF At, Awaits
    <3> QED
      BY <1>0, <2>1, <2>3, <3>1, <3>2, <3>3, RowsStand
  <2> QED
    BY <2>2, <2>3
<1>6. CASE Cut(s)
  <2>1. /\ call'[s].op = "none" /\ received' = received /\ Under(s)
        /\ UNCHANGED <<present, chat>>
        /\ unanswered' = IF call[s].op = "chat" /\ call[s].pc \in {"answer", "save"}
                         THEN unanswered \cup {call[s].arg} ELSE unanswered
    BY <1>0, <1>6, CutEnds, IdleCall DEF Cut, Stands
  <2>2. CASE call[s].op = "chat"
    <3>1. ~At(s, "chat", "ask")' /\ ~At(s, "chat", "200")' /\ ~Awaits(s)'
      BY <2>1 DEF At, Awaits
    <3>2. unanswered \subseteq unanswered' /\ (Awaits(s) => call[s].arg \in unanswered')
      BY <2>1 DEF Awaits
    <3> QED
      BY <1>0, <2>1, <2>2, <3>1, <3>2, RowsStand
  <2>3. CASE call[s].op # "chat"
    BY <1>0, <2>1, <2>3, Bystander
  <2> QED
    BY <2>2, <2>3
<1> QED
  BY <1>2, <1>3, <1>4, <1>5, <1>6 DEF ChatStep

LEMMA ChatInvStep == Roles /\ ChatInv /\ [Next]_vars => ChatInv'
<1> SUFFICES ASSUME Roles, ChatInv, [Next]_vars PROVE ChatInv'
  OBVIOUS
<1>0. Slots \subseteq Actors /\ Worker \in Actors /\ Shape
  BY SlotsAreActors DEF Roles
<1>1. CASE UNCHANGED vars
  <2>1. UNCHANGED <<present, call, received, chat, unanswered>>
    BY <1>1 DEF vars, callVars, assistantVars, chatVars
  <2> QED
    BY <2>1 DEF ChatInv, ChatTypes, Numbers, Awaits, At, Once, RepliesFollow, NoneForgotten,
                RepliesStored
<1>2. CASE HookStep
  <2>1. /\ Others(Worker) /\ received' = received /\ call'[Worker].op # "chat"
        /\ UNCHANGED <<present, chat, unanswered>>
    BY <1>0, <1>2, HookCalls DEF chatVars
  <2>2. call[Worker].op # "chat"
    BY DEF Roles
  <2> QED
    BY <1>0, <2>1, <2>2, Bystander
<1>3. CASE Close(Worker)
  <2>1. /\ Others(Worker) /\ received' = received /\ call'[Worker].op = "none"
        /\ UNCHANGED <<present, chat, unanswered>>
    BY <1>0, <1>3, CloseWorker DEF Stands, assistantVars, chatVars
  <2>2. call[Worker].op # "chat"
    BY DEF Roles
  <2> QED
    BY <1>0, <2>1, <2>2, Bystander
<1>4. ASSUME NEW s \in Actors, RuleStep(s) PROVE ChatInv'
  <2>1. /\ Others(s) /\ received' = received /\ call'[s].op # "chat" /\ call[s].op # "chat"
    BY <1>0, <1>4, RuleCalls
  <2>2. UNCHANGED <<present, chat, unanswered>>
    BY <1>4 DEF RuleStep, ListRules, RunOne, assistantVars, chatVars
  <2> QED
    BY <2>1, <2>2, Bystander
<1>5. ASSUME NEW s \in Slots, PlainStep(s) PROVE ChatInv'
  <2>1. /\ Others(s) /\ call'[s].op # "chat" /\ received' \in {received, received + 1}
        /\ call[s].op = "chat" => call[s].pc \in Codes
    BY <1>0, <1>5, PlainCalls DEF Aside
  <2>2. /\ unanswered' = unanswered
        /\ \/ present' = present /\ chat' = chat
           \/ present' = FALSE /\ chat' = <<>>
    BY <1>5 DEF PlainStep, TranscribeNow, EditSegment, RunRulesNow, CreateRule, DeleteRuleFind, DeleteRule,
                SetIntegration, DisconnectFind, Disconnect, PushRecording, DeleteFind, DeleteRow,
                Close, assistantVars, chatVars
  <2> QED
    BY <1>0, <2>1, <2>2, Bystander
<1>6. ASSUME NEW s \in Slots, ChatStep(s) PROVE ChatInv'
  BY <1>6, ChatStepKeeps
<1>7. ASSUME NEW s \in Actors, StoreStep(s) PROVE ChatInv'
  <2>1. /\ Others(s) /\ received' = received /\ call'[s].op # "chat" /\ call[s].op # "chat"
        /\ UNCHANGED <<present, chat, unanswered>>
    BY <1>0, <1>7, StoreCalls DEF chatVars
  <2> QED
    BY <2>1, Bystander
<1> QED
  BY <1>1, <1>2, <1>3, <1>4, <1>5, <1>6, <1>7, Steps

\* However many chats overlap, fail and are cut: a question is in the chat once,
\* its reply follows it once, and one without a reply is being answered, or its
\* caller was told.
THEOREM QuestionsAccounted == Spec => []ChatAccounted
<1>1. Init => ChatInv
  <2> SUFFICES ASSUME Init PROVE ChatInv
    OBVIOUS
  <2>1. \A s \in Slots : call[s].op = "none"
    BY IdleCall, SlotsAreActors DEF Init, NoCalls, Stands
  <2>2. present = TRUE /\ received = 0 /\ chat = <<>> /\ <<>> \in Seq(ChatRow)
    BY DEF Init, NoCalls
  <2> QED
    BY <2>1, <2>2 DEF ChatInv, ChatTypes, Numbers, Awaits, At, Once, RepliesFollow,
                      NoneForgotten, RepliesStored
<1>2. ChatInv => ChatAccounted
  BY DEF ChatInv, Once, RepliesFollow, NoneForgotten, RepliesStored, Awaits, ChatAccounted
<1> QED
  BY <1>1, <1>2, RolesInit, RolesStep, ChatInvStep, PTL DEF Spec
=============================================================================
