-------------------------- MODULE LaunchClaimProofs -------------------------
(***************************************************************************)
(* LaunchClaim for any number of processes, spawns and crashes.            *)
(*                                                                         *)
(* The argument has three layers.  Structure: a process has a nonce of its *)
(* own or its parent's, and two processes share one only while the parent  *)
(* waits for the child.  HolderOnDisk: from the acquisition to the end of  *)
(* its custody, the file carries that nonce and that pid, because whoever  *)
(* touched it would not share the nonce and so would expose a live claim.  *)
(* Hence two holders are one process, and NobodyInCharge: the worker that  *)
(* passed the check under its claim is the first to write the lease.       *)
(***************************************************************************)
EXTENDS LaunchClaim, TLAPS

-----------------------------------------------------------------------------
(* Who knows which nonce.                                                  *)

\* What a process knows of itself.  It is without a nonce until it has claimed
\* or been handed a claim; its heartbeat runs from the acquisition to the
\* clearing; another attempt is within its budget.
Sound(p, s) ==
    /\ s \in Process
    /\ s.pc = "idle" => s = Blank
    /\ s.pc \in Ended => s.nonce[1] = Ghost
    /\ s.pc \in {"handoff", "wait"} => p \in Parents
    /\ s.pc \in {"adopt", "adopting"} => p \in Children
    /\ s.pc \in {"recheck", "lease"} => p \in Workers
    /\ s.nonce[1] = Ghost =>
          \/ s.pc \in {"idle"} \cup Ended
          \/ p \notin Children /\ s.pc \in {"look", "create", "inspect", "reclaim"} /\ s.spawns = 0
    /\ s.beat # "off" => s.pc \in {"recheck", "lease", "handoff", "clear"}
    /\ \/ s.pc \in {"idle", "look", "create", "inspect", "reclaim", "adopt"}
       \/ s.pc \in {"clear", "park", "unpark"} /\ s.then = "create"
       => s.spawns < MaxSpawns

\* A parent waits for the child it has handed its claim to.
Family(p, q) == At(p, "wait") /\ proc[p].child = q

\* A nonce is the process's own, or that of a parent, which waits for it or has
\* ended.
NonceOrigin ==
    \A p \in Pids :
        \/ proc[p].nonce[1] \in {Ghost, p}
        \/ /\ p \in Children /\ proc[p].nonce[1] = proc[p].parent /\ proc[p].parent \in Parents
           /\ proc[proc[p].parent].pc \in Ended \/ Family(proc[p].parent, p)

\* Two processes know one nonce only as parent and child.
NonceUnique ==
    \A p, q \in Pids :
        p # q /\ proc[p].nonce = proc[q].nonce /\ proc[p].nonce[1] # Ghost =>
            Family(p, q) \/ Family(q, p)

Structure ==
    /\ proc \in [Pids -> Process]
    /\ \A p \in Pids : Sound(p, proc[p])
    /\ NonceOrigin /\ NonceUnique

LEMMA BlankIsSound == \A p \in Pids : Sound(p, Blank)
BY RolesAssumption DEF Sound, Blank, Process, PCs, Nonces, Claims, Pids, Ended

LEMMA StructureInit == Init => Structure
<1> SUFFICES ASSUME Init
             PROVE  Structure
  OBVIOUS
<1>1. proc = [p \in Pids |-> Blank] /\ \A p \in Pids : proc[p] = Blank
  BY DEF Init
<1>2. Blank.nonce[1] = Ghost
  BY DEF Blank
<1>3. proc \in [Pids -> Process] /\ \A p \in Pids : Sound(p, proc[p])
  BY <1>1, BlankIsSound DEF Sound
<1>4. NonceOrigin /\ NonceUnique
  BY <1>1, <1>2 DEF NonceOrigin, NonceUnique
<1> QED
  BY <1>3, <1>4 DEF Structure

\* What a step of one process does, but for the handoff: the process ends, keeps
\* the nonce it has, or makes one of its own.
Moves(p) ==
    /\ proc' \in [Pids -> Process]
    /\ \A q \in Pids : q # p => proc'[q] = proc[q]
    /\ Sound(p, proc'[p]) /\ proc'[p].pc # "idle"
    /\ proc[p].pc \in Ended => proc'[p].pc \in Ended
    /\ \/ proc'[p].pc \in Ended
       \/ /\ proc'[p].nonce = proc[p].nonce /\ proc'[p].parent = proc[p].parent
          /\ At(p, "wait") => proc[p].child = Ghost \/ proc[proc[p].child].pc \in Ended
       \/ At(p, "create") /\ proc'[p].nonce[1] = p

LEMMA MovesKeepStructure ==
    ASSUME Structure, NEW p \in Pids, Moves(p)
    PROVE  Structure'
<1>1. \A q \in Pids : q # p => proc'[q] = proc[q]
  BY DEF Moves
<1>2. ASSUME NEW q \in Pids, NEW r \in Pids, Family(q, r), proc'[r].nonce[1] # Ghost
      PROVE  Family(q, r)' \/ proc'[q].pc \in Ended
  <2>1. CASE q = p
    <3>1. r \in Children /\ r # p /\ proc[r].pc \notin Ended
      BY <1>1, <1>2, <2>1, RolesAssumption DEF Moves, Structure, Sound, Family, At, Process, Ended
    <3> QED
      BY <1>1, <1>2, <2>1, <3>1, RolesAssumption DEF Moves, Family, At, Pids
  <2> QED
    BY <1>1, <1>2, <2>1 DEF Family, At
<1>3. NonceOrigin'
  <2> SUFFICES ASSUME NEW q \in Pids, proc'[q].nonce[1] \notin {Ghost, q}
               PROVE  (/\ q \in Children /\ proc[q].nonce[1] = proc[q].parent
                       /\ proc[q].parent \in Parents
                       /\ proc[proc[q].parent].pc \in Ended \/ Family(proc[q].parent, q))'
    BY DEF NonceOrigin
  <2>1. proc'[q].nonce = proc[q].nonce /\ proc'[q].parent = proc[q].parent
    BY <1>1 DEF Moves, Sound
  <2>2. PICK P \in Parents :
          /\ q \in Children /\ proc[q].nonce[1] = P /\ proc[q].parent = P
          /\ proc[P].pc \in Ended \/ Family(P, q)
    BY <2>1 DEF Structure, NonceOrigin
  <2>3. P \in Pids
    BY DEF Pids
  <2>4. proc'[P].pc \in Ended \/ Family(P, q)'
    BY <1>1, <1>2, <2>2, <2>3 DEF Moves
  <2> QED
    BY <2>1, <2>2, <2>4 DEF Family, At
<1>4. NonceUnique'
  <2> SUFFICES ASSUME NEW q \in Pids, NEW r \in Pids, q # r,
                      proc'[q].nonce = proc'[r].nonce, proc'[q].nonce[1] # Ghost
               PROVE  Family(q, r)' \/ Family(r, q)'
    BY DEF NonceUnique
  <2>1. CASE proc'[q].nonce = proc[q].nonce /\ proc'[r].nonce = proc[r].nonce
    <3>1. Family(q, r) \/ Family(r, q)
      BY <2>1 DEF Structure, NonceUnique
    <3>2. proc'[q].pc \notin Ended /\ proc'[r].pc \notin Ended
      BY <1>1 DEF Moves, Structure, Sound
    <3> QED
      BY <1>2, <3>1, <3>2
  <2>2. ASSUME NEW a \in Pids, NEW b \in Pids, a # b, At(p, "create"), a = p, proc'[p].nonce[1] = p,
               proc'[b].nonce = proc'[a].nonce
        PROVE  FALSE
    <3>1. proc[b].nonce[1] = p /\ b # p
      BY <1>1, <2>2
    <3>2. At(p, "wait") \/ proc[p].pc \in Ended
      BY <3>1, RolesAssumption DEF Structure, NonceOrigin, Family, Pids, Workers
    <3> QED
      BY <2>2, <3>2 DEF At, Ended
  <2>3. \/ proc'[q].nonce = proc[q].nonce /\ proc'[r].nonce = proc[r].nonce
        \/ At(p, "create") /\ proc'[p].nonce[1] = p /\ (q = p \/ r = p)
    BY <1>1 DEF Moves, Sound
  <2> QED
    BY <2>1, <2>2, <2>3
<1> QED
  BY <1>3, <1>4 DEF Structure, Moves

\* A process that ends is forgotten.
LEMMA EndMoves ==
    ASSUME Structure, NEW p \in Pids, NEW pc \in Ended, proc' = [proc EXCEPT ![p] = [Blank EXCEPT !.pc = pc]]
    PROVE  Moves(p)
<1>1. [Blank EXCEPT !.pc = pc] \in Process
  BY RolesAssumption DEF Blank, Process, PCs, Nonces, Claims, Ended
<1>2. Sound(p, [Blank EXCEPT !.pc = pc])
  BY <1>1 DEF Sound, Blank, Ended
<1> QED
  BY <1>1, <1>2 DEF Structure, Moves, Blank, Ended

LEMMA RefusalMoves ==
    ASSUME Structure, NEW p \in Pids, proc[p].pc \in {"inspect", "reclaim"}, Become(p, Refused(p))
    PROVE  Moves(p)
<1>1. CASE p \in Supervisors /\ proc[p].spawns > 0
  <2>1. proc' = [proc EXCEPT ![p] = [proc[p] EXCEPT !.pc = "clear", !.then = "refused"]]
    BY <1>1 DEF Structure, Process, Become, Refused, Ended
  <2>2. Sound(p, [proc[p] EXCEPT !.pc = "clear", !.then = "refused"])
    <3>1. proc[p] \in Process /\ proc[p].beat = "off" /\ proc[p].nonce[1] # Ghost
      BY <1>1, RolesAssumption DEF Structure, Sound, Ended
    <3>2. [proc[p] EXCEPT !.pc = "clear", !.then = "refused"] \in Process
      BY <3>1 DEF Process, PCs
    <3> QED
      BY <3>1, <3>2 DEF Sound, Process, Ended
  <2> QED
    BY <2>1, <2>2 DEF Structure, Moves, Sound, Process, Ended, At
<1>2. CASE ~(p \in Supervisors /\ proc[p].spawns > 0)
  <2>1. proc' = [proc EXCEPT ![p] = [Blank EXCEPT !.pc = "refused"]]
    BY <1>2 DEF Structure, Process, Become, Refused, Ended
  <2> QED
    BY <2>1, EndMoves DEF Ended
<1> QED
  BY <1>1, <1>2

\* A process that goes on with the record s, its nonce and its parent kept.
LEMMA UpdateMoves ==
    ASSUME Structure, NEW p \in Pids, NEW s, proc' = [proc EXCEPT ![p] = s],
           Sound(p, s), s.pc # "idle", proc[p].pc \notin Ended,
           s.nonce = proc[p].nonce, s.parent = proc[p].parent,
           At(p, "wait") => proc[p].child = Ghost \/ proc[proc[p].child].pc \in Ended
    PROVE  Moves(p)
<1>1. proc \in [Pids -> Process] /\ s \in Process
  BY DEF Structure, Sound
<1>2. proc' \in [Pids -> Process] /\ proc'[p] = s /\ \A q \in Pids : q # p => proc'[q] = proc[q]
  BY <1>1
<1> QED
  BY <1>2 DEF Moves

\* What a claim that is held or given up asks of the record: the program
\* counter moves from one stage of its custody to the next.
LEMMA CustodyMoves ==
    ASSUME Structure, NEW p \in Pids, NEW pc \in {"clear", "park"}, NEW beat \in {"off", proc[p].beat},
           NEW then \in {"create", "running", "refused", "finished"},
           proc' = [proc EXCEPT ![p] = [proc[p] EXCEPT !.pc = pc, !.then = then, !.beat = beat]],
           proc[p].pc \in {"recheck", "lease", "running", "wait", "clear"},
           pc = "park" => beat = "off",
           then = "create" => proc[p].spawns < MaxSpawns,
           At(p, "wait") => proc[p].child = Ghost \/ proc[proc[p].child].pc \in Ended
    PROVE  Moves(p)
<1> DEFINE s == [proc[p] EXCEPT !.pc = pc, !.then = then, !.beat = beat]
<1>1. proc[p] \in Process /\ Sound(p, proc[p])
  BY DEF Structure
<1>2. s \in Process
  BY <1>1 DEF Process, PCs
<1>3. /\ s.pc = pc /\ s.then = then /\ s.beat = beat
      /\ s.nonce = proc[p].nonce /\ s.parent = proc[p].parent /\ s.spawns = proc[p].spawns
  BY <1>1 DEF Process
<1> HIDE DEF s
<1>4. proc[p].nonce[1] # Ghost
  BY <1>1 DEF Sound, Ended
<1>5. Sound(p, s)
  BY <1>1, <1>2, <1>3, <1>4 DEF Sound, Ended
<1>6. proc' = [proc EXCEPT ![p] = s]
  BY SMTT(30) DEF s
<1> QED
  BY <1>3, <1>5, <1>6, UpdateMoves DEF Ended

LEMMA StepMoves ==
    ASSUME TypeOK, Structure, NEW p \in Pids, \/ Launch(p) \/ Beat(p) \/ Crash(p)
                                              \/ (Proceed(p) /\ ~Handoff(p))
    PROVE  Moves(p)
<1>0. proc \in [Pids -> Process] /\ proc[p] \in Process /\ Sound(p, proc[p])
  BY DEF Structure
<1>5. CASE Finish(p)
  <2>1. proc[p].pc = "running" /\ proc[p].beat = "off"
    BY <1>0, <1>5 DEF Finish, At, Sound
  <2>2. proc' = [proc EXCEPT ![p] = [proc[p] EXCEPT !.pc = "park", !.then = "finished", !.beat = "off"]]
    BY <1>0, <1>5, <2>1 DEF Finish, Process
  <2> QED
    BY <2>1, <2>2, CustodyMoves DEF At
<1>8. CASE Reclaim(p)
  <2>0. proc[p].pc = "reclaim"
    BY <1>8 DEF Reclaim, At
  <2>1. CASE Become(p, [proc[p] EXCEPT !.pc = "create", !.tries = 1])
    <3> DEFINE s == [proc[p] EXCEPT !.pc = "create", !.tries = 1]
    <3>1. s \in Process
      BY <1>0 DEF Process, PCs
    <3>2. /\ s.pc = "create" /\ s.nonce = proc[p].nonce /\ s.parent = proc[p].parent
          /\ s.spawns = proc[p].spawns /\ s.beat = proc[p].beat
      BY <1>0 DEF Process
    <3>3. proc' = [proc EXCEPT ![p] = s]
      BY <2>1, <3>2 DEF Become, Ended
    <3> HIDE DEF s
    <3>4. Sound(p, s)
      BY <1>0, <2>0, <3>1, <3>2 DEF Sound, Ended
    <3> QED
      BY <2>0, <3>2, <3>3, <3>4, UpdateMoves DEF At, Ended
  <2>2. CASE Become(p, Refused(p))
    BY <2>0, <2>2, RefusalMoves
  <2> QED
    BY <1>8, <2>1, <2>2 DEF Reclaim
<1>11. CASE Supervise(p)
  <2>1. PICK next \in {"create", "finished"} :
          /\ next = "create" => proc[p].spawns < MaxSpawns
          /\ proc' = [proc EXCEPT ![p].pc = "clear", ![p].then = next]
    BY <1>11 DEF Supervise
  <2>2. proc[p].child = Ghost \/ proc[proc[p].child].pc \in Ended
    BY <1>11 DEF Supervise, ChildExit
  <2>3. proc' = [proc EXCEPT ![p] = [proc[p] EXCEPT !.pc = "clear", !.then = next, !.beat = proc[p].beat]]
    BY <1>0, <2>1 DEF Process
  <2>4. proc[p].pc = "wait"
    BY <1>11 DEF Supervise, At
  <2> QED
    BY <2>1, <2>2, <2>3, <2>4, CustodyMoves DEF At
<1>12. CASE Watch(p)
  <2>1. CASE Goto(p, "finished")
    <3>1. proc' = [proc EXCEPT ![p] = [Blank EXCEPT !.pc = "finished"]]
      BY <1>0, <2>1 DEF Goto, Become, Process, Ended
    <3> QED
      BY <3>1, EndMoves DEF Ended
  <2>2. CASE ChildFailed(p) /\ proc' = [proc EXCEPT ![p].pc = "clear", ![p].then = "refused"]
    <3>1. proc[p].child = Ghost \/ proc[proc[p].child].pc \in Ended
      BY <2>2 DEF ChildFailed, ChildExit, Ended
    <3>2. proc' = [proc EXCEPT ![p] = [proc[p] EXCEPT !.pc = "clear", !.then = "refused", !.beat = proc[p].beat]]
      BY <1>0, <2>2 DEF Process
    <3>3. proc[p].pc = "wait"
      BY <1>12 DEF Watch, At
    <3> QED
      BY <3>1, <3>2, <3>3, CustodyMoves DEF At
  <2> QED
    BY <1>12, <2>1, <2>2 DEF Watch
<1>13. CASE Clear(p)
  <2>1. proc[p].pc = "clear"
    BY <1>13 DEF Clear, At
  <2>2. proc[p].then = "create" => proc[p].spawns < MaxSpawns
    BY <1>0, <2>1 DEF Sound
  <2>3. proc' = [proc EXCEPT ![p] = [proc[p] EXCEPT !.pc = "park", !.then = proc[p].then, !.beat = "off"]]
    BY <1>0, <1>13 DEF Clear, Process
  <2>4. proc[p].then \in {"create", "running", "refused", "finished"}
    BY <1>0 DEF Process
  <2> QED
    BY <2>1, <2>2, <2>3, <2>4, CustodyMoves DEF At
<1>14. CASE Park(p)
  <2> DEFINE r == [proc[p] EXCEPT !.pc = IF claim = NoClaim THEN proc[p].then ELSE "unpark",
                                  !.parked = claim]
  <2>0. proc[p].pc = "park" /\ claim \in Claims \cup {NoClaim}
    BY <1>14 DEF Park, At, TypeOK
  <2>1. (IF claim = NoClaim THEN proc[p].then ELSE "unpark")
           \in {"create", "running", "refused", "finished", "unpark"}
    BY <1>0 DEF Process
  <2>2. r \in Process
    BY <1>0, <2>0, <2>1, ZenonT(30) DEF Process, PCs
  <2>3. Become(p, r)
    BY <1>14 DEF Park
  <2>4. /\ r.pc = (IF claim = NoClaim THEN proc[p].then ELSE "unpark")
        /\ r.nonce = proc[p].nonce /\ r.parent = proc[p].parent /\ r.then = proc[p].then
        /\ r.spawns = proc[p].spawns /\ r.beat = proc[p].beat
    BY <1>0 DEF Process
  <2> HIDE DEF r
  <2>5. CASE r.pc \in Ended
    <3>1. proc' = [proc EXCEPT ![p] = [Blank EXCEPT !.pc = r.pc]]
      BY <2>3, <2>5 DEF Become
    <3> QED
      BY <2>5, <3>1, EndMoves
  <2>6. CASE r.pc \notin Ended
    <3>1. Sound(p, r)
      BY <1>0, <2>0, <2>1, <2>2, <2>4, <2>6 DEF Sound, Ended
    <3>2. proc' = [proc EXCEPT ![p] = r]
      BY <2>3, <2>6 DEF Become
    <3>3. r.pc # "idle"
      BY <2>1, <2>4
    <3> QED
      BY <2>0, <2>4, <3>1, <3>2, <3>3, UpdateMoves DEF At, Ended
  <2> QED
    BY <2>5, <2>6
<1> USE RolesAssumption DEF At, Pids, Parents, Workers, Ended, Blank
<1> USE DEF Goto, Become, Moves, Sound, Process, PCs
<1>1. CASE Launch(p)
  BY <1>0, <1>1 DEF Launch
<1>2. CASE Look(p)
  <2>1. CASE Goto(p, "refused")
    <3>1. proc' = [proc EXCEPT ![p] = [Blank EXCEPT !.pc = "refused"]]
      BY <1>0, <2>1
    <3> QED
      BY <3>1, EndMoves
  <2>2. CASE Goto(p, IF p \in Children THEN "adopt" ELSE "create")
    BY <1>0, <1>2, <2>2 DEF Look
  <2> QED
    BY <1>2, <2>1, <2>2 DEF Look
<1>3. CASE Recheck(p)
  BY <1>0, <1>3 DEF Recheck
<1>4. CASE WriteLease(p)
  BY <1>0, <1>4 DEF WriteLease
<1>6. CASE Create(p)
  BY <1>0, <1>6 DEF Create, Mine, Owned
<1>7. CASE Inspect(p)
  <2>1. CASE Goto(p, "reclaim")
    BY <1>0, <1>7, <2>1 DEF Inspect
  <2>2. CASE Become(p, Refused(p))
    BY <1>0, <1>7, <2>2, RefusalMoves DEF Inspect
  <2> QED
    BY <1>7, <2>1, <2>2 DEF Inspect
<1>9. CASE Adopt(p)
  BY <1>0, <1>9 DEF Adopt
<1>10. CASE AdoptWrite(p)
  BY <1>0, <1>10 DEF AdoptWrite
<1>15. CASE Unpark(p)
  <2> DEFINE r == [proc[p] EXCEPT !.pc = proc[p].then, !.parked = NoClaim]
  <2>1. Become(p, r) /\ r \in Process
    BY <1>0, <1>15 DEF Unpark
  <2>2. CASE r.pc \in Ended
    <3>1. proc' = [proc EXCEPT ![p] = [Blank EXCEPT !.pc = r.pc]]
      BY <2>1, <2>2
    <3> QED
      BY <2>2, <3>1, EndMoves
  <2>3. CASE r.pc \notin Ended
    <3>1. Sound(p, r)
      BY <1>0, <1>15, <2>1, <2>3 DEF Unpark
    <3>2. proc' = [proc EXCEPT ![p] = r]
      BY <2>1, <2>3
    <3>3. r.nonce = proc[p].nonce /\ r.parent = proc[p].parent /\ r.pc # "idle" /\ proc[p].pc = "unpark"
      BY <1>0, <1>15 DEF Unpark
    <3> HIDE DEF r
    <3> QED
      BY <1>0, <2>1, <3>1, <3>2, <3>3
  <2> QED
    BY <2>2, <2>3
<1>16. CASE BeatCheck(p)
  BY <1>0, <1>16 DEF BeatCheck
<1>17. CASE BeatWrite(p)
  BY <1>0, <1>17 DEF BeatWrite
<1>18. CASE Crash(p)
  <2>1. Goto(p, "crashed")
    BY <1>18 DEF Crash
  <2>2. proc' = [proc EXCEPT ![p] = [Blank EXCEPT !.pc = "crashed"]]
    BY <1>0, <2>1
  <2> QED
    BY <2>2, EndMoves
<1> QED
  BY <1>1, <1>2, <1>3, <1>4, <1>5, <1>6, <1>7, <1>8, <1>9, <1>10, <1>11, <1>12, <1>13, <1>14, <1>15, <1>16, <1>17, <1>18 DEF Proceed, Beat

\* The handoff is the one step of two processes.
LEMMA HandoffKeepsStructure ==
    ASSUME Structure, NEW p \in Pids, Handoff(p)
    PROVE  Structure'
<1>0. /\ proc \in [Pids -> Process] /\ proc[p] \in Process /\ Sound(p, proc[p])
      /\ At(p, "handoff") /\ p \in Parents /\ proc[p].nonce[1] # Ghost
  BY DEF Structure, Handoff, Sound, At, Ended
<1>1. CASE proc' = [proc EXCEPT ![p].pc = "wait", ![p].beat = "off", ![p].child = Ghost]
  <2>1. Moves(p)
    <3> DEFINE s == [proc[p] EXCEPT !.pc = "wait", !.beat = "off", !.child = Ghost]
    <3>1. s \in Process
      BY <1>0 DEF Process, PCs
    <3>2. /\ s.pc = "wait" /\ s.beat = "off" /\ s.nonce = proc[p].nonce /\ s.parent = proc[p].parent
          /\ s.spawns = proc[p].spawns
      BY <1>0 DEF Process
    <3>3. proc' = [proc EXCEPT ![p] = s]
      BY <1>0, <1>1
    <3> HIDE DEF s
    <3>4. Sound(p, s)
      BY <1>0, <3>1, <3>2 DEF Sound, Ended
    <3> QED
      BY <1>0, <3>2, <3>3, <3>4, UpdateMoves DEF At, Ended
  <2> QED
    BY <2>1, MovesKeepStructure
<1>2. ASSUME NEW c \in Children, At(c, "idle"),
             proc' = [proc EXCEPT ![p].pc = "wait", ![p].beat = "off", ![p].child = c,
                                  ![c].pc = "look", ![c].parent = p, ![c].nonce = proc[p].nonce]
      PROVE  Structure'
  <2>1. c \in Pids /\ c # p /\ proc[c] = Blank /\ Sound(c, Blank) /\ proc[c] \in Process
    BY <1>0, <1>2, RolesAssumption DEF Structure, Sound, At, Pids, Workers
  <2>2. /\ proc'[p] = [proc[p] EXCEPT !.pc = "wait", !.beat = "off", !.child = c]
        /\ proc'[c] = [proc[c] EXCEPT !.pc = "look", !.parent = p, !.nonce = proc[p].nonce]
        /\ \A q \in Pids : q # p /\ q # c => proc'[q] = proc[q]
    BY <1>0, <1>2, <2>1
  <2>3. proc'[p] \in Process /\ Sound(p, proc'[p])
    <3> DEFINE r == [proc[p] EXCEPT !.pc = "wait", !.beat = "off", !.child = c]
    <3>1. r \in Process
      BY <1>0, <1>2 DEF Process, PCs
    <3>2. /\ r.pc = "wait" /\ r.beat = "off" /\ r.nonce = proc[p].nonce /\ r.parent = proc[p].parent
          /\ r.spawns = proc[p].spawns
      BY <1>0 DEF Process
    <3>3. proc'[p] = r
      BY <2>2
    <3> HIDE DEF r
    <3>4. Sound(p, r)
      BY <1>0, <3>1, <3>2 DEF Sound, Ended
    <3> QED
      BY <3>1, <3>3, <3>4
  <2>4. proc'[c] \in Process /\ Sound(c, proc'[c])
    <3> DEFINE r == [Blank EXCEPT !.pc = "look", !.parent = p, !.nonce = proc[p].nonce]
    <3>0. Blank \in Process /\ proc[p].nonce \in Nonces
      BY <1>0, <2>1 DEF Process
    <3>1. r \in Process
      BY <1>0, <3>0 DEF Process, PCs
    <3>2. /\ r.pc = "look" /\ r.beat = "off" /\ r.nonce = proc[p].nonce /\ r.spawns = Blank.spawns
          /\ Blank.pc = "idle"
      BY DEF Blank
    <3>3. proc'[c] = r
      BY <2>1, <2>2
    <3>4. Blank.spawns = 0
      BY DEF Blank
    <3>5. 0 < MaxSpawns
      BY <1>0, RolesAssumption DEF Sound, At
    <3> HIDE DEF r
    <3>6. Sound(c, r)
      BY <1>0, <3>1, <3>2, <3>4, <3>5 DEF Sound, Ended
    <3> QED
      BY <3>1, <3>3, <3>6
  <2>5. proc' \in [Pids -> Process] /\ \A q \in Pids : Sound(q, proc'[q])
    BY <1>0, <1>2, <2>1, <2>2, <2>3, <2>4 DEF Structure
  <2>6. /\ proc'[p].nonce = proc[p].nonce /\ Family(p, c)' /\ proc'[p].parent = proc[p].parent
        /\ proc'[c].nonce = proc[p].nonce /\ proc'[c].parent = p
    BY <1>0, <2>1, <2>2 DEF Process, Family, At
  <2>7. \A q, r \in Pids : Family(q, r) /\ r # c => Family(q, r)'
    BY <1>0, <2>1, <2>2, RolesAssumption DEF Family, At, Process, Blank
  <2>8. proc[p].nonce[1] = p
    BY <1>0, RolesAssumption DEF Structure, NonceOrigin
  <2>9. NonceOrigin'
    <3> SUFFICES ASSUME NEW q \in Pids, proc'[q].nonce[1] \notin {Ghost, q}
                 PROVE  (/\ q \in Children /\ proc[q].nonce[1] = proc[q].parent
                         /\ proc[q].parent \in Parents
                         /\ proc[proc[q].parent].pc \in Ended \/ Family(proc[q].parent, q))'
      BY DEF NonceOrigin
    <3>1. CASE q = c
      BY <1>0, <2>6, <2>8, <3>1 DEF Family, At
    <3>2. CASE q # c
      <4>1. proc'[q].nonce = proc[q].nonce /\ proc'[q].parent = proc[q].parent
        BY <2>2, <2>6, <3>2
      <4>2. PICK P \in Parents :
              /\ q \in Children /\ proc[q].nonce[1] = P /\ proc[q].parent = P
              /\ proc[P].pc \in Ended \/ Family(P, q)
        BY <4>1 DEF Structure, NonceOrigin
      <4>3. P \in Pids
        BY DEF Pids
      <4>4. proc'[P].pc \in Ended \/ Family(P, q)'
        BY <1>0, <1>2, <2>1, <2>2, <2>7, <3>2, <4>2, <4>3 DEF At, Ended
      <4> QED
        BY <4>1, <4>2, <4>4 DEF Family, At
    <3> QED
      BY <3>1, <3>2
  <2>10. NonceUnique'
    <3>1. ASSUME NEW q \in Pids, NEW r \in Pids, q # r, q # c, r # c,
                 proc'[q].nonce = proc'[r].nonce, proc'[q].nonce[1] # Ghost
          PROVE  Family(q, r)' \/ Family(r, q)'
      <4>1. proc'[q].nonce = proc[q].nonce /\ proc'[r].nonce = proc[r].nonce
        BY <2>2, <2>6, <3>1
      <4> QED
        BY <2>7, <3>1, <4>1 DEF Structure, NonceUnique
    <3>2. ASSUME NEW q \in Pids, q # c, q # p, proc'[q].nonce = proc'[c].nonce
          PROVE  FALSE
      <4>1. proc[q].nonce = proc[p].nonce
        BY <2>2, <2>6, <3>2
      <4>2. Family(p, q) \/ Family(q, p)
        BY <1>0, <3>2, <4>1 DEF Structure, NonceUnique
      <4> QED
        BY <1>0, <3>2, <4>2, RolesAssumption DEF Structure, Family, At, Process
    <3> QED
      BY <2>6, <3>1, <3>2 DEF NonceUnique
  <2> QED
    BY <2>5, <2>9, <2>10 DEF Structure
<1> QED
  BY <1>1, <1>2 DEF Handoff

LEMMA StepKeepsStructure ==
    ASSUME TypeOK, Structure, [Next]_vars
    PROVE  TypeOK' /\ Structure'
<1>1. Structure'
  <2>1. CASE UNCHANGED vars
    BY <2>1 DEF vars, Structure, NonceOrigin, NonceUnique, Family, At
  <2>2. ASSUME NEW p \in Pids, RefreshLease(p)
        PROVE  Structure'
    BY <2>2 DEF RefreshLease, Structure, NonceOrigin, NonceUnique, Family, At
  <2>3. ASSUME NEW p \in Pids, Handoff(p)
        PROVE  Structure'
    BY <2>3, HandoffKeepsStructure
  <2>4. ASSUME NEW p \in Pids, Launch(p) \/ Beat(p) \/ Crash(p) \/ (Proceed(p) /\ ~Handoff(p))
        PROVE  Structure'
    BY <2>4, StepMoves, MovesKeepStructure
  <2> QED
    BY <2>1, <2>2, <2>3, <2>4 DEF Next
<1>2. ASSUME NEW p \in Pids, Launch(p) \/ Proceed(p) \/ Beat(p) \/ RefreshLease(p) \/ Crash(p)
      PROVE  (/\ claim \in Claims \cup {NoClaim} /\ lease \in Workers \cup {Ghost}
              /\ gone \in BOOLEAN /\ crashes \in 0 .. MaxCrashes /\ exposed \in BOOLEAN)'
  <2>0. /\ Sound(p, proc[p]) /\ proc[p] \in Process
        /\ [nonce |-> proc[p].nonce, owner |-> p] \in Claims
    BY DEF Structure, Process, Claims
  <2> USE DEF TypeOK
  <2>1. CASE Launch(p) \/ Look(p) \/ Recheck(p) \/ Inspect(p) \/ Handoff(p) \/ Adopt(p)
             \/ Supervise(p) \/ Watch(p) \/ Clear(p) \/ BeatCheck(p)
    BY <2>1 DEF Launch, Look, Recheck, Inspect, Handoff, Adopt, Supervise, Watch, Clear, BeatCheck
  <2>2. CASE WriteLease(p) \/ RefreshLease(p) \/ Finish(p)
    BY <2>0, <2>2 DEF WriteLease, RefreshLease, Finish, InCharge, Sound, At
  <2>3. CASE Create(p)
    <3>1. Mine(p) \in Claims
      BY <2>0, <2>3, RolesAssumption DEF Create, Sound, Process, Mine, Claims, Nonces, At
    <3> QED
      BY <2>3, <3>1 DEF Create
  <2>4. CASE Reclaim(p) \/ Park(p)
    BY <2>4 DEF Reclaim, Park, Exposes
  <2>5. CASE BeatWrite(p) \/ AdoptWrite(p)
    BY <2>0, <2>5 DEF BeatWrite, AdoptWrite, Exposes
  <2>6. CASE Unpark(p)
    BY <2>0, <2>6 DEF Unpark, Exposes, Process
  <2>7. CASE Crash(p)
    BY <2>7, RolesAssumption DEF Crash
  <2> QED
    BY <1>2, <2>1, <2>2, <2>3, <2>4, <2>5, <2>6, <2>7 DEF Proceed, Beat
<1>3. TypeOK'
  BY <1>1, <1>2 DEF Next, TypeOK, vars, Structure
<1> QED
  BY <1>1, <1>3

-----------------------------------------------------------------------------
(* Whose claim is on disk.                                                 *)

\* A launch between its acquisition and the end of its custody.
Holds(p) == proc[p].pc \in {"recheck", "lease", "handoff"} \/ proc[p].beat # "off"

HolderOnDisk ==
    ~exposed => \A p \in Pids : Holds(p) => claim = [nonce |-> proc[p].nonce, owner |-> p]

\* What p may do to the claim of another process without exposing it: nothing.
LEMMA OthersExpose ==
    ASSUME Structure, HolderOnDisk, ~exposed, NEW p \in Pids, NEW q \in Pids, p # q, Holds(q),
           ~At(p, "wait")
    PROVE  Exposes(p)
<1>1. /\ claim = [nonce |-> proc[q].nonce, owner |-> q]
      /\ proc[q].pc \in {"recheck", "lease", "handoff", "clear"}
      /\ proc[q].nonce[1] # Ghost
  BY DEF HolderOnDisk, Holds, Structure, Sound, Ended
<1>2. proc[p].nonce # proc[q].nonce
  BY <1>1 DEF Structure, NonceUnique, Family, At
<1>3. claim # NoClaim /\ claim.owner = q /\ claim.nonce = proc[q].nonce
  BY <1>1, NoClaimAssumption DEF Structure, Process, Claims
<1> QED
  BY <1>1, <1>2, <1>3 DEF Exposes, Alive, Ended

LEMMA HolderStep ==
    ASSUME TypeOK, Structure, HolderOnDisk, [Next]_vars
    PROVE  HolderOnDisk'
<1> SUFFICES ASSUME ~exposed', NEW q \in Pids, Holds(q)'
             PROVE  claim' = [nonce |-> proc'[q].nonce, owner |-> q]
  BY DEF HolderOnDisk
<1>1. CASE UNCHANGED vars
  BY <1>1 DEF vars, HolderOnDisk, Holds
<1>2. ASSUME NEW p \in Pids, Handoff(p)
      PROVE  claim' = [nonce |-> proc'[q].nonce, owner |-> q]
  <2>1. proc'[q] = proc[q] \/ ~Holds(q)'
    <3>0. proc \in [Pids -> Process] /\ proc[p] \in Process /\ proc[q] \in Process
      BY DEF Structure
    <3>1. CASE proc' = [proc EXCEPT ![p].pc = "wait", ![p].beat = "off", ![p].child = Ghost]
      <4>1. q # p => proc'[q] = proc[q]
        BY <3>0, <3>1
      <4>2. proc'[p].pc = "wait" /\ proc'[p].beat = "off"
        BY <3>0, <3>1 DEF Process
      <4> QED
        BY <4>1, <4>2 DEF Holds
    <3>2. ASSUME NEW c \in Children, At(c, "idle"),
                 proc' = [proc EXCEPT ![p].pc = "wait", ![p].beat = "off", ![p].child = c,
                                      ![c].pc = "look", ![c].parent = p, ![c].nonce = proc[p].nonce]
          PROVE  proc'[q] = proc[q] \/ ~Holds(q)'
      <4>1. c \in Pids /\ c # p /\ proc[c].beat = "off" /\ proc[c] \in Process
        BY <1>2, <3>2 DEF Structure, Sound, At, Blank, Pids, Workers, Handoff
      <4>2. q # p /\ q # c => proc'[q] = proc[q]
        BY <3>0, <3>2, <4>1
      <4>3. proc'[p].pc = "wait" /\ proc'[p].beat = "off"
        BY <3>0, <3>2, <4>1 DEF Process
      <4>4. proc'[c].pc = "look" /\ proc'[c].beat = "off"
        BY <3>0, <3>2, <4>1 DEF Process
      <4> QED
        BY <4>2, <4>3, <4>4, SMTT(30) DEF Holds
    <3> QED
      BY <1>2, <3>1, <3>2 DEF Handoff
  <2>2. claim' = claim /\ exposed' = exposed
    BY <1>2 DEF Handoff
  <2>3. proc'[q] = proc[q] /\ Holds(q)
    BY <2>1 DEF Holds
  <2> QED
    BY <2>2, <2>3, SMTT(30) DEF HolderOnDisk
<1>3. ASSUME NEW p \in Pids, Launch(p) \/ Beat(p) \/ Crash(p) \/ (Proceed(p) /\ ~Handoff(p)),
             p # q
      PROVE  claim' = [nonce |-> proc'[q].nonce, owner |-> q]
  <2>1. proc'[q] = proc[q] /\ Holds(q)
    BY <1>3, StepMoves DEF Moves, Holds
  <2>2. ~exposed
    BY <1>3 DEF Launch, Beat, BeatCheck, BeatWrite, Crash, Proceed, Look, Recheck, WriteLease, Finish, Create,
            Inspect, Reclaim, Adopt, AdoptWrite, Supervise, Watch, Clear, Park, Unpark
  <2>3. claim = [nonce |-> proc[q].nonce, owner |-> q]
    BY <2>1, <2>2 DEF HolderOnDisk
  <2>4. At(p, "wait") \/ Exposes(p)
    BY <1>3, <2>1, <2>2, OthersExpose
  <2>5. claim' = claim
    <3>1. claim # NoClaim
      BY <2>3, NoClaimAssumption DEF Structure, Process, Claims
    <3>2. CASE Reclaim(p) \/ Park(p) \/ Unpark(p) \/ AdoptWrite(p)
      BY <2>4, <3>2 DEF Reclaim, Park, Unpark, AdoptWrite, At
    <3>3. CASE BeatWrite(p)
      BY <2>4, <3>3 DEF BeatWrite, At, Structure, Sound
    <3>4. CASE Create(p)
      BY <3>1, <3>4 DEF Create
    <3> QED
      BY <1>3, <3>2, <3>3, <3>4 DEF Launch, Beat, BeatCheck, Crash, Proceed, Look, Recheck, WriteLease,
              Finish, Inspect, Adopt, Supervise, Watch, Clear
  <2> QED
    BY <2>1, <2>3, <2>5
<1>4. ASSUME Launch(q) \/ Beat(q) \/ Crash(q) \/ (Proceed(q) /\ ~Handoff(q))
      PROVE  claim' = [nonce |-> proc'[q].nonce, owner |-> q]
  <2>0. proc \in [Pids -> Process] /\ proc[q] \in Process /\ Sound(q, proc[q])
    BY DEF Structure
  <2>1. CASE Create(q)
    BY <2>0, <2>1 DEF Create, Mine, Process, Holds, Goto, Become, Sound, Ended, At, Owned
  <2>2. CASE AdoptWrite(q)
    BY <2>0, <2>2 DEF AdoptWrite, Process
  <2>3. CASE BeatWrite(q)
    BY <2>0, <2>3 DEF BeatWrite, Process
  <2>4. CASE BeatCheck(q)
    BY <2>0, <2>4 DEF BeatCheck, HolderOnDisk, Holds, Process, Goto, Become, At, Ended
  <2>5. CASE Recheck(q)
    BY <2>0, <2>5 DEF Recheck, HolderOnDisk, Holds, Process, Goto, Become, At, Ended
  <2>6. CASE WriteLease(q)
    BY <2>0, <2>6 DEF WriteLease, HolderOnDisk, Holds, Process, Goto, Become, At, Ended
  <2>7. /\ proc[q].pc \notin {"recheck", "lease", "handoff", "clear"} => proc[q].beat = "off"
        /\ Blank.beat = "off" /\ Blank.pc = "idle"
    BY <2>0 DEF Sound, Blank
  <2>8. CASE Launch(q)
    BY <2>0, <2>7, <2>8 DEF Launch, Holds, Goto, Become, Refused, Process, At, Ended, Blank
  <2>9. CASE Look(q)
    BY <2>0, <2>7, <2>9 DEF Look, Holds, Goto, Become, Refused, Process, At, Ended, Blank
  <2>10. CASE Inspect(q)
    <3>1. proc[q].pc = "inspect" /\ proc[q].beat = "off"
      BY <2>7, <2>10 DEF Inspect, At
    <3>2. CASE Goto(q, "reclaim")
      BY <2>0, <3>1, <3>2 DEF Goto, Become, Holds, Process, Ended
    <3>3. CASE Become(q, Refused(q))
      BY <2>0, <2>7, <3>1, <3>3 DEF Become, Refused, Holds, Process, Ended, Blank
    <3> QED
      BY <2>10, <3>2, <3>3 DEF Inspect
  <2>11. CASE Adopt(q)
    BY <2>0, <2>7, <2>11 DEF Adopt, Holds, Goto, Become, Refused, Process, At, Ended, Blank
  <2>12. CASE Watch(q)
    BY <2>0, <2>7, <2>12 DEF Watch, Holds, Goto, Become, Refused, Process, At, Ended, Blank
  <2>13. CASE Supervise(q)
    BY <2>0, <2>7, <2>13 DEF Supervise, Holds, Goto, Become, Refused, Process, At, Ended, Blank
  <2>14. CASE Finish(q)
    BY <2>0, <2>7, <2>14 DEF Finish, Holds, Goto, Become, Refused, Process, At, Ended, Blank
  <2>15. CASE Crash(q)
    BY <2>0, <2>7, <2>15 DEF Crash, Holds, Goto, Become, Refused, Process, At, Ended, Blank
  <2>16. CASE Reclaim(q)
    BY <2>0, <2>7, <2>16 DEF Reclaim, Holds, Goto, Become, Refused, Process, At, Ended, Blank
  <2>17. CASE Clear(q)
    BY <2>0, <2>7, <2>17 DEF Clear, Holds, Goto, Become, Refused, Process, At, Ended, Blank
  <2>18. CASE Park(q)
    BY <2>0, <2>7, <2>18 DEF Park, Holds, Goto, Become, Refused, Process, At, Ended, Blank
  <2>19. CASE Unpark(q)
    BY <2>0, <2>7, <2>19 DEF Unpark, Holds, Goto, Become, Refused, Process, At, Ended, Blank
  <2> QED
    BY <1>4, <2>1, <2>2, <2>3, <2>4, <2>5, <2>6, <2>8, <2>9,
       <2>10, <2>11, <2>12, <2>13, <2>14, <2>15, <2>16, <2>17, <2>18, <2>19 DEF Beat, Proceed
<1>5. ASSUME NEW p \in Pids, RefreshLease(p)
      PROVE  claim' = [nonce |-> proc'[q].nonce, owner |-> q]
  BY <1>5 DEF RefreshLease, HolderOnDisk, Holds
<1> QED
  BY <1>1, <1>2, <1>3, <1>4, <1>5 DEF Next

ClaimInv == TypeOK /\ Structure /\ HolderOnDisk

LEMMA ClaimInit == Init => ClaimInv
<1> SUFFICES ASSUME Init
             PROVE  ClaimInv
  OBVIOUS
<1>1. Structure
  BY StructureInit
<1>2. TypeOK
  <2>1. [nonce |-> <<Ghost, 0>>, owner |-> Ghost] \in Claims
    BY RolesAssumption DEF Claims, Nonces
  <2>2. proc \in [Pids -> Process]
    BY <1>1 DEF Structure
  <2>3. 0 \in 0 .. MaxCrashes
    BY RolesAssumption
  <2>4. gone \in BOOLEAN /\ claim \in Claims \cup {NoClaim} /\ lease = Ghost /\ crashes = 0 /\ exposed = FALSE
    BY <2>1 DEF Init
  <2> QED
    BY <2>2, <2>3, <2>4 DEF TypeOK
<1>3. HolderOnDisk
  BY DEF Init, HolderOnDisk, Holds, Blank
<1> QED
  BY <1>1, <1>2, <1>3 DEF ClaimInv

LEMMA ClaimStep == ClaimInv /\ [Next]_vars => ClaimInv'
BY StepKeepsStructure, HolderStep DEF ClaimInv

\* The files and the processes keep their types, and a supervisor its budget
\* (retry.rs, MAX_CONSECUTIVE_FAILURES).
THEOREM ClaimTypeCorrect == Spec => []TypeOK
<1>1. ClaimInv => TypeOK
  BY DEF ClaimInv
<1> QED
  BY <1>1, ClaimInit, ClaimStep, PTL DEF Spec

\* Who goes on to spawn or to start a worker has its claim on disk, as long as
\* nobody moves a live claim (acquire, adopt, handoff in control.rs).
THEOREM LaunchesAreClaimed == Spec => []LaunchIsClaimed
<1>1. ClaimInv => LaunchIsClaimed
  BY NoClaimAssumption DEF ClaimInv, HolderOnDisk, Holds, LaunchIsClaimed, Structure, Process, Claims
<1> QED
  BY <1>1, ClaimInit, ClaimStep, PTL DEF Spec

-----------------------------------------------------------------------------
(* One worker.                                                             *)

\* A worker about to write its lease is the first.
NobodyInCharge ==
    ~exposed => \A p, q \in Pids : At(q, "lease") => ~InCharge(p)

WorkerInv == ClaimInv /\ LeaseNamesWorker /\ NobodyInCharge

LEMMA WorkerInit == Init => WorkerInv
<1> SUFFICES ASSUME Init
             PROVE  WorkerInv
  OBVIOUS
<1>1. \A p \in Pids : proc[p].pc = "idle"
  BY DEF Init, Blank
<1> QED
  BY <1>1, ClaimInit DEF WorkerInv, LeaseNamesWorker, NobodyInCharge, InCharge, At, Workers, Pids

\* Which steps touch the claim file, and that none of them forgets an exposure.
LEMMA FileSteps ==
    ASSUME NEW p \in Pids, Launch(p) \/ Proceed(p) \/ Beat(p) \/ RefreshLease(p) \/ Crash(p)
    PROVE  /\ exposed => exposed'
           /\ \/ claim' = claim
              \/ (Reclaim(p) \/ Park(p)) /\ claim' = NoClaim
              \/ Create(p) \/ BeatWrite(p) \/ AdoptWrite(p) \/ Unpark(p)
<1>1. CASE Launch(p) \/ RefreshLease(p) \/ Crash(p) \/ BeatCheck(p)
  BY <1>1 DEF Launch, RefreshLease, Crash, BeatCheck
<1>2. CASE Look(p) \/ Recheck(p)
  BY <1>2 DEF Look, Recheck
<1>8. CASE WriteLease(p)
  BY <1>8 DEF WriteLease
<1>9. CASE Finish(p)
  BY <1>9 DEF Finish
<1>2a. CASE Inspect(p)
  BY <1>2a DEF Inspect
<1>2b. CASE Handoff(p)
  BY <1>2b DEF Handoff
<1>3. CASE Adopt(p)
  BY <1>3 DEF Adopt
<1>4. CASE Supervise(p) \/ Watch(p) \/ Clear(p)
  BY <1>4 DEF Supervise, Watch, Clear
<1>5. CASE Reclaim(p) \/ Park(p)
  BY <1>5 DEF Reclaim, Park
<1>6. CASE Create(p) \/ BeatWrite(p) \/ AdoptWrite(p)
  <2>1. CASE Create(p)
    BY <2>1 DEF Create
  <2>2. CASE BeatWrite(p)
    BY <2>2 DEF BeatWrite
  <2>3. CASE AdoptWrite(p)
    BY <2>3 DEF AdoptWrite
  <2> QED
    BY <1>6, <2>1, <2>2, <2>3
<1>7. CASE Unpark(p)
  BY <1>7 DEF Unpark
<1> QED
  BY <1>1, <1>2, <1>2a, <1>2b, <1>3, <1>4, <1>5, <1>6, <1>7, <1>8, <1>9 DEF Proceed, Beat

LEMMA ExposedStays ==
    ASSUME [Next]_vars, exposed
    PROVE  exposed'
BY FileSteps DEF Next, vars

\* The only way to take charge is to write the lease, and the only way to that
\* is the second check.
LEMMA TakingCharge ==
    ASSUME ClaimInv, [Next]_vars, NEW p \in Pids
    PROVE  /\ InCharge(p)' /\ ~InCharge(p) => WriteLease(p) /\ lease' = p /\ ~gone'
           /\ At(p, "lease")' /\ ~At(p, "lease") => Recheck(p)
<1>0. proc \in [Pids -> Process] /\ proc[p] \in Process /\ Sound(p, proc[p])
  BY DEF ClaimInv, Structure
<1>a. ASSUME NEW r \in Pids, RefreshLease(r) \/ (r # p /\ ~Handoff(r) /\ (Launch(r) \/ Proceed(r) \/ Beat(r) \/ Crash(r)))
      PROVE  proc'[p] = proc[p]
  BY <1>a, StepMoves DEF ClaimInv, Moves, RefreshLease
<1> DEFINE Goal == /\ InCharge(p)' /\ ~InCharge(p) => WriteLease(p) /\ lease' = p /\ ~gone'
                   /\ At(p, "lease")' /\ ~At(p, "lease") => Recheck(p)
<1>b. proc'[p] = proc[p] => Goal
  BY SMTT(30) DEF InCharge, At
<1>c. ASSUME NEW r \in Pids, Handoff(r)
      PROVE  Goal
  <2>0. proc[r] \in Process /\ At(r, "handoff") /\ r \notin Workers
    BY <1>c, RolesAssumption DEF ClaimInv, Structure, Sound, Handoff, At, Workers
  <2>1. CASE proc' = [proc EXCEPT ![r].pc = "wait", ![r].beat = "off", ![r].child = Ghost]
    <3>1. CASE p = r
      <4>1. proc'[p].pc = "wait"
        BY <1>0, <2>1, <3>1 DEF Process
      <4> QED
        BY <4>1 DEF InCharge, At
    <3>2. CASE p # r
      BY <1>0, <1>b, <2>1, <3>2
    <3> QED
      BY <3>1, <3>2
  <2>2. ASSUME NEW c \in Children, At(c, "idle"),
               proc' = [proc EXCEPT ![r].pc = "wait", ![r].beat = "off", ![r].child = c,
                                    ![c].pc = "look", ![c].parent = r, ![c].nonce = proc[r].nonce]
        PROVE  Goal
    <3>1. c # r /\ c \in Pids /\ proc[c] \in Process
      BY <1>0, <2>0, <2>2 DEF Workers, Pids
    <3>2. CASE p = r
      <4>1. proc'[p].pc = "wait"
        BY <1>0, <2>2, <3>1, <3>2 DEF Process
      <4> QED
        BY <4>1 DEF InCharge, At
    <3>3. CASE p = c
      <4>1. proc'[p].pc = "look"
        BY <1>0, <2>2, <3>1, <3>3 DEF Process
      <4> QED
        BY <4>1 DEF InCharge, At
    <3>4. CASE p # r /\ p # c
      BY <1>0, <1>b, <2>2, <3>4
    <3> QED
      BY <3>2, <3>3, <3>4
  <2> QED
    BY <1>c, <2>1, <2>2 DEF Handoff
<1>d. Blank.pc = "idle" /\ Blank.then = "refused"
  BY DEF Blank
<1> USE DEF InCharge, At, Goto, Become, Process, Ended
<1>1. CASE Launch(p)
  BY <1>0, <1>d, <1>1 DEF Launch
<1>2. CASE Look(p)
  <2>1. CASE Goto(p, "refused")
    BY <1>0, <1>d, <2>1
  <2>2. CASE Goto(p, IF p \in Children THEN "adopt" ELSE "create")
    <3>1. CASE p \in Children
      BY <1>0, <1>d, <2>2, <3>1
    <3>2. CASE p \notin Children
      BY <1>0, <1>d, <2>2, <3>2
    <3> QED
      BY <3>1, <3>2
  <2> QED
    BY <1>2, <2>1, <2>2 DEF Look
<1>3. CASE Recheck(p)
  BY <1>0, <1>d, <1>3 DEF Recheck
<1>4. CASE WriteLease(p)
  BY <1>0, <1>d, <1>4 DEF WriteLease
<1>5. CASE Finish(p)
  BY <1>0, <1>d, <1>5 DEF Finish
<1>6. CASE Create(p)
  BY <1>0, <1>d, <1>6 DEF Create, Mine, Owned
<1>7. CASE Inspect(p)
  <2>1. CASE Goto(p, "reclaim")
    BY <1>0, <1>d, <2>1
  <2>2. CASE Become(p, Refused(p))
    BY <1>0, <1>d, <2>2 DEF Refused
  <2> QED
    BY <1>7, <2>1, <2>2 DEF Inspect
<1>8. CASE Reclaim(p)
  BY <1>0, <1>d, <1>8 DEF Reclaim, Refused
<1>9. CASE Adopt(p)
  BY <1>0, <1>d, <1>9 DEF Adopt
<1>10. CASE AdoptWrite(p)
  BY <1>0, <1>d, <1>10 DEF AdoptWrite
<1>11. CASE Supervise(p)
  BY <1>0, <1>d, <1>11 DEF Supervise
<1>12. CASE Watch(p)
  <2>1. CASE Goto(p, "finished")
    BY <1>0, <1>d, <2>1
  <2>2. CASE proc' = [proc EXCEPT ![p].pc = "clear", ![p].then = "refused"]
    BY <1>0, <2>2
  <2> QED
    BY <1>12, <2>1, <2>2 DEF Watch
<1>13. CASE Clear(p)
  BY <1>0, <1>d, <1>13 DEF Clear
<1>14. CASE Park(p)
  BY <1>0, <1>d, <1>14 DEF Park
<1>15. CASE Unpark(p)
  BY <1>0, <1>d, <1>15 DEF Unpark
<1>16. CASE BeatCheck(p)
  BY <1>0, <1>d, <1>16 DEF BeatCheck
<1>17. CASE BeatWrite(p)
  BY <1>0, <1>d, <1>17 DEF BeatWrite
<1>18. CASE Crash(p)
  BY <1>0, <1>d, <1>18 DEF Crash
<1>e. CASE Launch(p) \/ Beat(p) \/ Crash(p) \/ (Proceed(p) /\ ~Handoff(p))
  BY <1>e, <1>1, <1>2, <1>3, <1>4, <1>5, <1>6, <1>7, <1>8, <1>9, <1>10, <1>11, <1>12, <1>13, <1>14, <1>15, <1>16, <1>17, <1>18 DEF Proceed, Beat
<1> QED
  BY <1>a, <1>b, <1>c, <1>e DEF Next, vars

LEMMA WorkerStep ==
    ASSUME ~Forced, WorkerInv, [Next]_vars
    PROVE  WorkerInv'
<1>1. ClaimInv'
  BY ClaimStep DEF WorkerInv
<1>2. LeaseNamesWorker'
  <2> SUFFICES ASSUME ~exposed', NEW p \in Workers, InCharge(p)', InCharge(p)
               PROVE  ~gone' /\ lease' = p
    BY TakingCharge DEF WorkerInv, LeaseNamesWorker, Pids
  <2>1. p \in Pids /\ ~exposed /\ ~gone /\ lease = p
    BY ExposedStays DEF WorkerInv, LeaseNamesWorker, Pids
  <2>2. ASSUME NEW r \in Pids, WriteLease(r)
        PROVE  ~gone' /\ lease' = p
    BY <2>1, <2>2 DEF WriteLease, WorkerInv, NobodyInCharge
  <2>3. ASSUME NEW r \in Pids, RefreshLease(r)
        PROVE  ~gone' /\ lease' = p
    BY <2>1, <2>3 DEF RefreshLease, WorkerInv, LeaseNamesWorker, InCharge
  <2>4. ASSUME NEW r \in Pids, Finish(r)
        PROVE  ~gone' /\ lease' = p
    <3>1. r # p
      BY <2>1, <2>4 DEF Finish, InCharge, At, WorkerInv, ClaimInv, Structure, Process
    <3> QED
      BY <2>1, <2>4, <3>1 DEF Finish
  <2>5. \/ \E r \in Pids : WriteLease(r) \/ RefreshLease(r) \/ Finish(r)
        \/ UNCHANGED <<lease, gone>>
    <3>1. ASSUME NEW r \in Pids, Launch(r) \/ Beat(r) \/ Crash(r)
          PROVE  UNCHANGED <<lease, gone>>
      BY <3>1 DEF Launch, Beat, BeatCheck, BeatWrite, Crash
    <3>2. ASSUME NEW r \in Pids, Proceed(r), ~WriteLease(r), ~Finish(r)
          PROVE  UNCHANGED <<lease, gone>>
      BY <3>2 DEF Proceed, Look, Recheck, Create, Inspect, Reclaim, Handoff, Adopt, AdoptWrite, Supervise,
         Watch, Clear, Park, Unpark
    <3> QED
      BY <3>1, <3>2 DEF Next, vars
  <2> QED
    BY <2>1, <2>2, <2>3, <2>4, <2>5
<1>3. NobodyInCharge'
  <2> SUFFICES ASSUME ~exposed', NEW p \in Pids, NEW q \in Pids, At(q, "lease")', InCharge(p)'
               PROVE  FALSE
    BY DEF NobodyInCharge
  <2>1. ~exposed /\ p # q
    BY ExposedStays DEF InCharge, At
  <2>2. CASE At(q, "lease") /\ InCharge(p)
    BY <2>1, <2>2 DEF WorkerInv, NobodyInCharge
  <2>3. CASE At(q, "lease") /\ ~InCharge(p)
    <3>1. At(p, "lease")
      BY <2>3, TakingCharge DEF WorkerInv, WriteLease
    <3>2. /\ claim = [nonce |-> proc[p].nonce, owner |-> p]
          /\ claim = [nonce |-> proc[q].nonce, owner |-> q]
      BY <2>1, <2>3, <3>1 DEF WorkerInv, ClaimInv, HolderOnDisk, Holds, At
    <3> QED
      BY <2>1, <3>2
  <2>4. CASE ~At(q, "lease")
    <3>1. Recheck(q)
      BY <2>4, TakingCharge DEF WorkerInv
    <3>2. InCharge(p) /\ MayPass
      <4>1. proc \in [Pids -> Process] /\ proc[q] \in Process
        BY DEF WorkerInv, ClaimInv, Structure
      <4>2. proc'[p] = proc[p]
        BY <2>1, <3>1, <4>1 DEF Recheck, Goto, Become
      <4>3. InCharge(p)
        BY <4>2 DEF InCharge, At
      <4>4. proc' # [proc EXCEPT ![q].pc = "clear", ![q].then = "refused"]
        BY <4>1 DEF At, Process
      <4> QED
        BY <3>1, <4>3, <4>4 DEF Recheck
    <3>3. ~gone /\ lease = p /\ p \in Workers
      BY <2>1, <3>2 DEF WorkerInv, LeaseNamesWorker, InCharge
    <3>4. Alive(p)
      BY <3>2, <3>3, RolesAssumption DEF Alive, InCharge, At, Ended, Workers, Parents
    <3> QED
      BY <3>2, <3>3, <3>4 DEF MayPass
  <2> QED
    BY <2>2, <2>3, <2>4
<1> QED
  BY <1>1, <1>2, <1>3 DEF WorkerInv

\* Two workers never process the job at once, as long as nobody moves a live
\* claim and no click passes --force (resume.rs, ensure_no_live_worker twice
\* with the claim held in between).
THEOREM OneWorker ==
    ASSUME ~Forced
    PROVE  Spec => []NeverDoubleRun
<1>1. WorkerInv => NeverDoubleRun
  BY DEF WorkerInv, LeaseNamesWorker, NeverDoubleRun
<1>2. WorkerInv /\ [Next]_vars => WorkerInv'
  BY WorkerStep
<1> QED
  BY <1>1, <1>2, WorkerInit, PTL DEF Spec

\* The lease is on disk and names the worker in charge, under the same two
\* conditions: a command or a click finds it (control_watcher.rs writes it before
\* the worker clears its claim).
THEOREM LeaseIsOfTheWorker ==
    ASSUME ~Forced
    PROVE  Spec => []LeaseNamesWorker
<1>1. WorkerInv => LeaseNamesWorker
  BY DEF WorkerInv
<1>2. WorkerInv /\ [Next]_vars => WorkerInv'
  BY WorkerStep
<1> QED
  BY <1>1, <1>2, WorkerInit, PTL DEF Spec

-----------------------------------------------------------------------------
(* Who clears the claim.                                                   *)

\* A claim moved aside goes back only if it is another's, whose owner is dead.
ParkedIsDead ==
    \A p \in Pids : proc[p].parked # NoClaim =>
        /\ At(p, "unpark")
        /\ ~exposed /\ proc[p].parked.nonce # proc[p].nonce => ~Alive(proc[p].parked.owner)

Custody == {"recheck", "lease", "handoff", "wait", "clear", "park"}

\* The owner itself is the custodian.
OwnerKeepsClaim ==
    ~exposed /\ claim # NoClaim /\ Alive(claim.owner) =>
        \/ claim.owner \in Clicks /\ At(claim.owner, "finished")
        \/ proc[claim.owner].pc \in Custody /\ proc[claim.owner].nonce = claim.nonce

CustodyInv == ClaimInv /\ ParkedIsDead /\ OwnerKeepsClaim

\* Nothing happens to a process that has ended, but that the dashboard of an
\* ended click may crash.
LEMMA EndedStays ==
    ASSUME ClaimInv, [Next]_vars, NEW q \in Pids, proc[q].pc \in Ended
    PROVE  proc'[q] = proc[q] \/ proc'[q].pc = "crashed"
<1>0. proc \in [Pids -> Process] /\ Sound(q, proc[q])
  BY DEF ClaimInv, Structure
<1>1. ASSUME NEW p \in Pids, Launch(p) \/ Beat(p) \/ Crash(p) \/ (Proceed(p) /\ ~Handoff(p)), p # q
      PROVE  proc'[q] = proc[q]
  BY <1>1, StepMoves DEF ClaimInv, Moves
<1>2. CASE Launch(q) \/ Beat(q) \/ Proceed(q)
  BY <1>0, <1>2 DEF Sound, Ended, At, Launch, Beat, BeatCheck, BeatWrite, Proceed, Look, Recheck, WriteLease,
     Finish, Create, Inspect, Reclaim, Handoff, Adopt, AdoptWrite, Supervise, Watch, Clear, Park, Unpark
<1>3. CASE Crash(q)
  BY <1>0, <1>3 DEF Crash, Goto, Become, Process, Ended, Blank
<1>4. ASSUME NEW p \in Pids, Handoff(p), p # q
      PROVE  proc'[q] = proc[q]
  BY <1>0, <1>4 DEF Handoff, At, Ended
<1>5. ASSUME NEW p \in Pids, RefreshLease(p)
      PROVE  proc'[q] = proc[q]
  BY <1>5 DEF RefreshLease
<1> QED
  BY <1>1, <1>2, <1>3, <1>4, <1>5 DEF Next, vars

\* Alive in the next state.
StaysAlive(p) ==
    /\ p \in Pids
    /\ IF p \in Clicks THEN proc'[p].pc # "crashed" ELSE proc'[p].pc \notin Ended

LEMMA DeadStayDead ==
    ASSUME ClaimInv, [Next]_vars, NEW o, ~Alive(o)
    PROVE  ~StaysAlive(o)
<1>1. CASE o \in Pids
  <2>1. proc[o].pc \in Ended
    BY <1>1 DEF Alive, Ended
  <2>2. proc'[o] = proc[o] \/ proc'[o].pc = "crashed"
    BY <1>1, <2>1, EndedStays
  <2> QED
    BY <1>1, <2>1, <2>2 DEF Alive, StaysAlive, Ended
<1> QED
  BY <1>1 DEF StaysAlive

LEMMA ParkedStep ==
    ASSUME CustodyInv, [Next]_vars
    PROVE  ParkedIsDead'
<1> SUFFICES ASSUME NEW q \in Pids, proc'[q].parked # NoClaim
             PROVE  /\ At(q, "unpark")'
                    /\ ~exposed' /\ proc'[q].parked.nonce # proc'[q].nonce => ~StaysAlive(proc'[q].parked.owner)
  BY DEF ParkedIsDead, Alive, StaysAlive
<1>0. /\ proc \in [Pids -> Process] /\ proc[q] \in Process /\ Sound(q, proc[q])
      /\ At(q, "unpark") \/ proc[q].parked = NoClaim
      /\ exposed => exposed'
  BY ExposedStays DEF CustodyInv, ClaimInv, Structure, ParkedIsDead
<1>1. CASE proc'[q] = proc[q]
  <2>1. /\ At(q, "unpark")
        /\ ~exposed /\ proc[q].parked.nonce # proc[q].nonce => ~Alive(proc[q].parked.owner)
    BY <1>1 DEF CustodyInv, ParkedIsDead
  <2> QED
    BY <1>0, <1>1, <2>1, DeadStayDead DEF CustodyInv, At
<1>2. CASE Park(q)
  <2>1. Exposes(q) => exposed'
    BY <1>2 DEF Park
  <2>2. /\ claim # NoClaim
        /\ proc'[q] = [proc[q] EXCEPT !.pc = "unpark", !.parked = claim]
    BY <1>0, <1>2 DEF Park, Become, Process, Blank, Ended
  <2>3. At(q, "unpark")' /\ proc'[q].parked = claim /\ proc'[q].nonce = proc[q].nonce
    BY <1>0, <2>2 DEF At, Process
  <2>4. ~exposed' /\ claim.nonce # proc[q].nonce => ~Alive(claim.owner)
    BY <2>1, <2>2 DEF Exposes
  <2> QED
    BY <2>3, <2>4, DeadStayDead DEF CustodyInv
<1>3. ASSUME ~Park(q), NEW p \in Pids, Launch(p) \/ Beat(p) \/ Crash(p) \/ Proceed(p), proc'[q] # proc[q]
      PROVE  FALSE
  <2>1. CASE p # q
    <3>1. Handoff(p)
      BY <1>3, <2>1, StepMoves DEF CustodyInv, ClaimInv, Moves
    <3>2. PICK c \in Children :
            /\ At(c, "idle")
            /\ proc' = [proc EXCEPT ![p].pc = "wait", ![p].beat = "off", ![p].child = c,
                                    ![c].pc = "look", ![c].parent = p, ![c].nonce = proc[p].nonce]
      BY <1>0, <1>3, <2>1, <3>1 DEF Handoff
    <3>3. c = q
      BY <1>0, <1>3, <2>1, <3>2
    <3>4. proc'[q].parked = proc[q].parked /\ proc[q].pc = "idle"
      BY <1>0, <2>1, <3>2, <3>3 DEF Process, At
    <3> QED
      BY <1>0, <3>4 DEF At
  <2>2. CASE p = q
    <3>0. Blank.parked = NoClaim
      BY DEF Blank
    <3>1. CASE Crash(q)
      BY <1>0, <3>0, <3>1 DEF Crash, Goto, Become, Process, Ended
    <3>a. ASSUME NEW r \in Process, Become(q, r), r.parked = NoClaim
          PROVE  FALSE
      BY <1>0, <3>0, <3>a DEF Become
    <3>b. ASSUME NEW pc \in PCs, Goto(q, pc), proc[q].pc # "unpark"
          PROVE  FALSE
      <4>1. proc[q].parked = NoClaim /\ [proc[q] EXCEPT !.pc = pc] \in Process
        BY <1>0, <3>b DEF At, Process
      <4> QED
        BY <1>0, <3>a, <3>b, <4>1 DEF Goto, Process
    <3>2. CASE Unpark(q)
      <4>1. [proc[q] EXCEPT !.pc = proc[q].then, !.parked = NoClaim] \in Process
        BY <1>0 DEF Process, PCs
      <4> QED
        BY <1>0, <3>2, <3>a, <4>1 DEF Unpark, Process
    <3>c. ASSUME Become(q, Refused(q)), proc[q].pc # "unpark"
          PROVE  FALSE
      <4>1. Refused(q) \in Process
        BY <1>0 DEF Refused, Process, PCs
      <4>2. Refused(q).parked = NoClaim
        BY <1>0, <3>c DEF Refused, At, Process
      <4> QED
        BY <3>a, <3>c, <4>1, <4>2
    <3>d. ASSUME Become(q, [proc[q] EXCEPT !.pc = "create", !.tries = 1]), proc[q].pc # "unpark"
          PROVE  FALSE
      <4>1. [proc[q] EXCEPT !.pc = "create", !.tries = 1] \in Process
        BY <1>0 DEF Process, PCs
      <4>2. [proc[q] EXCEPT !.pc = "create", !.tries = 1].parked = NoClaim
        BY <1>0, <3>d DEF At, Process
      <4> QED
        BY <3>a, <3>d, <4>1, <4>2
    <3>3. CASE Inspect(q) \/ Reclaim(q)
      BY <1>0, <3>3, <3>b, <3>c, <3>d DEF Inspect, Reclaim, At, PCs
    <3>4. CASE Launch(q) \/ Look(q) \/ Adopt(q)
      BY <1>0, <3>4, <3>b DEF Launch, Look, Adopt, At, PCs
    <3>9. CASE Watch(q)
      <4>1. CASE Goto(q, "finished")
        BY <3>9, <3>b, <4>1 DEF Watch, At, PCs
      <4>2. CASE proc' = [proc EXCEPT ![q].pc = "clear", ![q].then = "refused"]
        BY <1>0, <3>9, <4>2 DEF Watch, At, Process
      <4> QED
        BY <3>9, <4>1, <4>2 DEF Watch
    <3>5. CASE Recheck(q) \/ WriteLease(q) \/ Finish(q) \/ AdoptWrite(q) \/ Supervise(q) \/ Clear(q)
      BY <1>0, <3>0, <3>5 DEF Recheck, WriteLease, Finish, AdoptWrite, Supervise, Clear, Goto, Become, Process,
         Ended, At
    <3>6. CASE Create(q)
      <4>1. CASE Goto(q, "inspect")
        BY <3>6, <3>b, <4>1 DEF Create, At, PCs
      <4>2. CASE ~Goto(q, "inspect")
        <5>1. proc' = [proc EXCEPT ![q].pc = Owned(q), ![q].nonce = Mine(q).nonce,
                                   ![q].spawns = @ + 1, ![q].beat = "on", ![q].tries = 0]
          BY <3>6, <4>2 DEF Create
        <5> HIDE DEF Owned, Mine
        <5>2. proc'[q].pc = Owned(q) /\ proc'[q].parked = proc[q].parked
          BY <1>0, <5>1 DEF Process
        <5>3. proc[q].pc = "create"
          BY <3>6, SMTT(30) DEF Create, At
        <5> QED
          BY <1>0, <5>2, <5>3 DEF At
      <4> QED
        BY <4>1, <4>2
    <3>7. CASE Handoff(q)
      <4>1. CASE proc' = [proc EXCEPT ![q].pc = "wait", ![q].beat = "off", ![q].child = Ghost]
        BY <1>0, <3>7, <4>1 DEF Handoff, Process, At
      <4>2. ASSUME NEW c \in Children, At(c, "idle"),
                   proc' = [proc EXCEPT ![q].pc = "wait", ![q].beat = "off", ![q].child = c,
                                        ![c].pc = "look", ![c].parent = q, ![c].nonce = proc[q].nonce]
            PROVE  FALSE
        <5>1. c # q /\ proc[q].parked = NoClaim
          BY <1>0, <3>7, <4>2 DEF Handoff, At
        <5> QED
          BY <1>0, <4>2, <5>1 DEF Process
      <4> QED
        BY <3>7, <4>1, <4>2 DEF Handoff
    <3>8. CASE Beat(q)
      BY <1>0, <3>8 DEF Beat, BeatCheck, BeatWrite, Process, At, Sound
    <3> QED
      BY <1>3, <2>2, <3>1, <3>2, <3>3, <3>4, <3>5, <3>6, <3>7, <3>8, <3>9 DEF Proceed
  <2> QED
    BY <2>1, <2>2
<1> QED
  BY <1>1, <1>2, <1>3 DEF Next, vars, RefreshLease

\* What the owner's own step may do.
LEMMA OwnerStep ==
    ASSUME CustodyInv, NEW q \in Pids, Launch(q) \/ Beat(q) \/ Crash(q) \/ Proceed(q),
           proc[q].pc \in Custody, proc[q].nonce = claim.nonce, claim' = claim, claim # NoClaim, StaysAlive(q)
    PROVE  \/ q \in Clicks /\ At(q, "finished")'
           \/ proc'[q].pc \in Custody /\ proc'[q].nonce = claim.nonce
<1>0. proc \in [Pids -> Process] /\ proc[q] \in Process /\ Sound(q, proc[q])
  BY DEF CustodyInv, ClaimInv, Structure
<1>1. ~Launch(q) /\ ~Look(q) /\ ~Finish(q) /\ ~Create(q) /\ ~Inspect(q) /\ ~Reclaim(q)
      /\ ~Adopt(q) /\ ~AdoptWrite(q) /\ ~Park(q) /\ ~Unpark(q)
  BY DEF Custody, Launch, Look, Finish, Create, Inspect, Reclaim, Adopt, AdoptWrite, Park, Unpark, At
<1>2. CASE Recheck(q) \/ WriteLease(q) \/ Supervise(q) \/ Clear(q)
  BY <1>0, <1>2 DEF Recheck, WriteLease, Supervise, Clear, Goto, Become, Process, Custody, Ended
<1>3. CASE Watch(q)
  <2>1. CASE Goto(q, "finished")
    BY <1>0, <1>3, <2>1 DEF Watch, Goto, Become, Process, Ended, At, Blank
  <2>2. CASE proc' = [proc EXCEPT ![q].pc = "clear", ![q].then = "refused"]
    <3>1. proc'[q].pc = "clear" /\ proc'[q].nonce = proc[q].nonce
      BY <1>0, <2>2, SMTT(30) DEF Process
    <3> QED
      BY <3>1 DEF Custody
  <2> QED
    BY <1>3, <2>1, <2>2 DEF Watch
<1>4. CASE Handoff(q)
  <2>1. ASSUME NEW c \in Children, At(c, "idle")
        PROVE  c \in Pids /\ c # q
    BY <2>1 DEF Custody, At, Pids, Workers
  <2>2. CASE proc' = [proc EXCEPT ![q].pc = "wait", ![q].beat = "off", ![q].child = Ghost]
    BY <1>0, <2>2 DEF Process, Custody
  <2>3. ASSUME NEW c \in Children, At(c, "idle"),
               proc' = [proc EXCEPT ![q].pc = "wait", ![q].beat = "off", ![q].child = c,
                                    ![c].pc = "look", ![c].parent = q, ![c].nonce = proc[q].nonce]
        PROVE  proc'[q].pc \in Custody /\ proc'[q].nonce = claim.nonce
    BY <1>0, <2>1, <2>3 DEF Process, Custody
  <2> QED
    BY <1>4, <2>2, <2>3 DEF Handoff
<1>5. CASE Beat(q)
  BY <1>0, <1>5 DEF Beat, BeatCheck, BeatWrite, Process
<1>6. CASE Crash(q)
  BY <1>0, <1>6 DEF Crash, Goto, Become, Process, Ended, Blank, StaysAlive
<1> QED
  BY <1>1, <1>2, <1>3, <1>4, <1>5, <1>6 DEF Proceed

LEMMA OwnerKeepsStep ==
    ASSUME CustodyInv, [Next]_vars
    PROVE  OwnerKeepsClaim'
<1> SUFFICES ASSUME ~exposed', claim' # NoClaim, StaysAlive(claim'.owner)
             PROVE  \/ claim'.owner \in Clicks /\ proc'[claim'.owner].pc = "finished"
                    \/ proc'[claim'.owner].pc \in Custody /\ proc'[claim'.owner].nonce = claim'.nonce
  BY DEF OwnerKeepsClaim, Alive, StaysAlive, At
<1>0. /\ proc \in [Pids -> Process] /\ \A p \in Pids : proc[p] \in Process /\ Sound(p, proc[p])
      /\ ~exposed
  BY ExposedStays DEF CustodyInv, ClaimInv, Structure
<1>1. CASE claim' = claim
  <2>0. PICK o : o = claim.owner
    OBVIOUS
  <2>1. Alive(o) /\ o \in Pids
    BY <1>1, <2>0, DeadStayDead DEF CustodyInv, Alive
  <2>2. \/ o \in Clicks /\ At(o, "finished")
        \/ proc[o].pc \in Custody /\ proc[o].nonce = claim.nonce
    BY <1>0, <1>1, <2>0, <2>1 DEF CustodyInv, OwnerKeepsClaim
  <2>3. CASE o \in Clicks /\ At(o, "finished")
    <3>1. proc'[o] = proc[o] \/ proc'[o].pc = "crashed"
      BY <2>1, <2>3, EndedStays DEF CustodyInv, At, Ended
    <3> QED
      BY <1>1, <2>0, <2>1, <2>3, <3>1 DEF StaysAlive, At
  <2>4. CASE proc[o].pc \in Custody /\ proc[o].nonce = claim.nonce
    <3>1. CASE proc'[o] = proc[o]
      BY <1>1, <2>0, <2>4, <3>1
    <3>2. CASE Launch(o) \/ Beat(o) \/ Crash(o) \/ Proceed(o)
      BY <1>1, <2>0, <2>1, <2>4, <3>2, OwnerStep DEF At
    <3>3. ASSUME NEW p \in Pids, p # o, Launch(p) \/ Beat(p) \/ Crash(p) \/ Proceed(p)
          PROVE  proc'[o] = proc[o]
      <4>1. CASE Handoff(p)
        <5>1. ASSUME NEW c \in Children, At(c, "idle")
              PROVE  c # o
          BY <2>4, <5>1 DEF At, Custody
        <5> QED
          BY <1>0, <2>1, <3>3, <4>1, <5>1 DEF Handoff
      <4>2. CASE ~Handoff(p)
        BY <2>1, <3>3, <4>2, StepMoves DEF CustodyInv, ClaimInv, Moves
      <4> QED
        BY <4>1, <4>2
    <3> QED
      BY <2>1, <3>1, <3>2, <3>3 DEF Next, vars, RefreshLease
  <2> QED
    BY <2>2, <2>3, <2>4
<1>2. CASE claim' # claim
  <2>1. PICK p \in Pids : Create(p) \/ BeatWrite(p) \/ AdoptWrite(p) \/ Unpark(p)
    BY <1>2, FileSteps DEF Next, vars
  <2>2. CASE Create(p)
    <3>1. /\ claim' = Mine(p)
          /\ proc' = [proc EXCEPT ![p].pc = Owned(p), ![p].nonce = Mine(p).nonce,
                                  ![p].spawns = @ + 1, ![p].beat = "on", ![p].tries = 0]
      BY <1>2, <2>2 DEF Create
    <3>2. Owned(p) \in Custody
      BY DEF Owned, Custody
    <3> QED
      BY <1>0, <3>1, <3>2 DEF Mine, Process
  <2>3. CASE BeatWrite(p)
    <3>1. proc[p].pc \in Custody
      BY <1>0, <2>3 DEF BeatWrite, Sound, Custody
    <3> QED
      BY <1>0, <2>3, <3>1 DEF BeatWrite, Process
  <2>4. CASE AdoptWrite(p)
    BY <1>0, <2>4 DEF AdoptWrite, Process, Custody
  <2>5. CASE Unpark(p)
    <3>1. claim' = proc[p].parked /\ proc[p].parked.nonce # proc[p].nonce
      BY <1>2, <2>5 DEF Unpark
    <3>2. ~Alive(proc[p].parked.owner)
      BY <1>0, <3>1 DEF CustodyInv, ParkedIsDead
    <3> QED
      BY <3>1, <3>2, DeadStayDead DEF CustodyInv
  <2> QED
    BY <2>1, <2>2, <2>3, <2>4, <2>5
<1> QED
  BY <1>1, <1>2

LEMMA CustodyInit == Init => CustodyInv
<1> SUFFICES ASSUME Init
             PROVE  CustodyInv
  OBVIOUS
<1>1. \A p \in Pids : proc[p].parked = NoClaim
  BY DEF Init, Blank
<1>2. ParkedIsDead
  BY <1>1 DEF ParkedIsDead
<1>3. claim = NoClaim \/ ~Alive(claim.owner)
  BY RolesAssumption DEF Init, Alive
<1> QED
  BY <1>2, <1>3, ClaimInit DEF CustodyInv, OwnerKeepsClaim

\* A live owner's claim has a live custodian, but for that of a click whose child
\* died after the startup check (clear, adopt_from_env and the startup check of
\* serve/jobs.rs).
THEOREM ClaimsHaveCustodians == Spec => []ClaimHasCustodian
<1>1. CustodyInv => ClaimHasCustodian
  <2> SUFFICES ASSUME CustodyInv, ~exposed, claim # NoClaim, Alive(claim.owner),
                      ~(claim.owner \in Clicks /\ At(claim.owner, "finished"))
               PROVE  \E p \in Pids : Clears(p, claim.nonce)
    BY DEF ClaimHasCustodian
  <2>1. claim.owner \in Pids /\ Clears(claim.owner, claim.nonce)
    BY DEF CustodyInv, OwnerKeepsClaim, Custody, Clears, Alive, Ended
  <2> QED
    BY <2>1
<1>2. CustodyInv /\ [Next]_vars => CustodyInv'
  BY ClaimStep, ParkedStep, OwnerKeepsStep DEF CustodyInv
<1> QED
  BY <1>1, <1>2, CustodyInit, PTL DEF Spec

=============================================================================
