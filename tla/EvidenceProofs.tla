---------------------------- MODULE EvidenceProofs ----------------------------
(***************************************************************************)
(* What the record of a run is worth. Of SealStore: what the sealing       *)
(* reward model keeps, whatever dies or fails, one record of a sample (of  *)
(* one process at a time), and seals of whole groups and a replay of every *)
(* crash (of any number of processes). Of ConsistencyOracle: what an audit *)
(* of the record says of the run, for any number of saves, updates, loads  *)
(* and untrue entries.                                                     *)
(***************************************************************************)
EXTENDS SealStore, ConsistencyOracle, FiniteSetTheorems, WellFoundedInduction, TLAPS

-----------------------------------------------------------------------------
(* SealStore                                                                  *)

Logged == IdsOf(Lines)

(* A step of process p *)
StepOf(p) ==
    \/ \E m \in Modes, f \in BOOLEAN : Start(p, m, f)
    \/ Die(p)
    \/ \E s \in Sample : RmOne(p, s)
    \/ \E g \in Group : RmGroup(p, g)
    \/ ReadSize(p) \/ Import(p) \/ Begin(p) \/ AppendLines(p) \/ Commit(p) \/ WriteFails(p)
    \/ RaiseCrash(p) \/ Register(p) \/ AutofixRewrite(p) \/ AutofixFails(p) \/ Seal(p)

(* A call in progress has lines to write. *)
Occupied == \A p \in Proc : call[p].at # "idle" => call[p].lines # {}

(* What a process takes for written is in the log: its claims, the ids it has seen
   and registered, and the lines of a call past its commit.                      *)
Recorded(p) ==
    /\ seen[p] \subseteq Logged
    /\ \A g \in Group : regs[p][g].ids \subseteq Logged
    /\ call[p].new \subseteq call[p].lines
    /\ IdsOf(call[p].lines) \subseteq Logged \union IdsOf(call[p].new)
    /\ call[p].at \in {"commit", "written", "fix", "seal"} => IdsOf(call[p].lines) \subseteq Logged
RecordInv == claims \subseteq Logged /\ \A p \in Proc : Recorded(p)

(* A call writes the record of one sample that has not returned, of the whole group it
   was called for, or of the sample whose crash it raises.                          *)
Called(p) ==
    /\ proc[p] # "up" => call[p] = NoCall /\ conn[p] = FALSE
    /\ call[p].at \in {"fix", "seal"} => mode[p] = "single"
    /\ mode[p] = "single" /\ call[p].at # "idle" =>
          \E l \in Line : call[p].lines = {l} /\ l.s \notin done[p]
    /\ mode[p] = "group" /\ call[p].at # "idle" /\ ~call[p].raises =>
          \E g \in Group : call[p].lines # {} /\ IdsOf(call[p].lines) = Members(g)
CallInv == \A p \in Proc : Called(p)

(* The count of a group is the number of its registered samples until it is full: a
   sample is counted twice only when all have been.                                *)
Counted(p, g) ==
    /\ regs[p][g].ids \subseteq Members(g)
    /\ regs[p][g].count < K =>
          /\ Cardinality(regs[p][g].ids) = regs[p][g].count
          /\ regs[p][g].ids \subseteq done[p]
    /\ regs[p][g].count >= K => regs[p][g].ids = Members(g)
RegInv == \A p \in Proc :
    /\ \A g \in Group : Counted(p, g)
    /\ call[p].at \in {"fix", "seal"} => regs[p][CallGroup(p)].count >= K

(* A line without a reward is in a crash window, a corrected one in another. *)
LineInWindow(l) ==
    /\ l.kind = "fixed" => Fault[GroupOf[l.s]] \in {"skew", "dup"}
    /\ l.kind = "crash" => Fault[GroupOf[l.s]] = "crm_crash" /\ l.reward = None

InWindow(p) ==
    /\ \A l \in call[p].lines : LineInWindow(l) /\ Plain(l)
    /\ \A g \in Group : Fault[g] \notin {"skew", "dup"} => regs[p][g].vers \subseteq {"v1"}
    /\ call[p].at = "fix" => Fault[CallGroup(p)] \in {"skew", "dup"}
WindowInv == (\A l \in Lines : LineInWindow(l)) /\ \A p \in Proc : InWindow(p)

(* With one process at a time, the size recorded beside the claims tells whether they
   are those of the log, and an open connection has them all.                      *)
Indexed(p) ==
    /\ call[p].at \in {"begin", "append", "commit"} => conn[p]
    /\ conn[p] => Logged \subseteq claims \union
                                   (IF call[p].at = "commit" THEN IdsOf(call[p].new) ELSE {})
    /\ call[p].at = "import" => call[p].seenSize = Len(log)
    /\ call[p].at = "commit" /\ call[p].new # {} => call[p].seenSize = Len(log)
    /\ call[p].at = "append" => IdsOf(call[p].new) \intersect claims = {}
    /\ \A l, m \in call[p].lines : l.s = m.s => l = m
IndexInv ==
    /\ \A p, q \in Proc : proc[p] = "up" /\ proc[q] = "up" => p = q
    /\ size <= Len(log)
    /\ size = Len(log) => Logged \subseteq claims
    /\ \A p \in Proc : Indexed(p)

-----------------------------------------------------------------------------
(* Every group has K members. *)
LEMMA GroupSize ==
    /\ K \in Nat
    /\ \A g \in Group : IsFiniteSet(Members(g)) /\ Cardinality(Members(g)) = K
<1>1. ASSUME NEW g \in Group
      PROVE  IsFiniteSet(Members(g)) /\ Cardinality(Members(g)) \in 0 .. Cardinality(Sample)
  <2>1. Members(g) \in SUBSET Sample
    BY DEF Members
  <2> QED
    BY <2>1, FS_Subset, FS_CardinalityType, StoreAssumption
<1>2. \E n \in 0 .. Cardinality(Sample) : \A g \in Group : Cardinality(Members(g)) = n
  <2>1. CASE Group = {}
    BY <2>1, FS_CardinalityType, StoreAssumption
  <2>2. CASE \E g \in Group : TRUE
    BY <2>2, <1>1, StoreAssumption
  <2> QED
    BY <2>1, <2>2
<1>3. K \in 0 .. Cardinality(Sample) /\ \A g \in Group : Cardinality(Members(g)) = K
  BY <1>2 DEF K
<1> QED
  BY <1>1, <1>3, FS_CardinalityType, StoreAssumption

(* The lines a call may be given *)
LEMMA LinesOfCall ==
    ASSUME NEW s \in Sample
    PROVE  /\ GroupOf[s] \in Group
           /\ CrashLine(s) \in Line /\ CrashLine(s).s = s /\ Plain(CrashLine(s))
           /\ FixedLine(s) \in Line /\ FixedLine(s).s = s /\ FixedLine(s).kind = "fixed"
           /\ \A p \in Proc : Verdict(p, s) \in Verdicts
           /\ \A v \in Verdicts, fixed \in BOOLEAN :
                /\ Scored(s, v, fixed) \in Line
                /\ Scored(s, v, fixed).s = s
                /\ Scored(s, v, fixed).kind = "score"
<1>1. GroupOf[s] \in Group /\ V1[s] \in 0 .. 1 /\ V2[s] \in 0 .. 1
  BY StoreAssumption
<1>2. V1[s] \in {None, 0, 1} /\ V2[s] \in {None, 0, 1}
  BY <1>1
<1> QED
  BY <1>1, <1>2 DEF CrashLine, FixedLine, Scored, Verdict, Verdicts, Line, Plain

(* What a write adds to the log *)
LEMMA LogGrows ==
    ASSUME log \in Seq(SUBSET Line), NEW new \in SUBSET Line, log' = Append(log, new)
    PROVE  /\ log' \in Seq(SUBSET Line)
           /\ Len(log') = Len(log) + 1 /\ Len(log) \in Nat
           /\ \A i \in 1 .. Len(log) : log'[i] = log[i]
           /\ log'[Len(log) + 1] = new
           /\ Lines' = Lines \union new
           /\ Logged' = Logged \union IdsOf(new)
<1>1. /\ log' \in Seq(SUBSET Line)
      /\ Len(log') = Len(log) + 1 /\ Len(log) \in Nat
      /\ \A i \in 1 .. Len(log) : log'[i] = log[i]
      /\ log'[Len(log) + 1] = new
  OBVIOUS
<1>2. /\ DOMAIN log = 1 .. Len(log)
      /\ DOMAIN log' = 1 .. Len(log) + 1
      /\ DOMAIN log' = DOMAIN log \union {Len(log) + 1}
  BY <1>1
<1>3. Lines' = Lines \union new
  BY <1>1, <1>2 DEF Lines
<1> QED
  BY <1>1, <1>3 DEF Logged, IdsOf

LEMMA LogKept ==
    ASSUME log' = log
    PROVE  Lines' = Lines /\ Logged' = Logged
BY DEF Lines, Logged, IdsOf

-----------------------------------------------------------------------------
LEMMA InitTyped == Init => TypeOK /\ Occupied
<1> SUFFICES ASSUME Init PROVE TypeOK /\ Occupied
  OBVIOUS
<1>1. log \in Seq(SUBSET Line) /\ seals \in Seq([group : Group, status : {"SEALED", "ABORTED"},
                                                ids : SUBSET Sample])
  BY DEF Init
<1> QED
  BY <1>1 DEF Init, TypeOK, Call, Registered, Occupied, NoCall, NoRegs, Verdicts

LEMMA SubmitTyped ==
    ASSUME TypeOK, NEW p \in Proc, NEW lines \in SUBSET Line, NEW raises \in BOOLEAN,
           Submit(p, lines, raises)
    PROVE  TypeOK'
<1>1. call' \in [Proc -> Call]
  BY DEF TypeOK, Call, Registered, Submit
<1> QED
  BY <1>1 DEF TypeOK, Call, Registered, Submit, disk, memory

LEMMA CallGroupTyped ==
    ASSUME TypeOK, Occupied, NEW p \in Proc, call[p].at # "idle"
    PROVE  CallGroup(p) \in Group
<1> DEFINE l == CHOOSE l \in call[p].lines : TRUE
<1>1. l \in call[p].lines /\ call[p].lines \subseteq Line
  BY DEF Occupied, TypeOK, Call, Registered
<1> QED
  BY <1>1, StoreAssumption DEF CallGroup, Line

LEMMA StepTyped == TypeOK /\ Occupied /\ [Next]_vars => TypeOK'
<1> SUFFICES ASSUME TypeOK, Occupied, [Next]_vars PROVE TypeOK'
  OBVIOUS
<1>1. ASSUME NEW p \in Proc, NEW m \in Modes, NEW f \in BOOLEAN, Start(p, m, f) PROVE TypeOK'
  BY <1>1, StoreAssumption DEF Start, TypeOK, Call, Registered, disk
<1>2. ASSUME NEW p \in Proc, Die(p) PROVE TypeOK'
  <2>1. NoRegs \in [Group -> Registered]
    BY DEF NoRegs, Registered
  <2>2. /\ call' \in [Proc -> Call]
    BY <1>2 DEF Die, TypeOK, Call, Registered, NoCall
  <2> QED
    BY <1>2, <2>1, <2>2 DEF Die, TypeOK, Call, Registered, disk
<1>3. ASSUME NEW p \in Proc, NEW s \in Sample, RmOne(p, s) PROVE TypeOK'
  <2>1. CASE Submit(p, {CrashLine(s)}, TRUE)
    BY <2>1, SubmitTyped, LinesOfCall
  <2>2. CASE Submit(p, {Scored(s, Verdict(p, s), FALSE)}, FALSE)
    <3>1. Scored(s, Verdict(p, s), FALSE) \in Line
      BY LinesOfCall
    <3> QED
      BY <2>2, <3>1, SubmitTyped
  <2> QED
    BY <1>3, <2>1, <2>2 DEF RmOne
<1>4. ASSUME NEW p \in Proc, NEW g \in Group, RmGroup(p, g) PROVE TypeOK'
  <2>1. ASSUME NEW s \in Members(g), Submit(p, {CrashLine(s)}, TRUE) PROVE TypeOK'
    BY <2>1, SubmitTyped, LinesOfCall DEF Members
  <2>2. ASSUME NEW fixed \in BOOLEAN,
               Submit(p, {Scored(s, Verdict(p, s), fixed) : s \in Members(g)}, FALSE)
        PROVE  TypeOK'
    <3>1. {Scored(s, Verdict(p, s), fixed) : s \in Members(g)} \in SUBSET Line
      BY LinesOfCall DEF Members
    <3> QED
      BY <2>2, <3>1, SubmitTyped
  <2>3. AutoFix \in BOOLEAN
    BY StoreAssumption
  <2> QED
    BY <1>4, <2>1, <2>2, <2>3 DEF RmGroup
<1>5. ASSUME NEW p \in Proc, ReadSize(p) PROVE TypeOK'
  <2>1. Len(log) \in Nat
    BY DEF TypeOK, Call, Registered
  <2>2. call' \in [Proc -> Call]
    <3>1. PICK c : c = [call[p] EXCEPT !.seenSize = Len(log), !.at = "import"]
      OBVIOUS
    <3>2. c \in Call
      BY <2>1, <3>1 DEF TypeOK, Call
    <3>3. call' = [call EXCEPT ![p] = c]
      BY <1>5, <3>1 DEF ReadSize, TypeOK
    <3> QED
      BY <3>2, <3>3 DEF TypeOK
  <2> QED
    BY <1>5, <2>2 DEF ReadSize, TypeOK, Call, Registered, disk, memory
<1>6. ASSUME NEW p \in Proc, Import(p) PROVE TypeOK'
  <2>1. IdsOf(Lines) \subseteq Sample
    BY DEF IdsOf, Lines, TypeOK, Call, Registered, Line
  <2> QED
    BY <1>6, <2>1 DEF Import, Goto, TypeOK, Call, Registered, memory
<1>7. ASSUME NEW p \in Proc, Begin(p) PROVE TypeOK'
  <2>1. {l \in call[p].new : l.s \notin claims} \in SUBSET Line
    BY DEF TypeOK, Call, Registered
  <2>2. call' \in [Proc -> Call]
    <3>1. PICK new, a : /\ new = {l \in call[p].new : l.s \notin claims}
                        /\ a = IF new = {} THEN "commit" ELSE "append"
      OBVIOUS
    <3>2. PICK c : c = [call[p] EXCEPT !.new = new, !.at = a]
      OBVIOUS
    <3>3. c \in Call
      BY <2>1, <3>1, <3>2 DEF TypeOK, Call
    <3>4. call' = [call EXCEPT ![p] = c]
      BY <1>7, <3>1, <3>2 DEF Begin, TypeOK
    <3> QED
      BY <3>3, <3>4 DEF TypeOK
  <2> QED
    BY <1>7, <2>2 DEF Begin, TypeOK, Call, Registered, disk, memory
<1>8. ASSUME NEW p \in Proc, AppendLines(p) PROVE TypeOK'
  <2>1. call[p].new \in SUBSET Line
    BY DEF TypeOK, Call, Registered
  <2>2. log' \in Seq(SUBSET Line) /\ Len(log) + 1 \in Nat
    BY <1>8, <2>1, LogGrows DEF AppendLines, TypeOK, Call, Registered
  <2>3. call' \in [Proc -> Call]
    <3>1. PICK c : c = [call[p] EXCEPT !.seenSize = Len(log) + 1, !.at = "commit"]
      OBVIOUS
    <3>2. c \in Call
      BY <2>2, <3>1 DEF TypeOK, Call
    <3>3. call' = [call EXCEPT ![p] = c]
      BY <1>8, <3>1 DEF AppendLines, TypeOK
    <3> QED
      BY <3>2, <3>3 DEF TypeOK
  <2> QED
    BY <1>8, <2>2, <2>3 DEF AppendLines, TypeOK, memory
<1>9. ASSUME NEW p \in Proc, Commit(p) PROVE TypeOK'
  <2>1. IdsOf(call[p].new) \subseteq Sample /\ IdsOf(call[p].lines) \subseteq Sample
    BY DEF IdsOf, TypeOK, Call, Registered, Line
  <2> QED
    BY <1>9, <2>1 DEF Commit, Goto, TypeOK, Call, Registered
<1>10. ASSUME NEW p \in Proc, WriteFails(p) PROVE TypeOK'
  <2>1. log' \in Seq(SUBSET Line)
    <3>1. call[p].new \in SUBSET Line
      BY DEF TypeOK, Call, Registered
    <3>2. ASSUME NEW some \in SUBSET call[p].new, log' = Append(log, some)
          PROVE  log' \in Seq(SUBSET Line)
      BY <3>1, <3>2 DEF TypeOK, Call, Registered
    <3> QED
      BY <1>10, <3>2 DEF WriteFails, TypeOK, Call, Registered
  <2>2. call' \in [Proc -> Call]
    BY <1>10 DEF WriteFails, Abort, TypeOK, Call, Registered, NoCall
  <2> QED
    BY <1>10, <2>1, <2>2 DEF WriteFails, Abort, TypeOK, Call, Registered, memory
<1>11. ASSUME NEW p \in Proc, RaiseCrash(p) PROVE TypeOK'
  BY <1>11 DEF RaiseCrash, TypeOK, Call, Registered, NoCall, disk, memory
<1>12. ASSUME NEW p \in Proc, Register(p) PROVE TypeOK'
  <2>1. PICK l \in call[p].lines :
          LET g == GroupOf[l.s]
              r == [vers |-> regs[p][g].vers \union {Verdict(p, l.s)},
                    ids |-> regs[p][g].ids \union {l.s}, count |-> regs[p][g].count + 1]
          IN  /\ regs' = [regs EXCEPT ![p][g] = r]
              /\ IF r.count < K
                 THEN /\ done' = [done EXCEPT ![p] = @ \union {l.s}]
                      /\ call' = [call EXCEPT ![p] = NoCall]
                 ELSE /\ Goto(p, IF Status(r.vers) = "ABORTED" /\ AutoFix THEN "fix" ELSE "seal")
                      /\ UNCHANGED done
    BY <1>12 DEF Register
  <2> DEFINE g == GroupOf[l.s]
             r == [vers |-> regs[p][g].vers \union {Verdict(p, l.s)},
                   ids |-> regs[p][g].ids \union {l.s}, count |-> regs[p][g].count + 1]
  <2>2. l.s \in Sample
    BY DEF TypeOK, Call, Registered, Line
  <2>3. r \in Registered
    BY <2>2, LinesOfCall DEF TypeOK, Call, Registered
  <2> HIDE DEF g, r
  <2>4. regs' \in [Proc -> [Group -> Registered]]
    <3>1. regs' = [regs EXCEPT ![p][g] = r]
      BY <2>1 DEF g, r
    <3> QED
      BY <2>2, <2>3, <3>1, LinesOfCall DEF TypeOK, Call, Registered, g
  <2>5. done' \in [Proc -> SUBSET Sample]
    <3>1. done' = [done EXCEPT ![p] = @ \union {l.s}] \/ done' = done
      BY <2>1
    <3>2. done \in [Proc -> SUBSET Sample]
      BY DEF TypeOK, Call, Registered
    <3> QED
      BY <2>2, <3>1, <3>2
  <2>6. \/ call' = [call EXCEPT ![p] = NoCall]
        \/ Goto(p, "fix") \/ Goto(p, "seal")
    BY <2>1
  <2>7. ASSUME NEW c \in {"fix", "seal"}, Goto(p, c)
        PROVE  call' \in [Proc -> Call]
    BY <2>7 DEF TypeOK, Call, Registered, Goto
  <2>8. call' \in [Proc -> Call]
    <3>1. call' = [call EXCEPT ![p] = NoCall] => call' \in [Proc -> Call]
      BY DEF TypeOK, Call, Registered, NoCall
    <3> QED
      BY <2>6, <2>7, <3>1
  <2> QED
    BY <1>12, <2>4, <2>5, <2>8 DEF Register, TypeOK, Call, Registered, disk
<1>13. ASSUME NEW p \in Proc, AutofixRewrite(p) PROVE TypeOK'
  <2> DEFINE new == {FixedLine(s) : s \in regs[p][CallGroup(p)].ids}
  <2>1. CallGroup(p) \in Group
    BY <1>13, CallGroupTyped DEF AutofixRewrite
  <2>2. new \in SUBSET Line
    BY <2>1, LinesOfCall DEF TypeOK, Call, Registered
  <2>3. log' \in Seq(SUBSET Line)
    <3> HIDE DEF new
    <3>1. log' = Append(log, new)
      BY <1>13 DEF AutofixRewrite, new
    <3> QED
      BY <2>2, <3>1 DEF TypeOK, Call, Registered
  <2> QED
    BY <1>13, <2>3 DEF AutofixRewrite, TypeOK, Call, Registered, Goto, memory
<1>14. ASSUME NEW p \in Proc, AutofixFails(p) PROVE TypeOK'
  BY <1>14 DEF AutofixFails, TypeOK, Call, Registered, NoCall, disk, memory
<1>15. ASSUME NEW p \in Proc, Seal(p) PROVE TypeOK'
  <2>1. CallGroup(p) \in Group
    BY <1>15, CallGroupTyped DEF Seal
  <2>2. Members(CallGroup(p)) \subseteq Sample /\ regs[p][CallGroup(p)].ids \subseteq Sample
    BY <2>1 DEF Members, TypeOK, Call, Registered
  <2>3. \A vs : Status(vs) \in {"SEALED", "ABORTED"}
    BY DEF Status
  <2>4. seals' \in Seq([group : Group, status : {"SEALED", "ABORTED"}, ids : SUBSET Sample])
    <3>1. ASSUME NEW status \in {"SEALED", "ABORTED"}, NEW ids \in SUBSET Sample,
                 seals' = Append(seals, [group |-> CallGroup(p), status |-> status, ids |-> ids])
          PROVE  seals' \in Seq([group : Group, status : {"SEALED", "ABORTED"},
                                 ids : SUBSET Sample])
      BY <2>1, <3>1 DEF TypeOK, Call, Registered
    <3> QED
      BY <1>15, <2>2, <2>3, <3>1 DEF Seal, TypeOK, Call, Registered
  <2>5. IdsOf(call[p].lines) \subseteq Sample
    BY DEF IdsOf, TypeOK, Call, Registered, Line
  <2>6. done' \in [Proc -> SUBSET Sample]
    BY <1>15, <2>5 DEF Seal, TypeOK, Call, Registered
  <2>7. call' \in [Proc -> Call]
    BY <1>15 DEF Seal, TypeOK, Call, Registered, NoCall
  <2> QED
    BY <1>15, <2>4, <2>6, <2>7 DEF Seal, TypeOK, Call, Registered
<1>16. CASE UNCHANGED vars
  BY <1>16 DEF vars, disk, memory, TypeOK, Call, Registered
<1> QED
  BY <1>1, <1>2, <1>3, <1>4, <1>5, <1>6, <1>7, <1>8, <1>9, <1>10, <1>11, <1>12, <1>13, <1>14,
     <1>15, <1>16 DEF Next

-----------------------------------------------------------------------------
LEMMA NextIsStep == Next => \E p \in Proc : StepOf(p)
BY DEF Next, StepOf

(* A process changes its own memory only. *)
LEMMA OthersKept ==
    ASSUME TypeOK, NEW p \in Proc, NEW q \in Proc, q # p, StepOf(p)
    PROVE  /\ proc'[q] = proc[q] /\ mode'[q] = mode[q] /\ faults'[q] = faults[q]
           /\ conn'[q] = conn[q] /\ seen'[q] = seen[q] /\ regs'[q] = regs[q]
           /\ done'[q] = done[q] /\ call'[q] = call[q]
<1> DEFINE Unmoved == /\ proc'[q] = proc[q] /\ mode'[q] = mode[q] /\ faults'[q] = faults[q]
                   /\ conn'[q] = conn[q] /\ seen'[q] = seen[q] /\ regs'[q] = regs[q]
                   /\ done'[q] = done[q] /\ call'[q] = call[q]
<1>1. ASSUME NEW m \in Modes, NEW f \in BOOLEAN, Start(p, m, f) PROVE Unmoved
  BY <1>1 DEF Start, TypeOK
<1>2. ASSUME Die(p) PROVE Unmoved
  BY <1>2 DEF Die, TypeOK
<1>3. ASSUME NEW lines, NEW raises, Submit(p, lines, raises) PROVE Unmoved
  BY <1>3 DEF Submit, memory, TypeOK
<1>4. ASSUME NEW s \in Sample, RmOne(p, s) PROVE Unmoved
  BY <1>3, <1>4 DEF RmOne
<1>5. ASSUME NEW g \in Group, RmGroup(p, g) PROVE Unmoved
  BY <1>3, <1>5 DEF RmGroup
<1>6. ASSUME ReadSize(p) \/ Import(p) \/ Begin(p) PROVE Unmoved
  BY <1>6 DEF ReadSize, Import, Begin, Goto, memory, TypeOK
<1>7. ASSUME AppendLines(p) \/ Commit(p) \/ WriteFails(p) PROVE Unmoved
  BY <1>7 DEF AppendLines, Commit, WriteFails, Abort, Goto, memory, TypeOK
<1>8. ASSUME RaiseCrash(p) \/ AutofixRewrite(p) \/ AutofixFails(p) \/ Seal(p) PROVE Unmoved
  BY <1>8 DEF RaiseCrash, AutofixRewrite, AutofixFails, Seal, Goto, memory, TypeOK
<1>9. ASSUME Register(p) PROVE Unmoved
  BY <1>9 DEF Register, Goto, memory, TypeOK
<1> QED
  BY <1>1, <1>2, <1>4, <1>5, <1>6, <1>7, <1>8, <1>9 DEF StepOf

(* The one line of a call for a sample *)
LEMMA OneLineGroup ==
    ASSUME NEW p \in Proc, NEW l, call[p].lines = {l}
    PROVE  CallGroup(p) = GroupOf[l.s]
BY DEF CallGroup

LEMMA WholeLineGroup ==
    ASSUME NEW p \in Proc, NEW g \in Group, call[p].lines # {},
           IdsOf(call[p].lines) = Members(g)
    PROVE  CallGroup(p) = g
BY DEF CallGroup, IdsOf, Members

(* A registration: the sample of the call is counted, and the call returns or goes on
   to the seal of its group.                                                       *)
LEMMA RegisterEffect ==
    ASSUME TypeOK, CallInv, NEW p \in Proc, Register(p)
    PROVE  \E l \in Line :
             LET g == GroupOf[l.s]
             IN  /\ call[p].lines = {l} /\ l.s \notin done[p]
                 /\ l.s \in Sample /\ g \in Group /\ CallGroup(p) = g
                 /\ \A h \in Group : h # g => regs'[p][h] = regs[p][h]
                 /\ regs'[p][g].vers = regs[p][g].vers \union {Verdict(p, l.s)}
                 /\ regs'[p][g].ids = regs[p][g].ids \union {l.s}
                 /\ regs'[p][g].count = regs[p][g].count + 1
                 /\ \/ /\ regs'[p][g].count < K
                       /\ done' = [done EXCEPT ![p] = @ \union {l.s}]
                       /\ call' = [call EXCEPT ![p] = NoCall]
                    \/ /\ ~(regs'[p][g].count < K)
                       /\ UNCHANGED done
                       /\ \/ Goto(p, "seal")
                          \/ Goto(p, "fix") /\ Status(regs'[p][g].vers) = "ABORTED"
<1>1. mode[p] = "single" /\ call[p].at # "idle"
  BY DEF Register
<1>2. PICK l \in Line : call[p].lines = {l} /\ l.s \notin done[p]
  BY <1>1 DEF CallInv, Called
<1>3. l.s \in Sample /\ GroupOf[l.s] \in Group
  BY StoreAssumption DEF Line
<1> DEFINE g == GroupOf[l.s]
           r == [vers |-> regs[p][g].vers \union {Verdict(p, l.s)},
                 ids |-> regs[p][g].ids \union {l.s}, count |-> regs[p][g].count + 1]
<1>4. /\ regs' = [regs EXCEPT ![p][g] = r]
      /\ IF r.count < K
         THEN /\ done' = [done EXCEPT ![p] = @ \union {l.s}]
              /\ call' = [call EXCEPT ![p] = NoCall]
         ELSE /\ Goto(p, IF Status(r.vers) = "ABORTED" /\ AutoFix THEN "fix" ELSE "seal")
              /\ UNCHANGED done
  BY <1>2 DEF Register
<1>5. regs \in [Proc -> [Group -> Registered]]
  BY DEF TypeOK
<1>6. /\ regs'[p][g] = r
      /\ \A h \in Group : h # g => regs'[p][h] = regs[p][h]
  <2> HIDE DEF r
  <2> QED
    BY <1>3, <1>4, <1>5
<1>7. CallGroup(p) = g
  BY <1>2, OneLineGroup
<1>8. /\ regs'[p][g].vers = regs[p][g].vers \union {Verdict(p, l.s)}
      /\ regs'[p][g].ids = regs[p][g].ids \union {l.s}
      /\ regs'[p][g].count = regs[p][g].count + 1
  BY <1>6
<1>9. \/ /\ regs'[p][g].count < K
         /\ done' = [done EXCEPT ![p] = @ \union {l.s}]
         /\ call' = [call EXCEPT ![p] = NoCall]
      \/ /\ ~(regs'[p][g].count < K)
         /\ UNCHANGED done
         /\ \/ Goto(p, "seal")
            \/ Goto(p, "fix") /\ Status(regs'[p][g].vers) = "ABORTED"
  <2> HIDE DEF r
  <2> QED
    BY <1>4, <1>6
<1> QED
  BY <1>2, <1>3, <1>6, <1>7, <1>8, <1>9

(* The call that a request starts *)
LEMMA SubmitCall ==
    ASSUME TypeOK, NEW p \in Proc, NEW lines, NEW raises, Submit(p, lines, raises)
    PROVE  /\ call'[p].at \in {"written", "begin", "open"}
           /\ call'[p].at = "written" => call'[p].new = {}
           /\ call'[p].at = "begin" => conn[p]
           /\ call'[p].lines = lines /\ call'[p].raises = raises
           /\ call'[p].new = {l \in lines : l.s \notin seen[p]}
           /\ log' = log /\ claims' = claims /\ size' = size /\ proc' = proc
           /\ conn' = conn /\ mode' = mode /\ seen' = seen /\ regs' = regs /\ done' = done
BY DEF Submit, TypeOK, disk, memory

LEMMA NoCallFields ==
    NoCall.at = "idle" /\ NoCall.lines = {} /\ NoCall.new = {} /\ NoCall \in Call
BY DEF NoCall, Call

(* A call that goes on keeps its lines, and one that ends leaves nothing. *)
LEMMA CallGoesOn ==
    ASSUME TypeOK, NEW p \in Proc,
           \/ ReadSize(p) \/ Import(p) \/ Begin(p) \/ AppendLines(p) \/ Commit(p)
           \/ AutofixRewrite(p)
    PROVE  /\ call[p].at # "idle" /\ call'[p].at # "idle"
           /\ call'[p].lines = call[p].lines /\ call'[p].raises = call[p].raises
           /\ call'[p].at \in {"fix", "seal"} => call[p].at = "fix" /\ call'[p].at = "seal"
           /\ proc' = proc /\ mode' = mode /\ faults' = faults /\ regs' = regs /\ done' = done
<1> DEFINE Goal == /\ call[p].at # "idle" /\ call'[p].at # "idle"
                   /\ call'[p].lines = call[p].lines /\ call'[p].raises = call[p].raises
                   /\ call'[p].at \in {"fix", "seal"} =>
                         call[p].at = "fix" /\ call'[p].at = "seal"
                   /\ proc' = proc /\ mode' = mode /\ faults' = faults /\ regs' = regs
                   /\ done' = done
<1>1. CASE ReadSize(p)
  BY <1>1 DEF ReadSize, memory, TypeOK, Call
<1>2. CASE Import(p)
  BY <1>2 DEF Import, Goto, memory, TypeOK, Call
<1>3. CASE Begin(p)
  BY <1>3 DEF Begin, memory, TypeOK, Call
<1>4. CASE AppendLines(p)
  BY <1>4 DEF AppendLines, memory, TypeOK, Call
<1>5. CASE Commit(p)
  BY <1>5 DEF Commit, Goto, TypeOK, Call
<1>6. CASE AutofixRewrite(p)
  BY <1>6 DEF AutofixRewrite, Goto, memory, TypeOK, Call
<1> QED
  BY <1>1, <1>2, <1>3, <1>4, <1>5, <1>6

LEMMA CallEnds ==
    ASSUME TypeOK, NEW p \in Proc,
           Die(p) \/ WriteFails(p) \/ RaiseCrash(p) \/ AutofixFails(p) \/ Seal(p)
    PROVE  /\ call'[p] = NoCall /\ claims' = claims /\ size' = size /\ mode' = mode
           /\ \/ proc'[p] = proc[p] /\ conn'[p] = conn[p]
              \/ conn'[p] = FALSE /\ proc'[p] \in {proc[p], "dead"}
<1>1. CASE Die(p)
  BY <1>1 DEF Die, disk, TypeOK
<1>2. CASE WriteFails(p)
  <2>1. Abort(p)
    BY <1>2 DEF WriteFails
  <2>2. conn'[p] = FALSE /\ call'[p] = NoCall
    BY <2>1 DEF Abort, TypeOK
  <2>3. claims' = claims /\ size' = size /\ mode' = mode /\ proc' = proc
    BY <2>1 DEF Abort, memory
  <2> QED
    BY <2>2, <2>3
<1>3. CASE RaiseCrash(p) \/ AutofixFails(p)
  <2>1. call'[p] = NoCall
    BY <1>3 DEF RaiseCrash, AutofixFails, TypeOK
  <2>2. claims' = claims /\ size' = size /\ mode' = mode /\ proc' = proc /\ conn' = conn
    BY <1>3 DEF RaiseCrash, AutofixFails, disk, memory
  <2> QED
    BY <2>1, <2>2
<1>4. CASE Seal(p)
  BY <1>4 DEF Seal, TypeOK
<1> QED
  BY <1>1, <1>2, <1>3, <1>4

LEMMA RequestLines ==
    ASSUME NEW p \in Proc, NEW g \in Group, NEW fixed \in BOOLEAN,
           NEW lines, lines = {Scored(s, Verdict(p, s), fixed) : s \in Members(g)}
    PROVE  /\ lines \subseteq Line /\ IdsOf(lines) = Members(g)
           /\ \A l \in lines : l.kind = "score"
           /\ \A l, m \in lines : l.s = m.s => l = m
<1>1. \A s \in Members(g) : /\ s \in Sample
                            /\ Scored(s, Verdict(p, s), fixed) \in Line
                            /\ Scored(s, Verdict(p, s), fixed).s = s
                            /\ Scored(s, Verdict(p, s), fixed).kind = "score"
  BY LinesOfCall DEF Members
<1> QED
  BY <1>1 DEF IdsOf

LEMMA StepOccupied == TypeOK /\ Occupied /\ [Next]_vars => Occupied'
<1> SUFFICES ASSUME TypeOK, Occupied, [Next]_vars PROVE Occupied'
  OBVIOUS
<1>1. CASE UNCHANGED vars
  BY <1>1 DEF vars, Occupied
<1>2. ASSUME NEW p \in Proc, StepOf(p) PROVE Occupied'
  <2>1. ASSUME NEW q \in Proc, q # p PROVE call'[q] = call[q]
    BY <1>2, <2>1, OthersKept
  <2>2. call'[p].at # "idle" => call'[p].lines # {}
    <3>1. CASE \E m \in Modes, f \in BOOLEAN : Start(p, m, f)
      BY <3>1 DEF Start, Occupied
    <3>2. ASSUME NEW lines, NEW raises, lines # {}, Submit(p, lines, raises)
          PROVE  call'[p].lines # {}
      BY <3>2, SubmitCall
    <3>3. ASSUME NEW s \in Sample, RmOne(p, s) PROVE call'[p].lines # {}
      BY <3>2, <3>3 DEF RmOne
    <3>4. ASSUME NEW g \in Group, RmGroup(p, g) PROVE call'[p].lines # {}
      <4>1. Members(g) # {}
        BY <3>4 DEF RmGroup
      <4> QED
        BY <3>2, <3>4, <4>1 DEF RmGroup
    <3>5. CASE \/ ReadSize(p) \/ Import(p) \/ Begin(p) \/ AppendLines(p) \/ Commit(p)
               \/ AutofixRewrite(p)
      BY <3>5, CallGoesOn DEF Occupied
    <3>6. CASE Die(p) \/ WriteFails(p) \/ RaiseCrash(p) \/ AutofixFails(p) \/ Seal(p)
      BY <3>6, CallEnds, NoCallFields
    <3>7. CASE Register(p)
      <4>1. call[p].at # "idle"
        BY <3>7 DEF Register
      <4>2. call'[p] = NoCall \/ call'[p].lines = call[p].lines
        <5>1. \/ call' = [call EXCEPT ![p] = NoCall]
              \/ Goto(p, "fix") \/ Goto(p, "seal")
          BY <3>7 DEF Register
        <5> QED
          BY <5>1 DEF Goto, TypeOK, Call
      <4> QED
        BY <4>1, <4>2 DEF NoCall, Occupied
    <3> QED
      BY <1>2, <3>1, <3>3, <3>4, <3>5, <3>6, <3>7 DEF StepOf
  <2> QED
    BY <2>1, <2>2 DEF Occupied
<1> QED
  BY <1>1, <1>2, NextIsStep

LEMMA StepCalled == TypeOK /\ CallInv /\ [Next]_vars => CallInv'
<1> SUFFICES ASSUME TypeOK, CallInv, [Next]_vars PROVE CallInv'
  OBVIOUS
<1>1. CASE UNCHANGED vars
  BY <1>1 DEF vars, memory, CallInv, Called
<1>2. ASSUME NEW p \in Proc, StepOf(p) PROVE CallInv'
  <2>1. ASSUME NEW q \in Proc, q # p PROVE Called(q)'
    BY <1>2, <2>1, OthersKept DEF CallInv, Called
  <2>2. Called(p)
    BY DEF CallInv
  <2>3. Called(p)'
    <3>1. ASSUME NEW m \in Modes, NEW f \in BOOLEAN, Start(p, m, f) PROVE Called(p)'
      BY <2>2, <3>1 DEF Start, Called, NoCall, TypeOK
    <3>2. CASE Die(p) \/ WriteFails(p) \/ RaiseCrash(p) \/ AutofixFails(p) \/ Seal(p)
      <4>1. /\ call'[p] = NoCall
            /\ \/ proc'[p] = proc[p] /\ conn'[p] = conn[p]
               \/ conn'[p] = FALSE
        BY <3>2, CallEnds
      <4> QED
        BY <2>2, <4>1, NoCallFields DEF Called
    <3>3. ASSUME NEW s \in Sample, RmOne(p, s) PROVE Called(p)'
      <4>1. /\ proc[p] = "up" /\ mode[p] = "single" /\ s \notin done[p]
        BY <3>3 DEF RmOne, Idle
      <4>2. ASSUME NEW l \in Line, l.s = s, NEW raises, Submit(p, {l}, raises)
            PROVE  Called(p)'
        BY <4>1, <4>2, SubmitCall DEF Called
      <4>3. /\ CrashLine(s) \in Line /\ CrashLine(s).s = s
            /\ Scored(s, Verdict(p, s), FALSE) \in Line
            /\ Scored(s, Verdict(p, s), FALSE).s = s
        BY LinesOfCall
      <4> QED
        BY <3>3, <4>2, <4>3 DEF RmOne
    <3>4. ASSUME NEW g \in Group, RmGroup(p, g) PROVE Called(p)'
      <4>1. /\ proc[p] = "up" /\ mode[p] = "group" /\ Members(g) # {}
        BY <3>4 DEF RmGroup, Idle
      <4>2. ASSUME NEW l, Submit(p, {l}, TRUE) PROVE Called(p)'
        <5>1. /\ call'[p].at \in {"written", "begin", "open"} /\ call'[p].raises = TRUE
              /\ proc' = proc /\ mode' = mode
          BY <4>2, SubmitCall
        <5> QED
          BY <4>1, <5>1 DEF Called
      <4>3. ASSUME NEW fixed \in BOOLEAN, NEW lines,
                   lines = {Scored(s, Verdict(p, s), fixed) : s \in Members(g)},
                   Submit(p, lines, FALSE)
            PROVE  Called(p)'
        <5>1. IdsOf(lines) = Members(g) /\ lines # {}
          BY <4>1, <4>3, RequestLines
        <5> QED
          BY <4>1, <4>3, <5>1, SubmitCall DEF Called
      <4>4. AutoFix \in BOOLEAN
        BY StoreAssumption
      <4> QED
        BY <3>4, <4>2, <4>3, <4>4 DEF RmGroup
    <3>5. CASE \/ ReadSize(p) \/ Import(p) \/ Begin(p) \/ AppendLines(p) \/ Commit(p)
               \/ AutofixRewrite(p)
      BY <2>2, <3>5, CallGoesOn DEF Called, NoCall
    <3>6. CASE Register(p)
      <4>1. /\ proc' = proc /\ mode' = mode /\ conn' = conn /\ call[p].at # "idle"
            /\ mode[p] = "single"
        BY <3>6 DEF Register
      <4>2. PICK l \in Line :
               /\ call[p].lines = {l} /\ l.s \notin done[p]
               /\ \/ call' = [call EXCEPT ![p] = NoCall]
                  \/ UNCHANGED done /\ (Goto(p, "seal") \/ Goto(p, "fix"))
        BY <3>6, RegisterEffect
      <4>3. \/ call'[p] = NoCall
            \/ done' = done /\ call'[p].lines = call[p].lines
        <5>1. ASSUME NEW c \in {"seal", "fix"}, Goto(p, c) PROVE call'[p].lines = call[p].lines
          BY <5>1 DEF Goto, TypeOK, Call
        <5>2. call' = [call EXCEPT ![p] = NoCall] => call'[p] = NoCall
          BY DEF TypeOK
        <5> QED
          BY <4>2, <5>1, <5>2
      <4>4. proc[p] = "up"
        BY <2>2, <4>1 DEF Called, NoCall
      <4> QED
        BY <4>1, <4>2, <4>3, <4>4 DEF Called, NoCall
    <3> QED
      BY <1>2, <3>1, <3>2, <3>3, <3>4, <3>5, <3>6 DEF StepOf
  <2> QED
    BY <2>1, <2>3 DEF CallInv
<1> QED
  BY <1>1, <1>2, NextIsStep

-----------------------------------------------------------------------------
(* The log changes by an append, whole or in part, and by a correction. *)
LEMMA LogStep ==
    ASSUME TypeOK, NEW p \in Proc, StepOf(p)
    PROVE  \/ log' = log
           \/ AppendLines(p)
           \/ /\ call[p].at = "append" /\ Abort(p)
              /\ \E some \in SUBSET call[p].new : log' = Append(log, some)
           \/ AutofixRewrite(p)
<1> DEFINE Goal == \/ log' = log
                   \/ AppendLines(p)
                   \/ /\ call[p].at = "append" /\ Abort(p)
                      /\ \E some \in SUBSET call[p].new : log' = Append(log, some)
                   \/ AutofixRewrite(p)
<1>1. ASSUME NEW m \in Modes, NEW f \in BOOLEAN, Start(p, m, f) PROVE Goal
  BY <1>1 DEF Start, disk
<1>2. ASSUME NEW s \in Sample, RmOne(p, s) PROVE Goal
  BY <1>2 DEF RmOne, Submit, disk
<1>3. ASSUME NEW g \in Group, RmGroup(p, g) PROVE Goal
  BY <1>3 DEF RmGroup, Submit, disk
<1>4. CASE Die(p) \/ ReadSize(p) \/ Import(p) \/ Begin(p) \/ Commit(p)
  BY <1>4 DEF Die, ReadSize, Import, Begin, Commit, disk
<1>5. CASE WriteFails(p)
  BY <1>5 DEF WriteFails
<1>6. CASE RaiseCrash(p) \/ Register(p) \/ AutofixFails(p) \/ Seal(p)
  BY <1>6 DEF RaiseCrash, Register, AutofixFails, Seal, disk
<1> QED
  BY <1>1, <1>2, <1>3, <1>4, <1>5, <1>6 DEF StepOf

LEMMA FixedLines ==
    ASSUME TypeOK, Occupied, NEW p \in Proc, AutofixRewrite(p)
    PROVE  LET new == {FixedLine(s) : s \in regs[p][CallGroup(p)].ids}
           IN  /\ CallGroup(p) \in Group
               /\ new \in SUBSET Line
               /\ IdsOf(new) = regs[p][CallGroup(p)].ids
               /\ \A l \in new : l.s \in regs[p][CallGroup(p)].ids /\ l.kind = "fixed"
               /\ log' = Append(log, new)
<1>1. CallGroup(p) \in Group
  BY CallGroupTyped DEF AutofixRewrite
<1>2. regs[p][CallGroup(p)].ids \subseteq Sample
  BY <1>1 DEF TypeOK, Registered
<1>3. log' = Append(log, {FixedLine(s) : s \in regs[p][CallGroup(p)].ids})
  BY DEF AutofixRewrite
<1>4. \A s \in regs[p][CallGroup(p)].ids :
          FixedLine(s) \in Line /\ FixedLine(s).s = s /\ FixedLine(s).kind = "fixed"
  BY <1>2, LinesOfCall
<1> QED
  BY <1>1, <1>3, <1>4 DEF IdsOf

LEMMA LogOnlyGrows ==
    ASSUME TypeOK, Occupied, NEW p \in Proc, StepOf(p)
    PROVE  Lines \subseteq Lines' /\ Logged \subseteq Logged'
<1>1. CASE log' = log
  BY <1>1, LogKept
<1>2. ASSUME NEW new \in SUBSET Line, log' = Append(log, new)
      PROVE  Lines \subseteq Lines' /\ Logged \subseteq Logged'
  BY <1>2, LogGrows DEF TypeOK
<1>3. CASE AppendLines(p)
  BY <1>2, <1>3 DEF AppendLines, TypeOK, Call
<1>4. ASSUME NEW some \in SUBSET call[p].new, log' = Append(log, some)
      PROVE  Lines \subseteq Lines' /\ Logged \subseteq Logged'
  <2>1. some \in SUBSET Line
    BY DEF TypeOK, Call
  <2> QED
    BY <1>2, <1>4, <2>1
<1>5. CASE AutofixRewrite(p)
  BY <1>2, <1>5, FixedLines
<1> QED
  BY <1>1, <1>3, <1>4, <1>5, LogStep

(* The ids of some lines and of all the others *)
LEMMA IdsOfSome ==
    ASSUME NEW A, NEW B
    PROVE  /\ A \subseteq B => IdsOf(A) \subseteq IdsOf(B)
           /\ IdsOf({}) = {}
BY DEF IdsOf

LEMMA StepRecorded == TypeOK /\ Occupied /\ CallInv /\ RecordInv /\ [Next]_vars => RecordInv'
<1> SUFFICES ASSUME TypeOK, Occupied, CallInv, RecordInv, [Next]_vars PROVE RecordInv'
  OBVIOUS
<1>1. CASE UNCHANGED vars
  <2>1. Logged' = Logged
    BY <1>1, LogKept DEF vars, disk
  <2> QED
    BY <1>1, <2>1 DEF vars, disk, memory, RecordInv, Recorded
<1>2. ASSUME NEW p \in Proc, StepOf(p) PROVE RecordInv'
  <2>1. Logged \subseteq Logged'
    BY <1>2, LogOnlyGrows
  <2>2. ASSUME NEW q \in Proc, q # p PROVE Recorded(q)'
    <3>1. Recorded(q)
      BY DEF RecordInv
    <3>2. seen'[q] = seen[q] /\ regs'[q] = regs[q] /\ call'[q] = call[q]
      BY <1>2, <2>2, OthersKept
    <3> QED
      BY <2>1, <3>1, <3>2 DEF Recorded
  <2>3. Recorded(p) /\ claims \subseteq Logged
    BY DEF RecordInv
  <2> DEFINE Goal == claims' \subseteq Logged' /\ Recorded(p)'
  <2>4. ASSUME NEW m \in Modes, NEW f \in BOOLEAN, Start(p, m, f) PROVE Goal
    BY <2>1, <2>3, <2>4 DEF Start, disk, Recorded
  <2>5. ASSUME call'[p] = NoCall, seen' = seen, regs' = regs, claims' = claims PROVE Goal
    BY <2>1, <2>3, <2>5, NoCallFields, IdsOfSome DEF Recorded
  <2>6. ASSUME Die(p) PROVE Goal
    <3>1. call'[p] = NoCall /\ seen'[p] = {} /\ regs'[p] = NoRegs /\ claims' = claims
      BY <2>6 DEF Die, disk, TypeOK
    <3>2. \A g \in Group : NoRegs[g].ids = {}
      BY DEF NoRegs
    <3> QED
      BY <2>1, <2>3, <3>1, <3>2, NoCallFields, IdsOfSome DEF Recorded
  <2>7. ASSUME WriteFails(p) \/ RaiseCrash(p) \/ AutofixFails(p) \/ Seal(p) PROVE Goal
    <3>1. call'[p] = NoCall /\ claims' = claims
      BY <2>7, CallEnds
    <3>2. seen' = seen /\ regs' = regs
      BY <2>7 DEF WriteFails, Abort, RaiseCrash, AutofixFails, Seal, memory
    <3> QED
      BY <2>5, <3>1, <3>2
  <2>8. ASSUME NEW lines, NEW raises, Submit(p, lines, raises) PROVE Goal
    <3>1. /\ call'[p].at = "written" => call'[p].new = {}
          /\ call'[p].at \notin {"commit", "fix", "seal"}
          /\ call'[p].lines = lines
          /\ call'[p].new = {l \in lines : l.s \notin seen[p]}
          /\ claims' = claims /\ seen' = seen /\ regs' = regs
      BY <2>8, SubmitCall
    <3>2. IdsOf(lines) \subseteq seen[p] \union IdsOf(call'[p].new)
      BY <3>1 DEF IdsOf
    <3>3. call'[p].at = "written" => IdsOf(call'[p].new) = {}
      BY <3>1, IdsOfSome
    <3> QED
      BY <2>1, <2>3, <3>1, <3>2, <3>3 DEF Recorded
  <2>9. ASSUME NEW s \in Sample, RmOne(p, s) PROVE Goal
    BY <2>8, <2>9 DEF RmOne
  <2>10. ASSUME NEW g \in Group, RmGroup(p, g) PROVE Goal
    BY <2>8, <2>10 DEF RmGroup
  <2>11. ASSUME ReadSize(p) PROVE Goal
    <3>1. /\ call'[p].at = "import" /\ call'[p].lines = call[p].lines
          /\ call'[p].new = call[p].new
          /\ claims' = claims /\ seen' = seen /\ regs' = regs
      BY <2>11 DEF ReadSize, disk, memory, TypeOK, Call
    <3> QED
      BY <2>1, <2>3, <3>1 DEF Recorded
  <2>12. ASSUME Import(p) PROVE Goal
    <3>1. /\ call'[p].at = "begin" /\ call'[p].lines = call[p].lines
          /\ call'[p].new = call[p].new
          /\ seen' = seen /\ regs' = regs
      BY <2>12 DEF Import, Goto, memory, TypeOK, Call
    <3>2. claims' \subseteq claims \union Logged
      BY <2>12 DEF Import, Logged
    <3> QED
      BY <2>1, <2>3, <3>1, <3>2 DEF Recorded
  <2>13. ASSUME Begin(p) PROVE Goal
    <3>1. /\ call'[p].at \in {"append", "commit"} /\ call'[p].lines = call[p].lines
          /\ call'[p].new = {l \in call[p].new : l.s \notin claims}
          /\ call'[p].at = "commit" => call'[p].new = {}
          /\ claims' = claims /\ seen' = seen /\ regs' = regs
      BY <2>13 DEF Begin, disk, memory, TypeOK, Call
    <3>2. IdsOf(call[p].new) \subseteq claims \union IdsOf(call'[p].new)
      BY <3>1 DEF IdsOf
    <3>3. call'[p].at = "commit" => IdsOf(call'[p].new) = {}
      BY <3>1, IdsOfSome
    <3> QED
      BY <2>1, <2>3, <3>1, <3>2, <3>3 DEF Recorded
  <2>14. ASSUME AppendLines(p) PROVE Goal
    <3>1. /\ call'[p].at = "commit" /\ call'[p].lines = call[p].lines
          /\ call'[p].new = call[p].new
          /\ claims' = claims /\ seen' = seen /\ regs' = regs
      BY <2>14 DEF AppendLines, memory, TypeOK, Call
    <3>2. Logged' = Logged \union IdsOf(call[p].new)
      BY <2>14, LogGrows DEF AppendLines, TypeOK, Call
    <3> QED
      BY <2>3, <3>1, <3>2 DEF Recorded
  <2>15. ASSUME Commit(p) PROVE Goal
    <3>1. /\ call[p].at = "commit"
          /\ call'[p].at = "written" /\ call'[p].lines = call[p].lines
          /\ call'[p].new = call[p].new
          /\ claims' = claims \union IdsOf(call[p].new)
          /\ seen'[p] = seen[p] \union IdsOf(call[p].lines) /\ regs' = regs
      BY <2>15 DEF Commit, Goto, TypeOK, Call
    <3>2. IdsOf(call[p].new) \subseteq IdsOf(call[p].lines)
      BY <2>3, IdsOfSome DEF Recorded
    <3> QED
      BY <2>1, <2>3, <3>1, <3>2 DEF Recorded
  <2>16. ASSUME Register(p) PROVE Goal
    <3>1. /\ claims' = claims /\ seen' = seen /\ call[p].at = "written"
      BY <2>16 DEF Register, disk
    <3>2. PICK l \in Line :
             LET g == GroupOf[l.s]
             IN  /\ call[p].lines = {l} /\ g \in Group
                 /\ \A h \in Group : h # g => regs'[p][h] = regs[p][h]
                 /\ regs'[p][g].ids = regs[p][g].ids \union {l.s}
                 /\ \/ call' = [call EXCEPT ![p] = NoCall]
                    \/ Goto(p, "seal") \/ Goto(p, "fix")
      BY <2>16, RegisterEffect
    <3>3. l.s \in Logged
      BY <2>3, <3>1, <3>2 DEF Recorded, IdsOf
    <3>4. \A g \in Group : regs'[p][g].ids \subseteq Logged
      BY <2>3, <3>2, <3>3 DEF Recorded
    <3>5. \/ call'[p] = NoCall
          \/ call'[p].lines = call[p].lines /\ call'[p].new = call[p].new
      <4>1. ASSUME NEW c \in {"seal", "fix"}, Goto(p, c)
            PROVE  call'[p].lines = call[p].lines /\ call'[p].new = call[p].new
        BY <4>1 DEF Goto, TypeOK, Call
      <4>2. call' = [call EXCEPT ![p] = NoCall] => call'[p] = NoCall
        BY DEF TypeOK
      <4> QED
        BY <3>2, <4>1, <4>2
    <3> QED
      BY <2>1, <2>3, <3>1, <3>4, <3>5, NoCallFields, IdsOfSome DEF Recorded
  <2>17. ASSUME AutofixRewrite(p) PROVE Goal
    <3>1. /\ call[p].at = "fix" /\ call'[p].at = "seal" /\ call'[p].lines = call[p].lines
          /\ call'[p].new = call[p].new
          /\ claims' = claims /\ seen' = seen /\ regs' = regs
      BY <2>17 DEF AutofixRewrite, Goto, memory, TypeOK, Call
    <3> QED
      BY <2>1, <2>3, <3>1 DEF Recorded
  <2>18. Goal
    BY <1>2, <2>4, <2>6, <2>7, <2>9, <2>10, <2>11, <2>12, <2>13, <2>14, <2>15, <2>16, <2>17
       DEF StepOf
  <2> QED
    BY <2>2, <2>18 DEF RecordInv
<1> QED
  BY <1>1, <1>2, NextIsStep

-----------------------------------------------------------------------------
(* Nothing registered is counted as nothing. *)
LEMMA NoRegsCounted ==
    ASSUME NEW g \in Group
    PROVE  /\ NoRegs[g].ids = {} /\ NoRegs[g].count = 0 /\ NoRegs[g].vers = {}
           /\ Cardinality({}) = 0
           /\ 0 >= K => Members(g) = {}
<1>1. NoRegs[g].ids = {} /\ NoRegs[g].count = 0 /\ NoRegs[g].vers = {}
  BY DEF NoRegs
<1>2. 0 >= K => Cardinality(Members(g)) = 0
  BY GroupSize
<1> QED
  BY <1>1, <1>2, GroupSize, FS_EmptySet

LEMMA RegisterCounted ==
    ASSUME TypeOK, CallInv, RegInv, NEW p \in Proc, Register(p)
    PROVE  RegInv'
<1>1. PICK l \in Line :
         LET g == GroupOf[l.s]
         IN  /\ call[p].lines = {l} /\ l.s \notin done[p]
             /\ l.s \in Sample /\ g \in Group /\ CallGroup(p) = g
             /\ \A h \in Group : h # g => regs'[p][h] = regs[p][h]
             /\ regs'[p][g].ids = regs[p][g].ids \union {l.s}
             /\ regs'[p][g].count = regs[p][g].count + 1
             /\ \/ /\ regs'[p][g].count < K
                   /\ done' = [done EXCEPT ![p] = @ \union {l.s}]
                   /\ call' = [call EXCEPT ![p] = NoCall]
                \/ /\ ~(regs'[p][g].count < K)
                   /\ UNCHANGED done
                   /\ Goto(p, "seal") \/ Goto(p, "fix")
  BY RegisterEffect
<1> DEFINE g == GroupOf[l.s]
<1>2. /\ regs[p][g].count \in Nat /\ K \in Nat
      /\ IsFiniteSet(regs[p][g].ids) /\ Counted(p, g) /\ l.s \in Members(g)
      /\ IsFiniteSet(Members(g)) /\ Cardinality(Members(g)) = K
      /\ g \in Group
  <2>1. regs[p][g].count \in Nat /\ Counted(p, g)
    BY <1>1 DEF TypeOK, Registered, RegInv
  <2>2. regs[p][g].ids \in SUBSET Members(g)
    BY <2>1 DEF Counted
  <2>3. l.s \in Members(g)
    BY <1>1 DEF Members
  <2> QED
    BY <1>1, <2>1, <2>2, <2>3, GroupSize, FS_Subset
<1>3. /\ regs'[p][g].ids \in SUBSET Members(g) /\ IsFiniteSet(regs'[p][g].ids)
      /\ regs[p][g].count < K =>
            Cardinality(regs'[p][g].ids) = regs'[p][g].count
  <2>1. regs'[p][g].ids \in SUBSET Members(g)
    BY <1>1, <1>2 DEF Counted
  <2>2. IsFiniteSet(regs[p][g].ids \union {l.s})
    BY <1>2, FS_AddElement
  <2>3. ASSUME regs[p][g].count < K
        PROVE  Cardinality(regs[p][g].ids \union {l.s}) = regs[p][g].count + 1
    <3>1. l.s \notin regs[p][g].ids /\ Cardinality(regs[p][g].ids) = regs[p][g].count
      BY <1>1, <1>2, <2>3 DEF Counted
    <3> QED
      BY <1>2, <3>1, FS_AddElement
  <2> QED
    BY <1>1, <2>1, <2>2, <2>3
<1>4. regs'[p][g].count >= K => regs'[p][g].ids = Members(g)
  <2>1. CASE regs[p][g].count < K /\ regs'[p][g].count >= K
    <3>1. Cardinality(regs'[p][g].ids) = Cardinality(Members(g))
      BY <1>1, <1>2, <1>3, <2>1
    <3> QED
      BY <1>2, <1>3, <3>1, FS_Subset
  <2>2. CASE ~(regs[p][g].count < K)
    BY <1>1, <1>2, <2>2 DEF Counted
  <2> QED
    BY <1>1, <1>2, <2>1, <2>2
<1>5. Counted(p, g)'
  <2>1. ASSUME regs'[p][g].count < K
        PROVE  /\ Cardinality(regs'[p][g].ids) = regs'[p][g].count
               /\ regs'[p][g].ids \subseteq done'[p]
    <3>1. regs[p][g].count < K
      BY <1>1, <1>2, <2>1
    <3>2. done'[p] = done[p] \union {l.s}
      BY <1>1, <2>1 DEF TypeOK
    <3> QED
      BY <1>1, <1>2, <1>3, <3>1, <3>2 DEF Counted
  <2> QED
    BY <1>3, <1>4, <2>1 DEF Counted
<1>6. done[p] \subseteq done'[p]
  BY <1>1 DEF TypeOK
<1>7. ASSUME NEW h \in Group, h # g PROVE Counted(p, h)'
  <2>1. Counted(p, h) /\ regs'[p][h] = regs[p][h]
    BY <1>1, <1>7 DEF RegInv
  <2> QED
    BY <1>6, <2>1 DEF Counted
<1>8. ASSUME call'[p].at \in {"fix", "seal"}
      PROVE  CallGroup(p)' = g /\ regs'[p][g].count >= K
  <2>1. call'[p].lines = {l} /\ ~(regs'[p][g].count < K)
    <3>1. call' = [call EXCEPT ![p] = NoCall] => call'[p].at = "idle"
      BY NoCallFields DEF TypeOK
    <3>2. ASSUME NEW c \in {"seal", "fix"}, Goto(p, c) PROVE call'[p].lines = call[p].lines
      BY <3>2 DEF Goto, TypeOK, Call
    <3> QED
      BY <1>1, <1>8, <3>1, <3>2
  <2> QED
    BY <1>1, <1>2, <2>1 DEF CallGroup
<1>9. ASSUME NEW q \in Proc, q # p
      PROVE  regs'[q] = regs[q] /\ done'[q] = done[q] /\ call'[q] = call[q]
  BY <1>9, OthersKept DEF StepOf
<1>10. ASSUME NEW q \in Proc, q # p
       PROVE  /\ \A h \in Group : Counted(q, h)'
              /\ call'[q].at \in {"fix", "seal"} => regs'[q][CallGroup(q)'].count >= K
  BY <1>9, <1>10 DEF RegInv, Counted, CallGroup
<1> QED
  BY <1>5, <1>7, <1>8, <1>10 DEF RegInv

LEMMA StepCounted == TypeOK /\ Occupied /\ CallInv /\ RegInv /\ [Next]_vars => RegInv'
<1> SUFFICES ASSUME TypeOK, Occupied, CallInv, RegInv, [Next]_vars PROVE RegInv'
  OBVIOUS
<1>1. CASE UNCHANGED vars
  BY <1>1 DEF vars, memory, RegInv, Counted, CallGroup
<1>2. ASSUME NEW p \in Proc, StepOf(p) PROVE RegInv'
  <2>1. CASE Register(p)
    BY <2>1, RegisterCounted
  <2>2. ASSUME NEW q \in Proc,
               regs'[q] = regs[q], done[q] \subseteq done'[q],
               call'[q].at \in {"fix", "seal"} =>
                  call[q].at \in {"fix", "seal"} /\ call'[q].lines = call[q].lines
        PROVE  /\ \A g \in Group : Counted(q, g)'
               /\ call'[q].at \in {"fix", "seal"} => regs'[q][CallGroup(q)'].count >= K
    BY <2>2 DEF RegInv, Counted, CallGroup
  <2>3. ASSUME NEW q \in Proc, q # p
        PROVE  /\ \A g \in Group : Counted(q, g)'
               /\ call'[q].at \in {"fix", "seal"} => regs'[q][CallGroup(q)'].count >= K
    <3>1. regs'[q] = regs[q] /\ done'[q] = done[q] /\ call'[q] = call[q]
      BY <1>2, <2>3, OthersKept
    <3> QED
      BY <2>2, <3>1
  <2> DEFINE Goal == /\ \A g \in Group : Counted(p, g)'
                     /\ call'[p].at \in {"fix", "seal"} => regs'[p][CallGroup(p)'].count >= K
  <2>4. ASSUME NEW m \in Modes, NEW f \in BOOLEAN, Start(p, m, f) PROVE Goal
    BY <2>2, <2>4 DEF Start
  <2>5. ASSUME Die(p) PROVE Goal
    <3>1. call'[p] = NoCall /\ regs'[p] = NoRegs
      BY <2>5 DEF Die, TypeOK
    <3>2. ASSUME NEW g \in Group PROVE Counted(p, g)'
      BY <3>1, NoRegsCounted, GroupSize DEF Counted
    <3> QED
      BY <3>1, <3>2, NoCallFields
  <2>6. ASSUME WriteFails(p) \/ RaiseCrash(p) \/ AutofixFails(p) \/ Seal(p) PROVE Goal
    <3>1. call'[p] = NoCall
      BY <2>6, CallEnds
    <3>2. regs' = regs
      BY <2>6 DEF WriteFails, Abort, RaiseCrash, AutofixFails, Seal, memory
    <3>3. done[p] \subseteq done'[p]
      BY <2>6 DEF WriteFails, Abort, RaiseCrash, AutofixFails, Seal, memory, TypeOK
    <3> QED
      BY <2>2, <3>1, <3>2, <3>3, NoCallFields
  <2>7. ASSUME NEW lines, NEW raises, Submit(p, lines, raises) PROVE Goal
    <3>1. call'[p].at \notin {"fix", "seal"} /\ regs' = regs /\ done' = done
      BY <2>7, SubmitCall
    <3> QED
      BY <2>2, <3>1
  <2>8. ASSUME NEW s \in Sample, RmOne(p, s) PROVE Goal
    BY <2>7, <2>8 DEF RmOne
  <2>9. ASSUME NEW g \in Group, RmGroup(p, g) PROVE Goal
    BY <2>7, <2>9 DEF RmGroup
  <2>10. ASSUME \/ ReadSize(p) \/ Import(p) \/ Begin(p) \/ AppendLines(p) \/ Commit(p)
                \/ AutofixRewrite(p)
         PROVE  Goal
    <3>1. /\ call'[p].at \in {"fix", "seal"} => call[p].at = "fix"
          /\ call'[p].lines = call[p].lines /\ regs' = regs /\ done' = done
      BY <2>10, CallGoesOn
    <3> QED
      BY <2>2, <3>1
  <2>11. Register(p) \/ Goal
    BY <1>2, <2>4, <2>5, <2>6, <2>8, <2>9, <2>10 DEF StepOf
  <2> QED
    BY <2>1, <2>3, <2>11 DEF RegInv
<1> QED
  BY <1>1, <1>2, NextIsStep

-----------------------------------------------------------------------------
LEMMA RequestInWindow ==
    ASSUME NEW p \in Proc, NEW s \in Sample
    PROVE  /\ FaultFor(p, GroupOf[s]) = "crm_crash" =>
                 LineInWindow(CrashLine(s)) /\ Plain(CrashLine(s))
           /\ \A l : l.kind = "score" => LineInWindow(l) /\ Plain(l)
           /\ Fault[GroupOf[s]] \notin {"skew", "dup"} => Verdict(p, s) = "v1"
BY DEF FaultFor, LineInWindow, CrashLine, Plain, Verdict

(* Version 1 alone is no mixture. *)
LEMMA OneVersionSealed == Status({"v1"}) = "SEALED"
BY FS_Singleton DEF Status

LEMMA LogInWindow ==
    ASSUME TypeOK, Occupied, RecordInv, RegInv, WindowInv, NEW p \in Proc, StepOf(p)
    PROVE  \A l \in Lines' : LineInWindow(l)
<1> DEFINE Goal == \A l \in Lines' : LineInWindow(l)
<1>1. \A l \in Lines : LineInWindow(l)
  BY DEF WindowInv
<1>2. CASE log' = log
  BY <1>1, <1>2, LogKept
<1>3. ASSUME NEW some \in SUBSET call[p].new, log' = Append(log, some) PROVE Goal
  <2>1. some \in SUBSET Line
    BY DEF TypeOK, Call
  <2>2. \A l \in some : LineInWindow(l)
    BY DEF RecordInv, Recorded, WindowInv, InWindow
  <2>3. Lines' = Lines \union some
    BY <1>3, <2>1, LogGrows DEF TypeOK
  <2> QED
    BY <1>1, <2>2, <2>3
<1>4. CASE AppendLines(p)
  BY <1>3, <1>4 DEF AppendLines
<1>5. CASE AutofixRewrite(p)
  <2>1. PICK new \in SUBSET Line :
          /\ \A l \in new : l.s \in regs[p][CallGroup(p)].ids /\ l.kind = "fixed"
          /\ log' = Append(log, new)
    BY <1>5, FixedLines
  <2>2. CallGroup(p) \in Group /\ Fault[CallGroup(p)] \in {"skew", "dup"}
    BY <1>5, FixedLines DEF AutofixRewrite, WindowInv, InWindow
  <2>3. regs[p][CallGroup(p)].ids \subseteq Members(CallGroup(p))
    BY <2>2 DEF RegInv, Counted
  <2>4. \A l \in new : LineInWindow(l)
    BY <2>1, <2>2, <2>3 DEF Members, LineInWindow
  <2>5. Lines' = Lines \union new
    BY <2>1, LogGrows DEF TypeOK
  <2> QED
    BY <1>1, <2>4, <2>5
<1> QED
  BY <1>2, <1>3, <1>4, <1>5, LogStep

LEMMA StepInWindow ==
    TypeOK /\ Occupied /\ CallInv /\ RecordInv /\ RegInv /\ WindowInv /\ [Next]_vars => WindowInv'
<1> SUFFICES ASSUME TypeOK, Occupied, CallInv, RecordInv, RegInv, WindowInv, [Next]_vars
             PROVE  WindowInv'
  OBVIOUS
<1>1. CASE UNCHANGED vars
  <2>1. Lines' = Lines /\ regs' = regs /\ call' = call
    BY <1>1, LogKept DEF vars, disk, memory
  <2> QED
    BY <2>1 DEF WindowInv, InWindow, CallGroup, LineInWindow
<1>2. ASSUME NEW p \in Proc, StepOf(p) PROVE WindowInv'
  <2>1. \A l \in Lines' : LineInWindow(l)
    BY <1>2, LogInWindow
  <2>2. ASSUME NEW q \in Proc,
               \A g \in Group : regs'[q][g].vers \subseteq regs[q][g].vers,
               call'[q].lines = call[q].lines,
               call'[q].at = "fix" => call[q].at = "fix"
        PROVE  InWindow(q)'
    <3>1. InWindow(q)
      BY DEF WindowInv
    <3>2. CallGroup(q)' = CallGroup(q)
      BY <2>2 DEF CallGroup
    <3> QED
      BY <2>2, <3>1, <3>2 DEF InWindow, LineInWindow
  <2>3. ASSUME NEW q \in Proc, q # p PROVE InWindow(q)'
    BY <1>2, <2>2, <2>3, OthersKept
  <2>4. ASSUME call'[p] = NoCall,
               \A g \in Group : regs'[p][g].vers \subseteq regs[p][g].vers
        PROVE  InWindow(p)'
    BY <2>4, NoCallFields DEF WindowInv, InWindow
  <2>5. ASSUME NEW m \in Modes, NEW f \in BOOLEAN, Start(p, m, f) PROVE InWindow(p)'
    BY <2>2, <2>5 DEF Start
  <2>6. ASSUME Die(p) PROVE InWindow(p)'
    <3>1. call'[p] = NoCall /\ regs'[p] = NoRegs
      BY <2>6 DEF Die, TypeOK
    <3> QED
      BY <2>4, <3>1, NoRegsCounted
  <2>7. ASSUME WriteFails(p) \/ RaiseCrash(p) \/ AutofixFails(p) \/ Seal(p) PROVE InWindow(p)'
    <3>1. call'[p] = NoCall
      BY <2>7, CallEnds
    <3>2. regs' = regs
      BY <2>7 DEF WriteFails, Abort, RaiseCrash, AutofixFails, Seal, memory
    <3> QED
      BY <2>4, <3>1, <3>2
  <2>8. ASSUME NEW lines, \A l \in lines : LineInWindow(l) /\ Plain(l), NEW raises,
               Submit(p, lines, raises)
        PROVE  InWindow(p)'
    <3>1. call'[p].lines = lines /\ call'[p].at # "fix" /\ regs' = regs
      BY <2>8, SubmitCall
    <3> QED
      BY <2>8, <3>1 DEF WindowInv, InWindow, LineInWindow, Plain
  <2>9. ASSUME NEW s \in Sample, RmOne(p, s) PROVE InWindow(p)'
    <3>1. CASE FaultFor(p, GroupOf[s]) = "crm_crash"
      <4>1. Submit(p, {CrashLine(s)}, TRUE)
        BY <2>9, <3>1 DEF RmOne
      <4>2. LineInWindow(CrashLine(s)) /\ Plain(CrashLine(s))
        BY <3>1, RequestInWindow
      <4> QED
        BY <2>8, <4>1, <4>2
    <3>2. CASE FaultFor(p, GroupOf[s]) # "crm_crash"
      <4>1. Submit(p, {Scored(s, Verdict(p, s), FALSE)}, FALSE)
        BY <2>9, <3>2 DEF RmOne
      <4>2. Scored(s, Verdict(p, s), FALSE).kind = "score"
        BY LinesOfCall
      <4> QED
        BY <2>8, <4>1, <4>2, RequestInWindow
    <3> QED
      BY <3>1, <3>2
  <2>10. ASSUME NEW g \in Group, RmGroup(p, g) PROVE InWindow(p)'
    <3>1. ASSUME FaultFor(p, g) = "crm_crash", NEW s \in Members(g),
                 Submit(p, {CrashLine(s)}, TRUE)
          PROVE  InWindow(p)'
      <4>1. s \in Sample /\ GroupOf[s] = g
        BY DEF Members
      <4>2. LineInWindow(CrashLine(s)) /\ Plain(CrashLine(s))
        BY <3>1, <4>1, RequestInWindow
      <4> QED
        BY <2>8, <3>1, <4>2
    <3>2. ASSUME NEW fixed \in BOOLEAN, NEW lines,
                 lines = {Scored(s, Verdict(p, s), fixed) : s \in Members(g)},
                 Submit(p, lines, FALSE)
          PROVE  InWindow(p)'
      <4>1. \A l \in lines : l.kind = "score"
        BY <3>2, RequestLines, SMTT(30)
      <4>2. \E s \in Sample : TRUE
        BY <2>10 DEF RmGroup, Members
      <4> QED
        BY <2>8, <3>2, <4>1, <4>2, RequestInWindow
    <3>3. AutoFix \in BOOLEAN
      BY StoreAssumption
    <3> QED
      BY <2>10, <3>1, <3>2, <3>3 DEF RmGroup
  <2>11. ASSUME \/ ReadSize(p) \/ Import(p) \/ Begin(p) \/ AppendLines(p) \/ Commit(p)
                \/ AutofixRewrite(p)
         PROVE  InWindow(p)'
    <3>1. call'[p].lines = call[p].lines /\ call'[p].at # "fix" /\ regs' = regs
      BY <2>11, CallGoesOn
    <3> QED
      BY <2>2, <3>1
  <2>12. ASSUME Register(p) PROVE InWindow(p)'
    <3>1. PICK l \in Line :
             LET g == GroupOf[l.s]
             IN  /\ call[p].lines = {l} /\ l.s \in Sample /\ g \in Group
                 /\ \A h \in Group : h # g => regs'[p][h] = regs[p][h]
                 /\ regs'[p][g].vers = regs[p][g].vers \union {Verdict(p, l.s)}
                 /\ \/ call' = [call EXCEPT ![p] = NoCall]
                    \/ Goto(p, "seal")
                    \/ Goto(p, "fix") /\ Status(regs'[p][g].vers) = "ABORTED"
      BY <2>12, RegisterEffect
    <3> DEFINE g == GroupOf[l.s]
    <3>2. InWindow(p)
      BY DEF WindowInv
    <3>3. Fault[g] \notin {"skew", "dup"} => regs'[p][g].vers = {"v1"}
      BY <3>1, <3>2, RequestInWindow DEF InWindow
    <3>4. \A h \in Group : Fault[h] \notin {"skew", "dup"} => regs'[p][h].vers \subseteq {"v1"}
      BY <3>1, <3>2, <3>3 DEF InWindow
    <3>5. call' = [call EXCEPT ![p] = NoCall] => call'[p] = NoCall
      BY DEF TypeOK
    <3>6. ASSUME NEW c \in {"seal", "fix"}, Goto(p, c)
          PROVE  call'[p].lines = call[p].lines /\ call'[p].at = c
      BY <3>6 DEF Goto, TypeOK, Call
    <3>7. ASSUME call'[p].lines = {l} PROVE CallGroup(p)' = g
      BY <3>7 DEF CallGroup
    <3>8. CASE call'[p] = NoCall
      BY <3>4, <3>8, NoCallFields DEF InWindow
    <3>9. CASE Goto(p, "seal")
      BY <3>1, <3>2, <3>4, <3>6, <3>9 DEF InWindow, LineInWindow, Plain
    <3>10. CASE Goto(p, "fix") /\ Status(regs'[p][g].vers) = "ABORTED"
      <4>1. Fault[g] \in {"skew", "dup"}
        BY <3>3, <3>10, OneVersionSealed
      <4>2. call'[p].lines = call[p].lines /\ CallGroup(p)' = g
        BY <3>1, <3>6, <3>7, <3>10
      <4> QED
        BY <3>2, <3>4, <4>1, <4>2 DEF InWindow, LineInWindow, Plain
    <3> QED
      BY <3>1, <3>5, <3>8, <3>9, <3>10
  <2>13. InWindow(p)'
    BY <1>2, <2>5, <2>6, <2>7, <2>9, <2>10, <2>11, <2>12 DEF StepOf
  <2> QED
    BY <2>1, <2>3, <2>13 DEF WindowInv, LineInWindow
<1> QED
  BY <1>1, <1>2, NextIsStep

-----------------------------------------------------------------------------
LEMMA SealsStep ==
    ASSUME NEW p \in Proc, StepOf(p)
    PROVE  seals' = seals \/ Seal(p)
<1>1. \A lines, raises : Submit(p, lines, raises) => seals' = seals
  BY DEF Submit, disk
<1>2. (\E s \in Sample : RmOne(p, s)) => seals' = seals
  BY <1>1 DEF RmOne
<1>3. (\E g \in Group : RmGroup(p, g)) => seals' = seals
  BY <1>1 DEF RmGroup
<1>4. \/ \E m \in Modes, f \in BOOLEAN : Start(p, m, f)
      \/ Die(p) \/ ReadSize(p) \/ Import(p) \/ Begin(p) \/ AppendLines(p) \/ Commit(p)
      => seals' = seals
  BY DEF Start, Die, ReadSize, Import, Begin, AppendLines, Commit, disk
<1>5. WriteFails(p) \/ RaiseCrash(p) \/ Register(p) \/ AutofixRewrite(p) \/ AutofixFails(p)
      => seals' = seals
  BY DEF WriteFails, Abort, RaiseCrash, Register, AutofixRewrite, AutofixFails, disk
<1> QED
  BY <1>2, <1>3, <1>4, <1>5 DEF StepOf

(* What Seal judges is a whole group, and it is in the log. *)
LEMMA WholeGroup ==
    ASSUME TypeOK, Occupied, RecordInv, CallInv, RegInv, NEW p \in Proc, Seal(p)
    PROVE  LET g == CallGroup(p)
               n == IF mode[p] = "single" THEN regs[p][g].ids ELSE Members(g)
           IN  n = Members(g) /\ Members(g) \subseteq Logged
<1> DEFINE g == CallGroup(p)
<1>1. g \in Group
  BY CallGroupTyped DEF Seal
<1>2. CASE mode[p] = "single"
  <2>1. call[p].at = "seal"
    BY <1>2 DEF Seal
  <2>2. regs[p][g].count >= K
    BY <2>1 DEF RegInv
  <2>3. regs[p][g].ids = Members(g)
    BY <1>1, <2>2 DEF RegInv, Counted
  <2>4. regs[p][g].ids \subseteq Logged
    BY <1>1 DEF RecordInv, Recorded
  <2> QED
    BY <1>2, <2>3, <2>4
<1>3. CASE mode[p] # "single"
  <2>1. mode[p] = "group"
    BY <1>3 DEF TypeOK
  <2>2. call[p].at = "written" /\ ~call[p].raises
    BY <2>1 DEF Seal, CallInv, Called
  <2>3. PICK h \in Group : call[p].lines # {} /\ IdsOf(call[p].lines) = Members(h)
    BY <2>1, <2>2 DEF CallInv, Called
  <2>4. g = h
    BY <2>3, WholeLineGroup
  <2>5. IdsOf(call[p].lines) \subseteq Logged
    BY <2>2 DEF RecordInv, Recorded
  <2> QED
    BY <1>3, <2>3, <2>4, <2>5
<1> QED
  BY <1>2, <1>3

LEMMA StepWhole ==
    TypeOK /\ Occupied /\ RecordInv /\ CallInv /\ RegInv /\ SealIsWhole /\ [Next]_vars
    => SealIsWhole'
<1> SUFFICES ASSUME TypeOK, Occupied, RecordInv, CallInv, RegInv, SealIsWhole, [Next]_vars
             PROVE  SealIsWhole'
  OBVIOUS
<1>1. ASSUME seals' = seals, Logged \subseteq Logged' PROVE SealIsWhole'
  BY <1>1 DEF SealIsWhole, Logged, Members
<1>2. CASE UNCHANGED vars
  BY <1>1, <1>2, LogKept DEF vars, disk
<1>3. ASSUME NEW p \in Proc, StepOf(p) PROVE SealIsWhole'
  <2>1. Logged \subseteq Logged'
    BY <1>3, LogOnlyGrows
  <2>2. CASE seals' = seals
    BY <1>1, <2>1, <2>2
  <2>3. CASE Seal(p) /\ seals' # seals
    <3> DEFINE g == CallGroup(p)
    <3>1. PICK r : r.group = g /\ r.ids = Members(g) /\ seals' = Append(seals, r)
      <4>1. ASSUME NEW st, NEW ids, ids = Members(g),
                   seals' = Append(seals, [group |-> g, status |-> st, ids |-> ids])
            PROVE  \E r : r.group = g /\ r.ids = Members(g) /\ seals' = Append(seals, r)
        BY <4>1
      <4> QED
        BY <2>3, <4>1, WholeGroup DEF Seal
    <3>2. Members(g) \subseteq Logged'
      BY <2>1, <2>3, WholeGroup
    <3>3. seals \in Seq([group : Group, status : {"SEALED", "ABORTED"}, ids : SUBSET Sample])
      BY DEF TypeOK
    <3>4. /\ DOMAIN seals' = DOMAIN seals \union {Len(seals) + 1}
          /\ seals'[Len(seals) + 1] = r
          /\ \A i \in DOMAIN seals : seals'[i] = seals[i]
      BY <3>1, <3>3
    <3>5. \A i \in DOMAIN seals : /\ seals[i].ids = Members(seals[i].group)
                                  /\ Members(seals[i].group) \subseteq Logged'
      BY <2>1 DEF SealIsWhole, Logged
    <3>6. \A i \in DOMAIN seals' : /\ seals'[i].ids = Members(seals'[i].group)
                                   /\ Members(seals'[i].group) \subseteq Logged'
      BY <3>1, <3>2, <3>4, <3>5
    <3> QED
      BY <3>6 DEF SealIsWhole, Logged, Members
  <2> QED
    BY <1>3, <2>2, <2>3, SealsStep
<1> QED
  BY <1>2, <1>3, NextIsStep

-----------------------------------------------------------------------------
(* The last of some records *)
LEMMA LastOf ==
    ASSUME NEW n \in Nat, NEW T \in SUBSET (1 .. n), T # {}
    PROVE  \E i \in T : \A j \in T : j <= i
<1> DEFINE R == {n - i : i \in T}
<1>1. R \subseteq Nat /\ R # {}
  <2>1. \A i \in T : i \in Nat /\ i <= n /\ n - i \in Nat
    OBVIOUS
  <2> QED
    BY <2>1
<1>2. PICK x \in R : \A y \in R : ~ (<<y, x>> \in OpToRel(<, Nat))
  BY <1>1, WFMin, NatLessThanWellFounded
<1>3. \A y \in R : ~ (y < x)
  BY <1>1, <1>2 DEF OpToRel
<1>4. PICK i \in T : x = n - i
  OBVIOUS
<1>5. ASSUME NEW j \in T PROVE j <= i
  <2>1. ~ (n - j < x)
    BY <1>3
  <2> QED
    BY <1>4, <2>1
<1> QED
  BY <1>5

(* A lost reward is in the plan: its line has none, no line of its group is a
   corrected one, and so version 1 is what the replay gives it.              *)
LEMMA LostIsReplayed == TypeOK /\ WindowInv => CrashIsReplayed
<1> SUFFICES ASSUME TypeOK, WindowInv, NEW l \in Lines, l.kind = "crash"
             PROVE  l.s \in Replayed /\ GroupOf[l.s] \in ReplayGroups /\ NewReward(l.s) = V1[l.s]
  BY DEF CrashIsReplayed
<1>1. PICK i \in DOMAIN log : l \in log[i]
  BY DEF Lines
<1>2. l \in Line /\ l.s \in Sample /\ GroupOf[l.s] \in Group
  BY <1>1, StoreAssumption DEF TypeOK, Line
<1>3. RewardOf(l) = None /\ Fault[GroupOf[l.s]] = "crm_crash"
  BY DEF WindowInv, LineInWindow, RewardOf
<1>4. i \in ReplayRecords(l.s)
  BY <1>1, <1>3 DEF ReplayRecords
<1>5. GroupOf[l.s] \in ReplayGroups
  BY <1>2, <1>3 DEF ReplayGroups, IncompleteGroups, CrashGroups
<1>6. ReplayRecords(l.s) \in SUBSET (1 .. Len(log)) /\ Len(log) \in Nat
  BY DEF ReplayRecords, TypeOK
<1>7. \E j \in ReplayRecords(l.s) : \A k \in ReplayRecords(l.s) : k <= j
  BY <1>4, <1>6, LastOf
<1> DEFINE last == CHOOSE j \in ReplayRecords(l.s) : \A k \in ReplayRecords(l.s) : k <= j
<1>8. last \in ReplayRecords(l.s)
  BY <1>7
<1>9. \E m \in log[last] : m.s = l.s
  BY <1>8 DEF ReplayRecords
<1>10. LastRecord(l.s) \in log[last] /\ LastRecord(l.s).s = l.s
  BY <1>9 DEF LastRecord
<1>11. LastRecord(l.s) \in Lines
  BY <1>8, <1>10 DEF Lines, ReplayRecords
<1>12. LastRecord(l.s).kind # "fixed"
  BY <1>3, <1>10, <1>11 DEF WindowInv, LineInWindow
<1> QED
  BY <1>2, <1>4, <1>5, <1>12 DEF Replayed, NewReward

-----------------------------------------------------------------------------
StoreInv == /\ TypeOK /\ Occupied /\ RecordInv /\ CallInv /\ RegInv /\ WindowInv /\ SealIsWhole

LEMMA InitInv == Init => StoreInv
<1> SUFFICES ASSUME Init PROVE StoreInv
  OBVIOUS
<1>1. Lines = {} /\ Logged = {}
  BY DEF Init, Lines, Logged, IdsOf
<1>2. ASSUME NEW p \in Proc
      PROVE  /\ call[p] = NoCall /\ seen[p] = {} /\ regs[p] = NoRegs /\ conn[p] = FALSE
             /\ Recorded(p) /\ Called(p) /\ InWindow(p) /\ \A g \in Group : Counted(p, g)
  <2>1. call[p] = NoCall /\ seen[p] = {} /\ regs[p] = NoRegs /\ conn[p] = FALSE
    BY DEF Init
  <2> QED
    BY <1>1, <2>1, NoCallFields, NoRegsCounted, GroupSize, IdsOfSome
       DEF Recorded, Called, InWindow, Counted
<1>3. SealIsWhole
  BY DEF Init, SealIsWhole
<1>4. claims = {}
  BY DEF Init
<1> QED
  BY <1>1, <1>2, <1>3, <1>4, InitTyped, NoCallFields
     DEF StoreInv, RecordInv, CallInv, RegInv, WindowInv

LEMMA NextInv == StoreInv /\ [Next]_vars => StoreInv'
BY StepTyped, StepOccupied, StepRecorded, StepCalled, StepCounted, StepInWindow, StepWhole
   DEF StoreInv

(* What a process takes for written is in the log, its calls write what they were
   called for, and a full group is a whole one.                                  *)
THEOREM StoreInvariant == Spec => []StoreInv
<1> QED
  BY InitInv, NextInv, PTL DEF Spec

(* Everything has the shape its code gives it. *)
THEOREM TypeCorrect == Spec => []TypeOK
<1>1. StoreInv => TypeOK
  BY DEF StoreInv
<1> QED
  BY <1>1, StoreInvariant, PTL

(* _seal_register and _rm_batch_group judge whole groups whose samples all have their
   records: of any number of processes, whatever calls failed or were sent again.   *)
THEOREM SealsAreWhole == Spec => []SealIsWhole
<1>1. StoreInv => SealIsWhole
  BY DEF StoreInv
<1> QED
  BY <1>1, StoreInvariant, PTL

(* A reward lost in a crash of the reward model is in build_plan's plan, and
   selective_replay gives it its version 1 reward.                          *)
THEOREM CrashesAreReplayed == Spec => []CrashIsReplayed
<1>1. StoreInv => CrashIsReplayed
  BY LostIsReplayed DEF StoreInv
<1> QED
  BY <1>1, StoreInvariant, PTL

-----------------------------------------------------------------------------
(* With one process at a time *)
LEMMA Alone ==
    ASSUME CallInv, IndexInv, NEW p \in Proc, proc[p] = "up", NEW q \in Proc, q # p
    PROVE  call[q] = NoCall /\ conn[q] = FALSE
BY DEF CallInv, Called, IndexInv

LEMMA Running ==
    ASSUME CallInv, NEW p \in Proc, call[p].at # "idle"
    PROVE  proc[p] = "up"
BY NoCallFields DEF CallInv, Called

(* A process without a call and a connection relies on nothing. *)
LEMMA NothingIndexed ==
    ASSUME NEW p \in Proc, call'[p] = NoCall, conn'[p] = FALSE
    PROVE  Indexed(p)'
BY NoCallFields DEF Indexed

(* The size recorded beside the claims, and the lines of the log *)
SizeInv == size <= Len(log) /\ (size = Len(log) => Logged \subseteq claims)

LEMMA CallIndexed ==
    ASSUME TypeOK, CallInv, RecordInv, IndexInv, NEW p \in Proc,
           \/ ReadSize(p) \/ Import(p) \/ Begin(p) \/ AppendLines(p) \/ Commit(p)
    PROVE  Indexed(p)' /\ SizeInv'
<1> DEFINE Goal == Indexed(p)' /\ SizeInv'
<1>1. Indexed(p) /\ SizeInv /\ Recorded(p) /\ claims \subseteq Logged
  BY DEF IndexInv, SizeInv, RecordInv
<1>2. Len(log) \in Nat /\ size \in Nat \union {-1} /\ call[p].seenSize \in Nat
  BY DEF TypeOK, None, Call
<1>3. ASSUME ReadSize(p) PROVE Goal
  <2>1. /\ call'[p].at = "import" /\ call'[p].lines = call[p].lines
        /\ call'[p].seenSize = Len(log) /\ call[p].at = "open"
        /\ log' = log /\ claims' = claims /\ size' = size /\ conn' = conn
    BY <1>3 DEF ReadSize, disk, TypeOK, Call
  <2>2. Logged' = Logged
    BY <2>1, LogKept
  <2> QED
    BY <1>1, <2>1, <2>2 DEF Indexed, SizeInv
<1>4. ASSUME Import(p) PROVE Goal
  <2>1. /\ call'[p].at = "begin" /\ call'[p].lines = call[p].lines
        /\ call[p].at = "import" /\ conn'[p] = TRUE /\ log' = log
    BY <1>4 DEF Import, Goto, TypeOK, Call
  <2>2. Logged' = Logged
    BY <2>1, LogKept
  <2>3. call[p].seenSize = Len(log)
    BY <1>1, <2>1 DEF Indexed
  <2>4. size' = Len(log) /\ Logged \subseteq claims'
    BY <1>1, <1>4, <2>3 DEF Import, SizeInv, Logged
  <2> QED
    BY <1>1, <1>2, <2>1, <2>2, <2>4 DEF Indexed, SizeInv
<1>5. ASSUME Begin(p) PROVE Goal
  <2>1. /\ call'[p].at \in {"append", "commit"} /\ call'[p].lines = call[p].lines
        /\ call'[p].new = {l \in call[p].new : l.s \notin claims}
        /\ call'[p].at = "commit" => call'[p].new = {}
        /\ call[p].at = "begin"
        /\ log' = log /\ claims' = claims /\ size' = size /\ conn' = conn
    BY <1>5 DEF Begin, disk, TypeOK, Call
  <2>2. Logged' = Logged
    BY <2>1, LogKept
  <2>3. IdsOf(call'[p].new) \intersect claims = {}
    BY <2>1 DEF IdsOf
  <2>4. conn[p] /\ Logged \subseteq claims
    BY <1>1, <2>1 DEF Indexed
  <2> QED
    BY <1>1, <2>1, <2>2, <2>3, <2>4 DEF Indexed, SizeInv
<1>6. ASSUME AppendLines(p) PROVE Goal
  <2>1. /\ call'[p].at = "commit" /\ call'[p].lines = call[p].lines
        /\ call'[p].new = call[p].new /\ call'[p].seenSize = Len(log) + 1
        /\ call[p].at = "append" /\ log' = Append(log, call[p].new)
        /\ claims' = claims /\ size' = size /\ conn' = conn
    BY <1>2, <1>6 DEF AppendLines, TypeOK, Call
  <2>2. Logged' = Logged \union IdsOf(call[p].new) /\ Len(log') = Len(log) + 1
    BY <2>1, LogGrows DEF TypeOK, Call
  <2>3. conn[p] /\ Logged \subseteq claims
    BY <1>1, <2>1 DEF Indexed
  <2>4. size' <= Len(log') /\ size' # Len(log')
    BY <1>1, <1>2, <2>1, <2>2 DEF SizeInv
  <2> QED
    BY <1>1, <2>1, <2>2, <2>3, <2>4 DEF Indexed, SizeInv
<1>7. ASSUME Commit(p) PROVE Goal
  <2>1. /\ call'[p].at = "written" /\ call'[p].lines = call[p].lines
        /\ call[p].at = "commit"
        /\ log' = log /\ claims' = claims \union IdsOf(call[p].new) /\ conn' = conn
        /\ size' = IF call[p].new = {} THEN size ELSE call[p].seenSize
    BY <1>7 DEF Commit, Goto, TypeOK, Call
  <2>2. Logged' = Logged
    BY <2>1, LogKept
  <2>3. Logged \subseteq claims \union IdsOf(call[p].new)
    BY <1>1, <2>1 DEF Indexed
  <2>4. size' = size \/ size' = Len(log)
    BY <1>1, <2>1 DEF Indexed
  <2>5. size' <= Len(log)
    BY <1>1, <1>2, <2>4 DEF SizeInv
  <2> QED
    BY <1>1, <2>1, <2>2, <2>3, <2>5 DEF Indexed, SizeInv
<1> QED
  BY <1>3, <1>4, <1>5, <1>6, <1>7

(* A step that leaves the files and the connection alone *)
LEMMA SizeKept ==
    ASSUME SizeInv, log' = log, claims' = claims, size' = size
    PROVE  SizeInv'
BY LogKept DEF SizeInv

LEMMA IndexKept ==
    ASSUME IndexInv, NEW p \in Proc, log' = log, claims' = claims, conn'[p] = conn[p],
           call[p].at # "commit", call'[p].at \notin {"import", "append", "commit"},
           call'[p].at = "begin" => conn[p],
           \A l, m \in call'[p].lines : l.s = m.s => l = m
    PROVE  Indexed(p)'
<1>1. Logged' = Logged
  BY LogKept
<1>2. Indexed(p)
  BY DEF IndexInv
<1> QED
  BY <1>1, <1>2 DEF Indexed

LEMMA RequestIndexed ==
    ASSUME TypeOK, IndexInv, NEW p \in Proc,
           \/ \E s \in Sample : RmOne(p, s)
           \/ \E g \in Group : RmGroup(p, g)
    PROVE  Indexed(p)' /\ SizeInv'
<1>1. ASSUME NEW lines, \A l, m \in lines : l.s = m.s => l = m, NEW raises,
             Submit(p, lines, raises), call[p].at = "idle"
      PROVE  Indexed(p)' /\ SizeInv'
  <2>1. /\ call'[p].at \in {"written", "begin", "open"} /\ (call'[p].at = "begin" => conn[p])
        /\ call'[p].lines = lines
        /\ log' = log /\ claims' = claims /\ size' = size /\ conn' = conn
    BY <1>1, SubmitCall
  <2>2. SizeInv
    BY DEF IndexInv, SizeInv
  <2> QED
    BY <1>1, <2>1, <2>2, IndexKept, SizeKept
<1>2. ASSUME NEW s \in Sample, RmOne(p, s) PROVE Indexed(p)' /\ SizeInv'
  <2>1. call[p].at = "idle"
    BY <1>2 DEF RmOne, Idle
  <2> QED
    BY <1>1, <1>2, <2>1 DEF RmOne
<1>3. ASSUME NEW g \in Group, RmGroup(p, g) PROVE Indexed(p)' /\ SizeInv'
  <2>1. call[p].at = "idle"
    BY <1>3 DEF RmGroup, Idle
  <2>2. ASSUME NEW l, Submit(p, {l}, TRUE) PROVE Indexed(p)' /\ SizeInv'
    BY <1>1, <2>1, <2>2
  <2>3. ASSUME NEW fixed \in BOOLEAN, NEW lines,
               lines = {Scored(s, Verdict(p, s), fixed) : s \in Members(g)},
               Submit(p, lines, FALSE)
        PROVE  Indexed(p)' /\ SizeInv'
    <3>1. /\ lines \subseteq Line /\ IdsOf(lines) = Members(g)
          /\ \A l \in lines : l.kind = "score"
          /\ \A l, m \in lines : l.s = m.s => l = m
      BY <2>3, RequestLines
    <3> QED
      BY <1>1, <2>1, <2>3, <3>1
  <2>4. AutoFix \in BOOLEAN
    BY StoreAssumption
  <2> QED
    BY <1>3, <2>2, <2>3, <2>4 DEF RmGroup
<1> QED
  BY <1>2, <1>3

LEMMA EndIndexed ==
    ASSUME TypeOK, Occupied, CallInv, RecordInv, IndexInv, NEW p \in Proc,
           \/ Die(p) \/ WriteFails(p) \/ RaiseCrash(p) \/ AutofixFails(p) \/ Seal(p)
           \/ Register(p) \/ AutofixRewrite(p)
    PROVE  Indexed(p)' /\ SizeInv'
<1> DEFINE Goal == Indexed(p)' /\ SizeInv'
<1>1. SizeInv /\ Indexed(p) /\ Len(log) \in Nat /\ size \in Nat \union {-1}
  BY DEF IndexInv, SizeInv, TypeOK, None
<1>2. ASSUME NEW some \in SUBSET Line, log' = Append(log, some), size' = size PROVE SizeInv'
  <2>1. Len(log') = Len(log) + 1
    BY <1>2, LogGrows DEF TypeOK
  <2> QED
    BY <1>1, <1>2, <2>1 DEF SizeInv
<1>3. ASSUME Die(p) PROVE Goal
  <2>1. call'[p] = NoCall /\ conn'[p] = FALSE /\ log' = log /\ claims' = claims /\ size' = size
    BY <1>3 DEF Die, disk, TypeOK
  <2> QED
    BY <1>1, <2>1, NothingIndexed, SizeKept
<1>4. ASSUME WriteFails(p) PROVE Goal
  <2>1. call'[p] = NoCall /\ conn'[p] = FALSE /\ claims' = claims /\ size' = size
    BY <1>4 DEF WriteFails, Abort, TypeOK
  <2>2. log' = log \/ \E some \in SUBSET Line : log' = Append(log, some)
    <3>1. call[p].new \in SUBSET Line
      BY DEF TypeOK, Call
    <3> QED
      BY <1>4, <3>1 DEF WriteFails
  <2> QED
    BY <1>1, <1>2, <2>1, <2>2, NothingIndexed, SizeKept
<1>5. ASSUME RaiseCrash(p) \/ AutofixFails(p) \/ Seal(p) PROVE Goal
  <2>1. call'[p] = NoCall /\ claims' = claims /\ size' = size
    BY <1>5, CallEnds
  <2>2. call[p].at # "commit" /\ log' = log /\ conn' = conn
    BY <1>5 DEF RaiseCrash, AutofixFails, Seal, disk
  <2> QED
    BY <1>1, <2>1, <2>2, IndexKept, SizeKept, NoCallFields
<1>6. ASSUME Register(p) PROVE Goal
  <2>1. /\ call[p].at = "written" /\ log' = log /\ conn' = conn /\ claims' = claims
        /\ size' = size
    BY <1>6 DEF Register, disk
  <2>2. \/ call'[p] = NoCall
        \/ call'[p].at \in {"seal", "fix"} /\ call'[p].lines = call[p].lines
    <3>1. call' = [call EXCEPT ![p] = NoCall] \/ Goto(p, "seal") \/ Goto(p, "fix")
      BY <1>6, RegisterEffect
    <3>2. call' = [call EXCEPT ![p] = NoCall] => call'[p] = NoCall
      BY DEF TypeOK
    <3>3. ASSUME NEW c \in {"seal", "fix"}, Goto(p, c)
          PROVE  call'[p].lines = call[p].lines /\ call'[p].at = c
      BY <3>3 DEF Goto, TypeOK, Call
    <3> QED
      BY <3>1, <3>2, <3>3
  <2> QED
    BY <1>1, <2>1, <2>2, IndexKept, SizeKept, NoCallFields DEF Indexed
<1>7. ASSUME AutofixRewrite(p) PROVE Goal
  <2>1. PICK new \in SUBSET Line : /\ IdsOf(new) = regs[p][CallGroup(p)].ids
                                   /\ log' = Append(log, new)
                                   /\ CallGroup(p) \in Group
    BY <1>7, FixedLines
  <2>2. Logged' = Logged
    <3>1. IdsOf(new) \subseteq Logged
      BY <2>1 DEF RecordInv, Recorded
    <3>2. Logged' = Logged \union IdsOf(new)
      BY <2>1, LogGrows DEF TypeOK
    <3> QED
      BY <3>1, <3>2
  <2>3. /\ call[p].at = "fix" /\ call'[p].at = "seal" /\ call'[p].lines = call[p].lines
        /\ claims' = claims /\ size' = size /\ conn' = conn
    BY <1>7 DEF AutofixRewrite, Goto, TypeOK, Call
  <2> QED
    BY <1>1, <1>2, <2>1, <2>2, <2>3 DEF Indexed
<1> QED
  BY <1>3, <1>4, <1>5, <1>6, <1>7

LEMMA StepIndexed ==
    ASSUME Exclusive
    PROVE  TypeOK /\ Occupied /\ CallInv /\ RecordInv /\ IndexInv /\ [Next]_vars => IndexInv'
<1> SUFFICES ASSUME TypeOK, Occupied, CallInv, RecordInv, IndexInv, [Next]_vars
             PROVE  IndexInv'
  OBVIOUS
<1>1. CASE UNCHANGED vars
  <2>1. Logged' = Logged
    BY <1>1, LogKept DEF vars, disk
  <2> QED
    BY <1>1, <2>1 DEF vars, disk, IndexInv, Indexed
<1>2. ASSUME NEW p \in Proc, StepOf(p) PROVE IndexInv'
  <2>1. CASE \E m \in Modes, f \in BOOLEAN : Start(p, m, f)
    <3>1. /\ \A q \in Proc : proc[q] # "up"
          /\ proc' = [proc EXCEPT ![p] = "up"]
          /\ log' = log /\ claims' = claims /\ size' = size /\ conn' = conn /\ call' = call
      BY <2>1 DEF Start, disk
    <3>2. \A q \in Proc : proc'[q] = "up" => q = p
      BY <3>1 DEF TypeOK
    <3>3. Logged' = Logged
      BY <3>1, LogKept
    <3> QED
      BY <3>1, <3>2, <3>3 DEF IndexInv, Indexed
  <2>2. CASE ~ \E m \in Modes, f \in BOOLEAN : Start(p, m, f)
    <3>1. proc[p] = "up"
      <4>1. Die(p) \/ Idle(p) \/ call[p].at # "idle"
        BY <1>2, <2>2 DEF StepOf, RmOne, RmGroup, ReadSize, Import, Begin, AppendLines, Commit,
                          WriteFails, RaiseCrash, Register, AutofixRewrite, AutofixFails, Seal
      <4> QED
        BY <4>1, Running DEF Die, Idle
    <3>2. ASSUME NEW q \in Proc, q # p PROVE Indexed(q)' /\ proc'[q] # "up"
      <4>1. call'[q] = NoCall /\ conn'[q] = FALSE
        BY <1>2, <3>1, <3>2, Alone, OthersKept
      <4>2. proc'[q] # "up"
        BY <1>2, <3>1, <3>2, OthersKept DEF IndexInv
      <4> QED
        BY <4>1, <4>2, <3>2, NothingIndexed
    <3>3. Indexed(p)' /\ SizeInv'
      BY <1>2, <2>2, CallIndexed, RequestIndexed, EndIndexed DEF StepOf
    <3> QED
      BY <3>2, <3>3 DEF IndexInv, SizeInv
  <2> QED
    BY <2>1, <2>2
<1> QED
  BY <1>1, <1>2, NextIsStep

(* What is appended is new: plain lines of samples that are not in the log, one of
   each, or corrected lines.                                                      *)
LEMMA OneLineGrows ==
    ASSUME TypeOK, OneLine, NEW new \in SUBSET Line, log' = Append(log, new),
           \A l \in new : Plain(l) => l.s \notin Logged,
           \A l, m \in new : Plain(l) /\ Plain(m) /\ l.s = m.s => l = m
    PROVE  OneLine'
<1>1. /\ Len(log) \in Nat /\ Len(log') = Len(log) + 1
      /\ \A i \in 1 .. Len(log) : log'[i] = log[i]
      /\ log'[Len(log) + 1] = new
      /\ DOMAIN log = 1 .. Len(log) /\ DOMAIN log' = 1 .. Len(log')
  BY LogGrows DEF TypeOK
<1> SUFFICES ASSUME NEW i \in DOMAIN log', NEW j \in DOMAIN log',
                    NEW l \in log'[i], NEW m \in log'[j],
                    Plain(l), Plain(m), l.s = m.s
             PROVE  i = j /\ l = m
  BY DEF OneLine, Plain
<1>2. \A k \in 1 .. Len(log) : \A x \in log[k] : x.s \in Logged
  BY <1>1 DEF Logged, Lines, IdsOf
<1>3. i \in 1 .. Len(log) \/ i = Len(log) + 1
  BY <1>1
<1>4. j \in 1 .. Len(log) \/ j = Len(log) + 1
  BY <1>1
<1>5. CASE i \in 1 .. Len(log) /\ j \in 1 .. Len(log)
  BY <1>1, <1>5 DEF OneLine
<1>6. CASE i \in 1 .. Len(log) /\ j = Len(log) + 1
  BY <1>1, <1>2, <1>6
<1>7. CASE i = Len(log) + 1 /\ j \in 1 .. Len(log)
  BY <1>1, <1>2, <1>7
<1>8. CASE i = Len(log) + 1 /\ j = Len(log) + 1
  BY <1>1, <1>8
<1> QED
  BY <1>3, <1>4, <1>5, <1>6, <1>7, <1>8

LEMMA StepOneLine ==
    TypeOK /\ Occupied /\ RecordInv /\ WindowInv /\ IndexInv /\ OneLine /\ [Next]_vars => OneLine'
<1> SUFFICES ASSUME TypeOK, Occupied, RecordInv, WindowInv, IndexInv, OneLine, [Next]_vars
             PROVE  OneLine'
  OBVIOUS
<1>1. ASSUME log' = log PROVE OneLine'
  BY <1>1 DEF OneLine
<1>2. ASSUME NEW p \in Proc, call[p].at = "append", NEW some \in SUBSET call[p].new,
             log' = Append(log, some)
      PROVE  OneLine'
  <2>1. some \in SUBSET Line /\ some \subseteq call[p].lines
    BY DEF TypeOK, Call, RecordInv, Recorded
  <2>2. Logged \subseteq claims /\ IdsOf(call[p].new) \intersect claims = {}
    BY <1>2 DEF IndexInv, Indexed
  <2>3. \A l \in some : l.s \notin Logged
    BY <2>2 DEF IdsOf
  <2>4. \A l, m \in some : l.s = m.s => l = m
    BY <2>1 DEF IndexInv, Indexed
  <2> QED
    BY <1>2, <2>1, <2>3, <2>4, OneLineGrows
<1>3. ASSUME NEW p \in Proc, AutofixRewrite(p) PROVE OneLine'
  <2>1. PICK new \in SUBSET Line : (\A l \in new : l.kind = "fixed") /\ log' = Append(log, new)
    BY <1>3, FixedLines
  <2> QED
    BY <2>1, OneLineGrows DEF Plain
<1>4. ASSUME NEW p \in Proc, StepOf(p) PROVE OneLine'
  BY <1>1, <1>2, <1>3, <1>4, LogStep DEF AppendLines
<1> QED
  BY <1>1, <1>4, NextIsStep DEF vars, disk

(* rewards.jsonl is idempotent, with one reward process at a time: a process that dies
   between the append and the commit, a write that fails in part, a call that is sent
   again never add a second record of a sample (_cas_write_many, _initialize_cas_index). *)
THEOREM OneRecordOfASample == ASSUME Exclusive PROVE Spec => []OneLine
<1>1. Init => StoreInv /\ IndexInv /\ OneLine
  <2> SUFFICES ASSUME Init PROVE IndexInv /\ OneLine
    BY InitInv
  <2>1. Logged = {} /\ Len(log) = 0 /\ size = -1
    BY DEF Init, Lines, Logged, IdsOf, None
  <2>2. \A p \in Proc : call[p] = NoCall /\ conn[p] = FALSE /\ proc[p] = "new"
    BY DEF Init
  <2>3. IndexInv
    BY <2>1, <2>2, NoCallFields DEF IndexInv, Indexed
  <2>4. OneLine
    BY DEF Init, OneLine
  <2> QED
    BY <2>3, <2>4
<1>2. StoreInv /\ IndexInv /\ OneLine /\ [Next]_vars => (StoreInv /\ IndexInv /\ OneLine)'
  BY NextInv, StepIndexed, StepOneLine DEF StoreInv
<1> QED
  BY <1>1, <1>2, PTL DEF Spec

-----------------------------------------------------------------------------
(* ConsistencyOracle                                                          *)

(* What is a list of update numbers in increasing order *)
Inc(q) == q \in Seq(Nat) /\ \A i, j \in DOMAIN q : i < j => q[i] < q[j]

Loads == Of("checkpoint_loaded")

(* l is the last load before event i. *)
Under(l, i) == l \in Loads /\ l < i /\ \A j \in Loads : j < i => j <= l

(* The updates that ended well behind event l and not behind event h *)
Done(l, h) == {u \in UpdateIds : updates[u].successful /\ l < updates[u].ended /\ updates[u].ended <= h}

Event ==
    [type : {"initial_state", "fault_observed", "role_ready", "role_down"}]
    \union [type : {"checkpoint_loaded"}, state : Nat, epoch : Nat]
    \union [type : {"authorize"}, group : Groups, attempt : Nat, epoch : Nat]
    \union [type : {"optimizer_start"}, update : Nat]
    \union [type : {"optimizer_end"}, update : Nat, epoch : Nat, successful : BOOLEAN]
    \union [type : {"checkpoint_schedule", "checkpoint_persisted"}, state : Nat]
Grant == [type : {"authorize"}, group : Groups, attempt : Nat, epoch : Nat]
State == [parent : Nat \union {Nil}, epoch : Nat, updates : Seq(Nat), consumed : SUBSET Groups,
          scheduled : Nat, stored : Nat]
Trained == [group : Groups, attempt : Nat, admitted : BOOLEAN, epoch : Nat, loaded : Nat, started : Nat,
            ended : Nat, successful : BOOLEAN, authority : Grant, apart : BOOLEAN]
Trainer == [loaded : Nat, base : Nat, since : Seq(Nat), epoch : Nat]

Typed ==
    /\ events \in Seq(Event) /\ states \in Seq(State) /\ updates \in Seq(Trained)
    /\ live \in Trainer /\ running \in Nat \union {Nil} /\ pending \in Nat \union {Nil}
    /\ authority \in [Groups -> Grant] /\ content \in Seq(Seq(Nat)) /\ Len(content) = Len(states)
    /\ lies \in Nat /\ final \in Nat \union {Nil}
    /\ Now >= 2 /\ 2 \in Loads /\ Len(states) >= 1

(* A load took a state that was stored. *)
LoadInv == \A l \in Loads :
    /\ events[l].state \in StateIds
    /\ 0 < states[events[l].state].stored /\ states[events[l].state].stored < l

(* What a save is made of, and where its two events are *)
SaveFits(s) ==
    IF s = First
    THEN /\ states[s].scheduled = 1 /\ states[s].stored = 1
         /\ states[s].updates = <<>> /\ states[s].consumed = {}
    ELSE /\ states[s].parent \in 1 .. s - 1
         /\ ToSet(states[s].updates) \subseteq UpdateIds
         /\ states[s].scheduled \in 3 .. Now /\ events[states[s].scheduled].type = "checkpoint_schedule"
         /\ states[s].stored # 0 =>
               /\ states[s].scheduled < states[s].stored /\ states[s].stored <= Now
               /\ events[states[s].stored].type = "checkpoint_persisted"
         /\ \A l \in Loads : ~(states[s].scheduled < l /\ l < states[s].stored)
SaveInv == \A s \in StateIds : SaveFits(s)

(* Saves follow each other: one that was stored was so before the next. *)
OrderInv == \A s, t \in StateIds : s < t =>
    states[s].scheduled < states[t].scheduled /\ states[s].stored < states[t].scheduled

PendingInv == pending # Nil =>
    /\ pending \in StateIds /\ pending # First /\ pending = Len(states)
    /\ states[pending].stored = 0 /\ \A l \in Loads : l < states[pending].scheduled

(* The weights of a state: those of the state that was loaded, and what ended well since *)
Holds(s) ==
    /\ Inc(content[s])
    /\ \A u \in ToSet(content[s]) :
          u \in UpdateIds /\ updates[u].successful /\ updates[u].ended <= states[s].scheduled
    /\ s = First => content[s] = <<>>
    /\ s # First => \A l \in Loads : Under(l, states[s].scheduled) =>
          ToSet(content[s]) = ToSet(content[events[l].state]) \union Done(l, states[s].scheduled)
ContentInv == \A s \in StateIds : Holds(s)

Low(l) == IF live.base = live.loaded THEN l ELSE states[live.base].scheduled

(* The trainer goes on from what it loaded or has saved since. *)
LiveInv ==
    /\ live.base \in StateIds
    /\ live.base = pending \/ states[live.base].stored # 0
    /\ Inc(live.since)
    /\ \A l \in Loads : Under(l, Now + 1) =>
          /\ events[l].state = live.loaded /\ events[l].epoch = live.epoch
          /\ live.base = live.loaded => \A s \in StateIds : states[s].scheduled <= l
          /\ live.base # live.loaded => live.base = Len(states) /\ l < states[live.base].scheduled
          /\ ToSet(live.since) = Done(Low(l), Now)

(* An update: its events, its load, and the authority its group had *)
TrainedWell(u) ==
    /\ updates[u].started \in 3 .. Now /\ events[updates[u].started].type = "optimizer_start"
    /\ updates[u].ended # 0 =>
          /\ updates[u].started < updates[u].ended /\ updates[u].ended <= Now
          /\ events[updates[u].ended] = [type |-> "optimizer_end", update |-> u, epoch |-> updates[u].epoch,
                                         successful |-> updates[u].successful]
          /\ \A l \in Loads : ~(updates[u].started < l /\ l < updates[u].ended)
    /\ updates[u].successful => updates[u].ended # 0
    /\ \A l \in Loads : Under(l, updates[u].started) => events[l].epoch = updates[u].epoch
    /\ \E a \in Of("authorize") :
          /\ a < updates[u].started /\ events[a] = updates[u].authority
          /\ events[a].group = updates[u].group
          /\ \A j \in Of("authorize") : events[j].group = updates[u].group /\ j < updates[u].started => j <= a
UpdateInv == \A u \in UpdateIds : TrainedWell(u)

TurnInv == \A u, v \in UpdateIds : u < v =>
    updates[u].started < updates[v].started /\ updates[u].ended < updates[v].started

RunningInv == running # Nil =>
    /\ running \in UpdateIds /\ running = Len(updates) /\ updates[running].ended = 0
    /\ \A l \in Loads : l < updates[running].started

EndInv == \A i \in Of("optimizer_end") :
    events[i].update \in UpdateIds /\ updates[events[i].update].ended = i

AuthorityInv == \A g \in Groups : \E a \in Of("authorize") :
    /\ events[a] = authority[g] /\ events[a].group = g
    /\ \A j \in Of("authorize") : events[j].group = g => j <= a

FaultInv ==
    /\ \A f \in Faults : f + 1 \in Loads
    /\ \A f, g \in Faults : f = g

FinalInv == final # Nil =>
    /\ final \in StateIds /\ states[final].stored # 0
    /\ running = Nil /\ pending = Nil /\ Faults # {}

(* A true account names what a save was made of *)
TrueBase(s, l) == IF states[s].parent = events[l].state THEN l ELSE states[states[s].parent].scheduled
TrueSave(s, l) ==
    /\ states[s].epoch = events[l].epoch
    /\ states[s].consumed = GroupsOf(content[s])
    /\ states[states[s].parent].stored # 0
    /\ states[s].parent # events[l].state => l < states[states[s].parent].scheduled
    /\ Inc(states[s].updates)
    /\ ToSet(states[s].updates) = Done(TrueBase(s, l), states[s].scheduled)
    /\ \A t \in StateIds : t < s => states[t].scheduled <= TrueBase(s, l)
TruthInv == lies = 0 =>
    /\ \A s \in StateIds \ {First}, l \in Loads : Under(l, states[s].scheduled) => TrueSave(s, l)
    /\ \A u \in UpdateIds, l \in Loads : Under(l, updates[u].started) => updates[u].loaded = events[l].state

(* What is apart from every save neither overlaps one nor was running when it was lost. *)
ApartInv == \A u \in UpdateIds, s \in StateIds : updates[u].apart =>
    \/ updates[u].ended # 0 /\ updates[u].ended < states[s].scheduled
    \/ states[s].stored < updates[u].started /\ pending # s
    \/ updates[u].ended = 0 /\ running # u

(* The invariant of the run and its record; each part but the last two holds whatever
   the account says, TruthInv is what a true one says besides.                 *)
OracleInv ==
    /\ Typed /\ LoadInv /\ SaveInv /\ OrderInv /\ PendingInv /\ ContentInv /\ LiveInv /\ UpdateInv /\ TurnInv
    /\ RunningInv /\ EndInv /\ AuthorityInv /\ FaultInv /\ FinalInv /\ TruthInv /\ ApartInv

-----------------------------------------------------------------------------
(* Numbers, increasing lists, and functions defined by recursion *)

LEMMA NatLeast ==
    ASSUME NEW T, T \subseteq Nat, T # {}
    PROVE  \E x \in T : \A y \in T : ~(y < x)
<1>1. IsWellFoundedOn({ss \in Nat \X Nat : ss[1] < ss[2]}, Nat)
  BY NatLessThanWellFounded DEF OpToRel
<1>2. PICK x \in T : \A y \in T : ~(<<y, x>> \in {ss \in Nat \X Nat : ss[1] < ss[2]})
  BY <1>1, WFMin
<1> QED
  BY <1>2

LEMMA NatGreatest ==
    ASSUME NEW n \in Nat, NEW T, T \subseteq 0 .. n, T # {}
    PROVE  \E x \in T : \A y \in T : y <= x
<1> DEFINE D == {n - x : x \in T}
<1>1. D \subseteq Nat /\ D # {}
  <2>1. \A x \in T : n - x \in Nat
    OBVIOUS
  <2> QED
    BY <2>1
<1>2. PICK d \in D : \A e \in D : ~(e < d)
  BY <1>1, NatLeast
<1>3. PICK x \in T : d = n - x
  BY <1>2
<1>4. ASSUME NEW y \in T PROVE y <= x
  <2>1. ~(n - y < d)
    BY <1>2
  <2> QED
    BY <1>3, <2>1
<1> QED
  BY <1>4

LEMMA MaxIs ==
    ASSUME NEW T, T \subseteq Nat, NEW x \in T, \A y \in T : y <= x
    PROVE  Max(T) = x
<1>1. \A z \in T : (\A y \in T : z >= y) => z = x
  OBVIOUS
<1>2. \A y \in T : x >= y
  OBVIOUS
<1> QED
  BY <1>1, <1>2 DEF Max

LEMMA MinIs ==
    ASSUME NEW T, T \subseteq Nat, T # {}
    PROVE  Min(T) \in T /\ \A y \in T : Min(T) <= y
<1>1. PICK x \in T : \A y \in T : ~(y < x)
  BY NatLeast
<1>2. \A y \in T : x =< y
  BY <1>1
<1> QED
  BY <1>2 DEF Min

(* Some function from m .. n to V has value b at m, and at s what g makes of its value at p[s]. *)
Recursive(m, n, V, b, p, g) == \E f \in [m .. n -> V] :
    \A s \in m .. n : f[s] = IF s = m THEN b ELSE g[<<f[p[s]], s>>]

(* A function that is defined by recursion along smaller arguments exists. *)
LEMMA Recursion ==
    ASSUME NEW m \in Nat, NEW n \in Nat, NEW V, NEW b \in V, NEW p, NEW g,
           \A s \in m + 1 .. n : p[s] \in m .. s - 1,
           \A v \in V, s \in m + 1 .. n : g[<<v, s>>] \in V
    PROVE  Recursive(m, n, V, b, p, g)
<1> DEFINE Up(k, f) == /\ f = [s \in m .. k |-> f[s]]
                       /\ \A s \in m .. k : f[s] \in V /\ f[s] = IF s = m THEN b ELSE g[<<f[p[s]], s>>]
           Bad == {k \in Nat : k <= n /\ ~\E f : Up(k, f)}
<1>1. Bad = {}
  <2>1. SUFFICES ASSUME Bad # {} PROVE FALSE
    OBVIOUS
  <2>2. PICK k \in Bad : \A j \in Bad : ~(j < k)
    BY <2>1, NatLeast
  <2>3. k >= m
    <3>1. SUFFICES ASSUME k < m PROVE FALSE
      OBVIOUS
    <3>2. Up(k, [s \in m .. k |-> b])
      BY <3>1
    <3> QED
      BY <2>2, <3>2
  <2>4. CASE k = m
    <3>1. Up(k, [s \in m .. k |-> b])
      BY <2>4
    <3> QED
      BY <2>2, <3>1
  <2>5. CASE k > m
    <3>1. k - 1 \in Nat /\ k - 1 <= n /\ k - 1 \notin Bad
      BY <2>2, <2>5
    <3>2. PICK f : Up(k - 1, f)
      BY <3>1
    <3>3. p[k] \in m .. k - 1 /\ k \in m + 1 .. n
      BY <2>2, <2>5
    <3>4. PICK v : v = g[<<f[p[k]], k>>]
      OBVIOUS
    <3>5. v \in V
      BY <3>2, <3>3, <3>4
    <3>6. PICK h : h = [s \in m .. k |-> IF s = k THEN v ELSE f[s]]
      OBVIOUS
    <3>7. \A s \in m .. k - 1 : h[s] = f[s]
      BY <3>3, <3>6
    <3>8. h[k] = v
      BY <3>3, <3>6
    <3>9. h[p[k]] = f[p[k]]
      BY <3>3, <3>7
    <3>10. ASSUME NEW s \in m .. k - 1
           PROVE  h[s] \in V /\ h[s] = IF s = m THEN b ELSE g[<<h[p[s]], s>>]
      <4>1. CASE s = m
        BY <3>2, <3>7, <4>1
      <4>2. CASE s # m
        <5>1. s \in m + 1 .. n /\ p[s] \in m .. k - 1
          BY <2>2, <3>10, <4>2
        <5>2. h[p[s]] = f[p[s]]
          BY <3>7, <5>1
        <5> QED
          BY <3>2, <3>7, <4>2, <5>2
      <4> QED
        BY <4>1, <4>2
    <3>11. h = [s \in m .. k |-> h[s]]
      BY <3>6
    <3>12. ASSUME NEW s \in m .. k
           PROVE  h[s] \in V /\ h[s] = IF s = m THEN b ELSE g[<<h[p[s]], s>>]
      <4>1. CASE s = k
        BY <2>5, <3>4, <3>5, <3>8, <3>9, <4>1
      <4>2. CASE s # k
        <5>1. s \in m .. k - 1
          BY <2>2, <3>12, <4>2
        <5> QED
          BY <3>10, <5>1
      <4> QED
        BY <4>1, <4>2
    <3>13. Up(k, h)
      BY <3>11, <3>12
    <3> QED
      BY <2>2, <3>13
  <2> QED
    BY <2>2, <2>3, <2>4, <2>5
<1>2. PICK f : Up(n, f)
  BY <1>1
<1>3. f \in [m .. n -> V]
  BY <1>2
<1> QED
  BY <1>2, <1>3 DEF Recursive

(* Increasing lists of the same elements are the same *)
LEMMA IncUnique ==
    ASSUME NEW q, NEW r, Inc(q), Inc(r), ToSet(q) = ToSet(r)
    PROVE  q = r
<1>1. /\ q \in Seq(Nat) /\ r \in Seq(Nat)
      /\ \A i, j \in 1 .. Len(q) : i < j => q[i] < q[j]
      /\ \A i, j \in 1 .. Len(r) : i < j => r[i] < r[j]
  BY DEF Inc
<1>2. /\ \A i \in 1 .. Len(q) : \E j \in 1 .. Len(r) : q[i] = r[j]
      /\ \A i \in 1 .. Len(r) : \E j \in 1 .. Len(q) : r[i] = q[j]
  <2>1. ASSUME NEW i \in 1 .. Len(q) PROVE \E j \in 1 .. Len(r) : q[i] = r[j]
    <3>0. q[i] \in ToSet(q)
      BY <1>1 DEF ToSet
    <3>1. q[i] \in ToSet(r)
      BY <3>0
    <3> QED
      BY <1>1, <3>1 DEF ToSet
  <2>2. ASSUME NEW i \in 1 .. Len(r) PROVE \E j \in 1 .. Len(q) : r[i] = q[j]
    <3>0. r[i] \in ToSet(r)
      BY <1>1 DEF ToSet
    <3>1. r[i] \in ToSet(q)
      BY <3>0
    <3> QED
      BY <1>1, <3>1 DEF ToSet
  <2> QED
    BY <2>1, <2>2
<1>3. Len(q) \in Nat /\ Len(r) \in Nat
  BY <1>1
<1>v. (\A i \in 1 .. Len(q) : q[i] \in Nat) /\ \A i \in 1 .. Len(r) : r[i] \in Nat
  BY <1>1
<1> DEFINE Bad == {i \in 1 .. Len(q) : i <= Len(r) /\ q[i] # r[i]}
<1>4. Bad = {}
  <2>1. SUFFICES ASSUME Bad # {} PROVE FALSE
    OBVIOUS
  <2>0. Bad \subseteq Nat
    BY <1>3
  <2>2. PICK i \in Bad : \A j \in Bad : ~(j < i)
    BY <2>0, <2>1, NatLeast
  <2>3. i \in 1 .. Len(q) /\ i \in 1 .. Len(r) /\ q[i] # r[i]
    BY <1>3, <2>2
  <2>4. \A j \in 1 .. i - 1 : q[j] = r[j]
    BY <1>3, <2>2, <2>3
  <2>5. CASE q[i] < r[i]
    <3>1. PICK j \in 1 .. Len(r) : q[i] = r[j]
      BY <1>2, <2>3
    <3>2. j < i
      BY <1>1, <1>3, <1>v, <2>3, <2>5, <3>1
    <3>3. q[j] = r[j] /\ j \in 1 .. Len(q)
      BY <1>3, <2>3, <2>4, <3>1, <3>2
    <3>4. q[j] < q[i]
      BY <1>1, <2>3, <3>2, <3>3
    <3> QED
      BY <1>v, <2>3, <3>1, <3>3, <3>4
  <2>6. CASE r[i] < q[i]
    <3>1. PICK j \in 1 .. Len(q) : r[i] = q[j]
      BY <1>2, <2>3
    <3>2. j < i
      BY <1>1, <1>3, <1>v, <2>3, <2>6, <3>1
    <3>3. q[j] = r[j] /\ j \in 1 .. Len(r)
      BY <1>3, <2>3, <2>4, <3>1, <3>2
    <3>4. r[j] < r[i]
      BY <1>1, <2>3, <3>2, <3>3
    <3> QED
      BY <1>v, <2>3, <3>1, <3>3, <3>4
  <2>7. q[i] \in Nat /\ r[i] \in Nat
    BY <1>v, <2>3
  <2> QED
    BY <2>3, <2>5, <2>6, <2>7
<1>5. ~(Len(q) < Len(r))
  <2> SUFFICES ASSUME Len(q) < Len(r) PROVE FALSE
    OBVIOUS
  <2>1. Len(q) + 1 \in 1 .. Len(r)
    BY <1>3
  <2>2. PICK j \in 1 .. Len(q) : r[Len(q) + 1] = q[j]
    BY <1>2, <2>1
  <2>3. q[j] = r[j] /\ j \in 1 .. Len(r) /\ j < Len(q) + 1
    BY <1>3, <1>4, <2>2
  <2>4. r[j] < r[Len(q) + 1]
    BY <1>1, <2>1, <2>3
  <2> QED
    BY <1>v, <2>1, <2>2, <2>3, <2>4
<1>6. ~(Len(r) < Len(q))
  <2> SUFFICES ASSUME Len(r) < Len(q) PROVE FALSE
    OBVIOUS
  <2>1. Len(r) + 1 \in 1 .. Len(q)
    BY <1>3
  <2>2. PICK j \in 1 .. Len(r) : q[Len(r) + 1] = r[j]
    BY <1>2, <2>1
  <2>3. q[j] = r[j] /\ j \in 1 .. Len(q) /\ j < Len(r) + 1
    BY <1>3, <1>4, <2>2
  <2>4. q[j] < q[Len(r) + 1]
    BY <1>1, <2>1, <2>3
  <2> QED
    BY <1>v, <2>1, <2>2, <2>3, <2>4
<1>7. Len(q) = Len(r)
  BY <1>3, <1>5, <1>6
<1>8. \A i \in 1 .. Len(q) : q[i] = r[i]
  BY <1>4, <1>7, <1>3
<1> QED
  BY <1>1, <1>7, <1>8

LEMMA SeqConcat ==
    ASSUME NEW q \in Seq(Nat), NEW r \in Seq(Nat)
    PROVE  /\ q \o r \in Seq(Nat) /\ Len(q \o r) = Len(q) + Len(r)
           /\ Len(q) \in Nat /\ Len(r) \in Nat
           /\ \A i \in 1 .. Len(q) : (q \o r)[i] = q[i]
           /\ \A i \in Len(q) + 1 .. Len(q) + Len(r) :
                 (q \o r)[i] = r[i - Len(q)] /\ i - Len(q) \in 1 .. Len(r)
           /\ ToSet(q \o r) = ToSet(q) \union ToSet(r)
<1>1. /\ q \o r \in Seq(Nat) /\ Len(q \o r) = Len(q) + Len(r)
      /\ Len(q) \in Nat /\ Len(r) \in Nat
  OBVIOUS
<1>2. \A i \in 1 .. Len(q) : (q \o r)[i] = q[i]
  OBVIOUS
<1>3. \A i \in Len(q) + 1 .. Len(q) + Len(r) :
         (q \o r)[i] = r[i - Len(q)] /\ i - Len(q) \in 1 .. Len(r)
  OBVIOUS
<1>4. ToSet(q \o r) \subseteq ToSet(q) \union ToSet(r)
  BY <1>1, <1>2, <1>3 DEF ToSet
<1>5. ToSet(q) \subseteq ToSet(q \o r)
  BY <1>1, <1>2 DEF ToSet
<1>6. ToSet(r) \subseteq ToSet(q \o r)
  <2> SUFFICES ASSUME NEW i \in 1 .. Len(r) PROVE r[i] \in ToSet(q \o r)
    BY DEF ToSet
  <2>1. i + Len(q) \in Len(q) + 1 .. Len(q) + Len(r) /\ i + Len(q) \in 1 .. Len(q \o r)
        /\ (i + Len(q)) - Len(q) = i
    BY <1>1
  <2>2. (q \o r)[i + Len(q)] = r[i]
    BY <1>3, <2>1
  <2> QED
    BY <1>1, <2>1, <2>2 DEF ToSet
<1> QED
  BY <1>1, <1>2, <1>3, <1>4, <1>5, <1>6

LEMMA AppendIs ==
    ASSUME NEW q \in Seq(Nat), NEW x \in Nat, NEW r, r = <<x>>
    PROVE  Append(q, x) = q \o r
  OBVIOUS

LEMMA IncConcat ==
    ASSUME NEW q, NEW r, Inc(q), Inc(r), \A x \in ToSet(q), y \in ToSet(r) : x < y
    PROVE  Inc(q \o r) /\ ToSet(q \o r) = ToSet(q) \union ToSet(r)
<1>1. q \in Seq(Nat) /\ r \in Seq(Nat)
  BY DEF Inc
<1>2. /\ q \o r \in Seq(Nat) /\ Len(q \o r) = Len(q) + Len(r)
      /\ Len(q) \in Nat /\ Len(r) \in Nat
      /\ \A i \in 1 .. Len(q) : (q \o r)[i] = q[i]
      /\ \A i \in Len(q) + 1 .. Len(q) + Len(r) :
            (q \o r)[i] = r[i - Len(q)] /\ i - Len(q) \in 1 .. Len(r)
      /\ ToSet(q \o r) = ToSet(q) \union ToSet(r)
  BY <1>1, SeqConcat
<1>3. /\ \A i, j \in 1 .. Len(q) : i < j => q[i] < q[j]
      /\ \A i, j \in 1 .. Len(r) : i < j => r[i] < r[j]
      /\ \A i \in 1 .. Len(q), j \in 1 .. Len(r) : q[i] < r[j]
  BY <1>1 DEF Inc, ToSet
<1>4. PICK c : c = q \o r
  OBVIOUS
<1>5. ASSUME NEW i \in 1 .. Len(c), NEW j \in 1 .. Len(c), i < j PROVE c[i] < c[j]
  <2>1. CASE j <= Len(q)
    BY <1>2, <1>3, <1>4, <1>5, <2>1
  <2>2. CASE i <= Len(q) /\ j > Len(q)
    <3>1. c[i] = q[i] /\ c[j] = r[j - Len(q)] /\ j - Len(q) \in 1 .. Len(r)
      BY <1>2, <1>4, <1>5, <2>2
    <3> QED
      BY <1>2, <1>3, <2>2, <3>1
  <2>3. CASE i > Len(q)
    <3>1. /\ c[i] = r[i - Len(q)] /\ i - Len(q) \in 1 .. Len(r)
          /\ c[j] = r[j - Len(q)] /\ j - Len(q) \in 1 .. Len(r)
          /\ i - Len(q) < j - Len(q)
      BY <1>2, <1>4, <1>5, <2>3
    <3> QED
      BY <1>3, <3>1
  <2> QED
    BY <1>2, <2>1, <2>2, <2>3
<1>6. Inc(c)
  BY <1>2, <1>4, <1>5 DEF Inc
<1> QED
  BY <1>2, <1>4, <1>6

-----------------------------------------------------------------------------
(* What a step does to the record of the run                                  *)

(* The events only grow; a load ends what was under way and adds nothing else. *)
Longer ==
    /\ Now <= Now' /\ \A i \in 1 .. Now : events'[i] = events[i]
    /\ Loads \subseteq Loads'
    /\ \A l \in Loads' \ Loads :
          /\ l = Now' /\ l > Now /\ running' = Nil /\ pending' = Nil
          /\ states' = states /\ updates' = updates /\ content' = content

(* A save that is made stays as it is; it is stored once. *)
SavesKept ==
    /\ Len(states) <= Len(states')
    /\ \A s \in StateIds :
          /\ content'[s] = content[s]
          /\ states'[s].parent = states[s].parent /\ states'[s].epoch = states[s].epoch
          /\ states'[s].updates = states[s].updates /\ states'[s].consumed = states[s].consumed
          /\ states'[s].scheduled = states[s].scheduled
          /\ \/ states'[s].stored = states[s].stored
             \/ /\ s = pending /\ pending' = Nil /\ Now' = Now + 1 /\ states'[s].stored = Now + 1
                /\ events'[Now + 1].type = "checkpoint_persisted" /\ Loads' = Loads

(* An update that has begun stays as it is; it ends once. *)
UpdatesKept ==
    /\ Len(updates) <= Len(updates')
    /\ \A u \in UpdateIds :
          /\ updates'[u].group = updates[u].group /\ updates'[u].attempt = updates[u].attempt
          /\ updates'[u].admitted = updates[u].admitted /\ updates'[u].epoch = updates[u].epoch
          /\ updates'[u].loaded = updates[u].loaded /\ updates'[u].started = updates[u].started
          /\ updates'[u].authority = updates[u].authority
          /\ \/ /\ updates'[u].ended = updates[u].ended /\ updates'[u].successful = updates[u].successful
                /\ updates'[u].apart = updates[u].apart
             \/ /\ u = running /\ running' = Nil /\ Now' = Now + 1 /\ updates'[u].ended = Now + 1
                /\ updates'[u].apart = (updates[u].apart /\ pending = Nil) /\ Loads' = Loads
    /\ \A u \in UpdateIds' \ UpdateIds :
          /\ u = Len(updates) + 1 /\ running' = u /\ running = Nil /\ pending' = pending
          /\ Now' = Now + 1 /\ updates'[u].started = Now + 1
          /\ updates'[u].ended = 0 /\ ~updates'[u].successful

Goes == Typed' /\ Longer /\ SavesKept /\ UpdatesKept

LEMMA Types ==
    ASSUME Typed
    PROVE  /\ Now \in Nat /\ Len(states) \in Nat /\ Len(updates) \in Nat
           /\ \A i \in 1 .. Now : events[i] \in Event
           /\ \A s \in StateIds : /\ states[s] \in State /\ content[s] \in Seq(Nat)
                                  /\ states[s].parent \in Nat \union {Nil} /\ states[s].updates \in Seq(Nat)
                                  /\ states[s].scheduled \in Nat /\ states[s].stored \in Nat
           /\ \A u \in UpdateIds : /\ updates[u] \in Trained /\ updates[u].started \in Nat /\ updates[u].ended \in Nat
                                   /\ updates[u].group \in Groups /\ updates[u].successful \in BOOLEAN
                                   /\ updates[u].apart \in BOOLEAN /\ updates[u].epoch \in Nat
                                   /\ updates[u].authority \in Grant
           /\ live.loaded \in Nat /\ live.base \in Nat /\ live.since \in Seq(Nat) /\ live.epoch \in Nat
           /\ Loads \subseteq 1 .. Now /\ 2 \in Loads
<1>1. Now \in Nat /\ Len(states) \in Nat /\ Len(updates) \in Nat
  BY DEF Typed, Now
<1>2. \A i \in 1 .. Now : events[i] \in Event
  BY DEF Typed, Now
<1>3. ASSUME NEW s \in StateIds
      PROVE  /\ states[s] \in State /\ content[s] \in Seq(Nat)
             /\ states[s].parent \in Nat \union {Nil} /\ states[s].updates \in Seq(Nat)
             /\ states[s].scheduled \in Nat /\ states[s].stored \in Nat
  <2>1. states[s] \in State /\ content[s] \in Seq(Nat)
    BY DEF Typed, StateIds
  <2> QED
    BY <2>1 DEF State
<1>4. ASSUME NEW u \in UpdateIds
      PROVE  /\ updates[u] \in Trained /\ updates[u].started \in Nat /\ updates[u].ended \in Nat
             /\ updates[u].group \in Groups /\ updates[u].successful \in BOOLEAN
             /\ updates[u].apart \in BOOLEAN /\ updates[u].epoch \in Nat
             /\ updates[u].authority \in Grant
  <2>1. updates[u] \in Trained
    BY DEF Typed, UpdateIds
  <2> QED
    BY <2>1 DEF Trained
<1>5. live.loaded \in Nat /\ live.base \in Nat /\ live.since \in Seq(Nat) /\ live.epoch \in Nat
  BY DEF Typed, Trainer
<1>6. Loads \subseteq 1 .. Now /\ 2 \in Loads
  BY DEF Typed, Loads, Of
<1> QED
  BY <1>1, <1>2, <1>3, <1>4, <1>5, <1>6

LEMMA Logs ==
    ASSUME events \in Seq(Event), NEW e \in Event, Log(e)
    PROVE  /\ events' \in Seq(Event) /\ Now \in Nat /\ Now' = Now + 1 /\ events'[Now + 1] = e
           /\ \A i \in 1 .. Now : events'[i] = events[i]
           /\ \A ty : Of(ty)' = IF e.type = ty THEN Of(ty) \union {Now + 1} ELSE Of(ty)
<1>1. /\ events' \in Seq(Event) /\ Now \in Nat /\ Now' = Now + 1 /\ events'[Now + 1] = e
      /\ \A i \in 1 .. Now : events'[i] = events[i]
  BY DEF Log, Now
<1>2. ASSUME NEW ty PROVE Of(ty)' = IF e.type = ty THEN Of(ty) \union {Now + 1} ELSE Of(ty)
  <2>1. \A i : i \in Of(ty)' <=> i \in 1 .. Now + 1 /\ events'[i].type = ty
    BY <1>1 DEF Of
  <2>2. \A i : i \in Of(ty) <=> i \in 1 .. Now /\ events[i].type = ty
    BY DEF Of
  <2>3. \A i : i \in 1 .. Now + 1 <=> i \in 1 .. Now \/ i = Now + 1
    BY <1>1
  <2>4. \A i : i \in Of(ty)' <=> i \in Of(ty) \/ (i = Now + 1 /\ e.type = ty)
    BY <1>1, <2>1, <2>2, <2>3
  <2> QED
    BY <2>4
<1> QED
  BY <1>1, <1>2

(* An event that is no load *)
LEMMA LogsOn ==
    ASSUME Typed, NEW e \in Event, Log(e), e.type # "checkpoint_loaded"
    PROVE  Longer /\ Loads' = Loads /\ events' \in Seq(Event) /\ Now' = Now + 1 /\ Now' >= 2 /\ 2 \in Loads'
<1>1. /\ events' \in Seq(Event) /\ Now \in Nat /\ Now' = Now + 1
      /\ \A i \in 1 .. Now : events'[i] = events[i]
      /\ \A ty : Of(ty)' = IF e.type = ty THEN Of(ty) \union {Now + 1} ELSE Of(ty)
  BY Logs DEF Typed
<1>2. Loads' = Loads
  BY <1>1 DEF Loads
<1> QED
  BY <1>1, <1>2 DEF Longer, Typed

LEMMA SavesStay ==
    ASSUME UNCHANGED <<states, content>>, Typed
    PROVE  SavesKept
<1>1. Len(states) \in Nat
  BY Types
<1> QED
  BY <1>1 DEF SavesKept

LEMMA UpdatesStay ==
    ASSUME UNCHANGED updates, Typed
    PROVE  UpdatesKept
<1>1. Len(updates) \in Nat
  BY Types
<1>2. UpdateIds' = UpdateIds
  BY DEF UpdateIds
<1> QED
  BY <1>1, <1>2 DEF UpdatesKept

LEMMA AuthorizeDoes ==
    ASSUME OracleInv, NEW g \in Groups, Authorize(g)
    PROVE  /\ Goes /\ Loads' = Loads /\ Now' = Now + 1 /\ final = Nil
           /\ events'[Now + 1] = authority'[g] /\ authority'[g].group = g
           /\ authority'[g].type = "authorize" /\ authority'[g].epoch = live.epoch
           /\ \A h \in Groups \ {g} : authority'[h] = authority[h]
           /\ \A ty : Of(ty)' = IF ty = "authorize" THEN Of(ty) \union {Now + 1} ELSE Of(ty)
<1>1. Typed
  BY DEF OracleInv
<1>2. PICK r : r = Granted(g, authority[g].attempt + 1, live.epoch)
  OBVIOUS
<1>3. authority \in [Groups -> Grant] /\ live.epoch \in Nat
  BY <1>1, Types DEF Typed
<1>4. authority[g].attempt \in Nat
  BY <1>3 DEF Grant
<1>5. r \in Grant /\ r.type = "authorize" /\ r.group = g /\ r.epoch = live.epoch
  BY <1>2, <1>3, <1>4 DEF Granted, Grant
<1>6. authority' = [authority EXCEPT ![g] = r]
  BY <1>2 DEF Authorize
<1>7. authority'[g] = r /\ authority' \in [Groups -> Grant] /\ \A h \in Groups \ {g} : authority'[h] = authority[h]
  BY <1>3, <1>5, <1>6
<1>8. r \in Event
  BY <1>5 DEF Grant, Event
<1>9. Log(r) /\ UNCHANGED <<states, updates, live, running, pending, content, lies, final>> /\ final = Nil
  BY <1>7 DEF Authorize, Log
<1>10. /\ Now' = Now + 1 /\ events'[Now + 1] = r
       /\ \A ty : Of(ty)' = IF r.type = ty THEN Of(ty) \union {Now + 1} ELSE Of(ty)
  BY <1>1, <1>8, <1>9, Logs DEF Typed
<1>11. Longer /\ Loads' = Loads /\ events' \in Seq(Event) /\ Now' >= 2 /\ 2 \in Loads'
  BY <1>1, <1>5, <1>8, <1>9, LogsOn
<1>12. Typed'
  BY <1>1, <1>7, <1>9, <1>11 DEF Typed
<1> QED
  BY <1>1, <1>5, <1>7, <1>9, <1>10, <1>11, <1>12, SavesStay, UpdatesStay DEF Goes

LEMMA TurnDoes ==
    ASSUME OracleInv, Turn
    PROVE  /\ Goes /\ Loads' = Loads /\ Now' = Now + 1 /\ final = Nil
           /\ \A ty : ty \notin {"role_ready", "role_down"} => Of(ty)' = Of(ty)
<1>1. Typed
  BY DEF OracleInv
<1>2. PICK r : r = [type |-> IF Ready(Now) THEN "role_down" ELSE "role_ready"]
  OBVIOUS
<1>3. r \in Event /\ r.type \in {"role_ready", "role_down"}
  BY <1>2 DEF Event
<1>4. Log(r) /\ UNCHANGED <<states, updates, live, running, pending, authority, content, lies, final>> /\ final = Nil
  BY <1>2 DEF Turn
<1>5. /\ Now' = Now + 1
      /\ \A ty : Of(ty)' = IF r.type = ty THEN Of(ty) \union {Now + 1} ELSE Of(ty)
  BY <1>1, <1>3, <1>4, Logs DEF Typed
<1>6. Longer /\ Loads' = Loads /\ events' \in Seq(Event) /\ Now' >= 2 /\ 2 \in Loads'
  BY <1>1, <1>3, <1>4, LogsOn
<1>7. Typed'
  BY <1>1, <1>4, <1>6 DEF Typed
<1> QED
  BY <1>1, <1>3, <1>4, <1>5, <1>6, <1>7, SavesStay, UpdatesStay DEF Goes

LEMMA BeginDoes ==
    ASSUME OracleInv, NEW g \in Groups, NEW a \in Nat, NEW admitted \in BOOLEAN, NEW loaded \in Nat,
           BeginUpdate(g, a, admitted, loaded)
    PROVE  /\ Goes /\ Loads' = Loads /\ Now' = Now + 1 /\ final = Nil /\ running = Nil
           /\ Len(updates') = Len(updates) + 1 /\ running' = Len(updates) + 1
           /\ updates'[Len(updates) + 1] = Update(g, a, admitted, loaded)
           /\ \A u \in UpdateIds : updates'[u] = updates[u]
           /\ Claim(loaded = live.loaded) /\ events'[Now + 1].type = "optimizer_start"
           /\ \A ty : ty # "optimizer_start" => Of(ty)' = Of(ty)
<1>1. Typed
  BY DEF OracleInv
<1>2. PICK r : r = [type |-> "optimizer_start", update |-> Len(updates) + 1]
  OBVIOUS
<1>3. r \in Event /\ r.type = "optimizer_start" /\ Len(updates) \in Nat /\ Now \in Nat
  BY <1>1, <1>2, Types DEF Event
<1>4. /\ Log(r) /\ UNCHANGED <<states, live, pending, authority, content, final>> /\ final = Nil
      /\ updates' = Append(updates, Update(g, a, admitted, loaded)) /\ running' = Len(updates) + 1
      /\ Claim(loaded = live.loaded) /\ running = Nil
  BY <1>2 DEF BeginUpdate
<1>5. /\ Now' = Now + 1 /\ events'[Now + 1] = r
      /\ \A ty : Of(ty)' = IF r.type = ty THEN Of(ty) \union {Now + 1} ELSE Of(ty)
  BY <1>1, <1>3, <1>4, Logs DEF Typed
<1>6. Longer /\ Loads' = Loads /\ events' \in Seq(Event) /\ Now' >= 2 /\ 2 \in Loads'
  BY <1>1, <1>3, <1>4, LogsOn
<1>7. Update(g, a, admitted, loaded) \in Trained
  <2>1. authority[g] \in Grant /\ live.epoch \in Nat
    BY <1>1, Types DEF Typed
  <2> QED
    BY <1>3, <2>1 DEF Update, Trained
<1>8. /\ updates' \in Seq(Trained) /\ Len(updates') = Len(updates) + 1
      /\ updates'[Len(updates) + 1] = Update(g, a, admitted, loaded)
      /\ \A u \in UpdateIds : updates'[u] = updates[u]
  BY <1>1, <1>4, <1>7 DEF Typed, UpdateIds
<1>9. lies' \in Nat
  BY <1>1, <1>4 DEF Typed, Claim
<1>10. Typed'
  BY <1>1, <1>3, <1>4, <1>6, <1>8, <1>9 DEF Typed
<1>11. UpdatesKept
  <2>1. ASSUME NEW u \in UpdateIds' \ UpdateIds PROVE u = Len(updates) + 1
    BY <1>3, <1>8 DEF UpdateIds
  <2>2. /\ updates'[Len(updates) + 1].started = Now + 1 /\ updates'[Len(updates) + 1].ended = 0
        /\ ~updates'[Len(updates) + 1].successful
    BY <1>8 DEF Update
  <2>3. ASSUME NEW u \in UpdateIds' \ UpdateIds
        PROVE  /\ u = Len(updates) + 1 /\ running' = u /\ running = Nil /\ pending' = pending
               /\ Now' = Now + 1 /\ updates'[u].started = Now + 1
               /\ updates'[u].ended = 0 /\ ~updates'[u].successful
    <3>1. u = Len(updates) + 1
      BY <2>1
    <3> QED
      BY <1>4, <1>5, <2>2, <3>1
  <2>4. Len(updates) <= Len(updates')
    BY <1>3, <1>8
  <2>5. \A u \in UpdateIds : updates'[u] = updates[u]
    BY <1>8
  <2> QED
    BY <2>3, <2>4, <2>5 DEF UpdatesKept
<1> QED
  BY <1>1, <1>3, <1>4, <1>5, <1>6, <1>8, <1>10, <1>11, SavesStay DEF Goes

LEMMA EndDoes ==
    ASSUME OracleInv, NEW successful \in BOOLEAN, EndUpdate(successful)
    PROVE  /\ Goes /\ Loads' = Loads /\ Now' = Now + 1 /\ final = Nil
           /\ running \in UpdateIds /\ running' = Nil
           /\ events'[Now + 1] = [type |-> "optimizer_end", update |-> running, epoch |-> live.epoch,
                                  successful |-> successful]
           /\ Len(updates') = Len(updates)
           /\ \A u \in UpdateIds \ {running} : updates'[u] = updates[u]
           /\ updates'[running].ended = Now + 1 /\ updates'[running].successful = successful
           /\ live'.loaded = live.loaded /\ live'.base = live.base /\ live'.epoch = live.epoch
           /\ live'.since = IF successful THEN Append(live.since, running) ELSE live.since
           /\ \A ty : Of(ty)' = IF ty = "optimizer_end" THEN Of(ty) \union {Now + 1} ELSE Of(ty)
<1>1. Typed /\ RunningInv
  BY DEF OracleInv
<1>2. PICK r : r = [type |-> "optimizer_end", update |-> running, epoch |-> live.epoch, successful |-> successful]
  OBVIOUS
<1>3. running # Nil /\ running \in UpdateIds
  BY <1>1 DEF RunningInv, EndUpdate
<1>4. Len(updates) \in Nat /\ Now \in Nat /\ live.epoch \in Nat /\ running \in Nat
  BY <1>1, <1>3, Types DEF UpdateIds
<1>5. r \in Event /\ r.type = "optimizer_end"
  BY <1>2, <1>4 DEF Event
<1>6. /\ Log(r) /\ UNCHANGED <<states, pending, authority, content, lies, final>> /\ final = Nil /\ running' = Nil
      /\ live' = IF successful THEN [live EXCEPT !.since = Append(@, running)] ELSE live
  BY <1>2 DEF EndUpdate
<1>7. /\ Now' = Now + 1 /\ events'[Now + 1] = r
      /\ \A ty : Of(ty)' = IF r.type = ty THEN Of(ty) \union {Now + 1} ELSE Of(ty)
  BY <1>1, <1>5, <1>6, Logs DEF Typed
<1>8. Longer /\ Loads' = Loads /\ events' \in Seq(Event) /\ Now' >= 2 /\ 2 \in Loads'
  BY <1>1, <1>5, <1>6, LogsOn
<1>9. PICK c : c = [updates[running] EXCEPT !.ended = Now + 1, !.successful = successful, !.apart = @ /\ pending = Nil]
  OBVIOUS
<1>10. updates' = [updates EXCEPT ![running] = c]
  BY <1>9 DEF EndUpdate
<1>11. updates[running] \in Trained /\ updates \in Seq(Trained)
  BY <1>1, <1>3, Types DEF Typed
<1>12. /\ c.ended = Now + 1 /\ c.successful = successful /\ c.apart = (updates[running].apart /\ pending = Nil)
       /\ c.group = updates[running].group /\ c.attempt = updates[running].attempt
       /\ c.admitted = updates[running].admitted /\ c.epoch = updates[running].epoch
       /\ c.loaded = updates[running].loaded /\ c.started = updates[running].started
       /\ c.authority = updates[running].authority
  BY <1>9, <1>11 DEF Trained
<1>13. c \in Trained
  <2>1. /\ updates[running].group \in Groups /\ updates[running].attempt \in Nat
        /\ updates[running].admitted \in BOOLEAN /\ updates[running].epoch \in Nat
        /\ updates[running].loaded \in Nat /\ updates[running].started \in Nat
        /\ updates[running].authority \in Grant
    BY <1>11 DEF Trained
  <2>2. c.apart \in BOOLEAN
    BY <1>12
  <2>3. c.successful \in BOOLEAN
    BY <1>12
  <2>4. c = [group |-> c.group, attempt |-> c.attempt, admitted |-> c.admitted, epoch |-> c.epoch,
             loaded |-> c.loaded, started |-> c.started, ended |-> c.ended, successful |-> c.successful,
             authority |-> c.authority, apart |-> c.apart]
    BY <1>9, <1>11 DEF Trained
  <2>5. c.admitted \in BOOLEAN
    BY <1>12, <2>1
  <2>6. /\ c.group \in Groups /\ c.attempt \in Nat /\ c.epoch \in Nat /\ c.loaded \in Nat
        /\ c.started \in Nat /\ c.ended \in Nat /\ c.authority \in Grant
    BY <1>4, <1>12, <2>1
  <2> QED
    BY <2>2, <2>3, <2>4, <2>5, <2>6 DEF Trained
<1>14. /\ updates' \in Seq(Trained) /\ Len(updates') = Len(updates) /\ updates'[running] = c
       /\ \A u \in UpdateIds \ {running} : updates'[u] = updates[u]
  BY <1>3, <1>10, <1>11, <1>13 DEF UpdateIds
<1>15. /\ live'.loaded = live.loaded /\ live'.base = live.base /\ live'.epoch = live.epoch
       /\ live'.since = IF successful THEN Append(live.since, running) ELSE live.since
       /\ live' \in Trainer
  <2>1. live \in Trainer
    BY <1>1 DEF Typed
  <2>2. CASE successful
    <3>1. PICK q : q = Append(live.since, running)
      OBVIOUS
    <3>2. q \in Seq(Nat)
      BY <1>4, <2>1, <3>1 DEF Trainer
    <3>3. live' = [live EXCEPT !.since = q]
      BY <1>6, <2>2, <3>1
    <3> QED
      BY <2>1, <2>2, <3>1, <3>2, <3>3 DEF Trainer
  <2>3. CASE ~successful
    BY <1>6, <2>1, <2>3
  <2> QED
    BY <2>2, <2>3
<1>16. Typed'
  BY <1>1, <1>6, <1>8, <1>14, <1>15 DEF Typed
<1>17. UpdatesKept
  <2>1. ASSUME NEW u \in UpdateIds
        PROVE  /\ updates'[u].group = updates[u].group /\ updates'[u].attempt = updates[u].attempt
               /\ updates'[u].admitted = updates[u].admitted /\ updates'[u].epoch = updates[u].epoch
               /\ updates'[u].loaded = updates[u].loaded /\ updates'[u].started = updates[u].started
               /\ updates'[u].authority = updates[u].authority
               /\ \/ /\ updates'[u].ended = updates[u].ended /\ updates'[u].successful = updates[u].successful
                     /\ updates'[u].apart = updates[u].apart
                  \/ /\ u = running /\ running' = Nil /\ Now' = Now + 1 /\ updates'[u].ended = Now + 1
                     /\ updates'[u].apart = (updates[u].apart /\ pending = Nil) /\ Loads' = Loads
    <3>1. CASE u = running
      BY <1>6, <1>7, <1>8, <1>12, <1>14, <3>1
    <3>2. CASE u # running
      BY <1>14, <3>2
    <3> QED
      BY <3>1, <3>2
  <2>2. UpdateIds' = UpdateIds
    BY <1>14 DEF UpdateIds
  <2> QED
    BY <1>4, <1>14, <2>1, <2>2 DEF UpdatesKept
<1> QED
  BY <1>1, <1>2, <1>3, <1>5, <1>6, <1>7, <1>8, <1>12, <1>14, <1>15, <1>16, <1>17, SavesStay DEF Goes

LEMMA LastLoad ==
    ASSUME Typed, NEW i \in Nat, i > 2
    PROVE  \E l \in Loads : Under(l, i)
<1> DEFINE T == {j \in Loads : j < i}
<1>1. Now \in Nat /\ Loads \subseteq 1 .. Now /\ 2 \in T
  BY Types
<1>2. T \subseteq 0 .. Now /\ T # {}
  <2>1. \A j \in 1 .. Now : j \in 0 .. Now
    BY <1>1
  <2> QED
    BY <1>1, <2>1
<1>3. PICK l \in T : \A j \in T : j <= l
  BY <1>1, <1>2, NatGreatest
<1> QED
  BY <1>3 DEF Under

(* The weights of the trainer are made of updates. *)
LEMMA SinceIs ==
    ASSUME OracleInv
    PROVE  /\ live.base \in StateIds /\ Inc(live.since) /\ ToSet(live.since) \subseteq UpdateIds
           /\ Inc(content[live.base]) /\ ToSet(content[live.base]) \subseteq UpdateIds
<1>1. Typed /\ LiveInv /\ ContentInv
  BY DEF OracleInv
<1>2. Now + 1 \in Nat /\ Now + 1 > 2
  BY <1>1, Types DEF Typed
<1>3. PICK l \in Loads : Under(l, Now + 1)
  BY <1>1, <1>2, LastLoad
<1>4. live.base \in StateIds /\ Inc(live.since) /\ ToSet(live.since) = Done(Low(l), Now)
  BY <1>1, <1>3 DEF LiveInv
<1>5. ToSet(live.since) \subseteq UpdateIds
  BY <1>4 DEF Done
<1> QED
  BY <1>1, <1>4, <1>5 DEF ContentInv, Holds

LEMMA ScheduleDoes ==
    ASSUME OracleInv, NEW parent \in StateIds, NEW made \in Seq(Nat), ToSet(made) \subseteq UpdateIds,
           NEW e \in Nat, NEW agreed \in BOOLEAN, Schedule(parent, made, e, agreed)
    PROVE  /\ Goes /\ Loads' = Loads /\ Now' = Now + 1 /\ final = Nil /\ running = Nil /\ pending = Nil
           /\ events'[Now + 1].type = "checkpoint_schedule"
           /\ Len(states') = Len(states) + 1 /\ pending' = Len(states) + 1
           /\ \A s \in StateIds : states'[s] = states[s]
           /\ content'[Len(states) + 1] = content[live.base] \o live.since
           /\ states'[Len(states) + 1].parent = parent /\ states'[Len(states) + 1].epoch = e
           /\ states'[Len(states) + 1].updates = made /\ states'[Len(states) + 1].scheduled = Now + 1
           /\ states'[Len(states) + 1].stored = 0
           /\ live'.loaded = live.loaded /\ live'.base = Len(states) + 1 /\ live'.epoch = live.epoch
           /\ live'.since = <<>>
           /\ lies' = 0 => /\ lies = 0 /\ parent = live.base /\ made = live.since /\ e = live.epoch
                           /\ states'[Len(states) + 1].consumed = GroupsOf(content[live.base] \o live.since)
           /\ \A ty : ty # "checkpoint_schedule" => Of(ty)' = Of(ty)
<1>1. Typed
  BY DEF OracleInv
<1>2. PICK r : r = [type |-> "checkpoint_schedule", state |-> Len(states) + 1]
  OBVIOUS
<1>3. PICK inside : inside = content[live.base] \o live.since
  OBVIOUS
<1>4. PICK consumed : consumed = IF agreed THEN states[parent].consumed \cup GroupsOf(made) ELSE GroupsOf(inside)
  OBVIOUS
<1>5. PICK c : c = [parent |-> parent, epoch |-> e, updates |-> made,
                    scheduled |-> Now + 1, stored |-> 0, consumed |-> consumed]
  OBVIOUS
<1>6. Len(states) \in Nat /\ Now \in Nat /\ r \in Event /\ r.type = "checkpoint_schedule"
  BY <1>1, <1>2, Types DEF Event
<1>7. /\ Log(r) /\ UNCHANGED <<updates, running, authority, final>> /\ final = Nil /\ running = Nil /\ pending = Nil
      /\ states' = Append(states, c) /\ content' = Append(content, inside)
      /\ pending' = Len(states) + 1 /\ live' = [live EXCEPT !.base = Len(states) + 1, !.since = <<>>]
      /\ Claim(parent = live.base /\ made = live.since /\ e = live.epoch /\ consumed = GroupsOf(inside))
  BY <1>2, <1>3, <1>4, <1>5 DEF Schedule
<1>8. /\ Now' = Now + 1 /\ events'[Now + 1] = r
      /\ \A ty : Of(ty)' = IF r.type = ty THEN Of(ty) \union {Now + 1} ELSE Of(ty)
  BY <1>1, <1>6, <1>7, Logs DEF Typed
<1>9. Longer /\ Loads' = Loads /\ events' \in Seq(Event) /\ Now' >= 2 /\ 2 \in Loads'
  BY <1>1, <1>6, <1>7, LogsOn
<1>10. inside \in Seq(Nat) /\ ToSet(inside) \subseteq UpdateIds
  <2>1. live.since \in Seq(Nat) /\ content[live.base] \in Seq(Nat)
    BY SinceIs DEF Inc
  <2> QED
    BY <1>3, <2>1, SinceIs, SeqConcat
<1>11. ASSUME NEW q, ToSet(q) \subseteq UpdateIds PROVE GroupsOf(q) \subseteq Groups
  BY <1>1, <1>11, Types DEF GroupsOf
<1>12. consumed \in SUBSET Groups
  <2>1. states[parent].consumed \subseteq Groups
    BY <1>1, Types DEF State
  <2>2. GroupsOf(made) \subseteq Groups /\ GroupsOf(inside) \subseteq Groups
    BY <1>10, <1>11
  <2> QED
    BY <1>4, <2>1, <2>2
<1>13. c \in State
  <2>1. parent \in Nat
    BY DEF StateIds
  <2> QED
    BY <1>5, <1>6, <1>12, <2>1 DEF State
<1>14. /\ states' \in Seq(State) /\ Len(states') = Len(states) + 1 /\ states'[Len(states) + 1] = c
       /\ \A s \in StateIds : states'[s] = states[s]
  BY <1>1, <1>7, <1>13 DEF Typed, StateIds
<1>15. /\ content' \in Seq(Seq(Nat)) /\ Len(content') = Len(states) + 1 /\ content'[Len(states) + 1] = inside
       /\ \A s \in StateIds : content'[s] = content[s]
  BY <1>1, <1>7, <1>10 DEF Typed, StateIds
<1>16. /\ live'.loaded = live.loaded /\ live'.base = Len(states) + 1 /\ live'.epoch = live.epoch
       /\ live'.since = <<>> /\ live' \in Trainer
  <2>1. live \in Trainer /\ Len(states) + 1 \in Nat
    BY <1>1, <1>6 DEF Typed
  <2>2. PICK q : q = <<>>
    OBVIOUS
  <2>4. q \in Seq(Nat)
    BY <2>2
  <2>3. live' = [live EXCEPT !.base = Len(states) + 1, !.since = q]
    BY <1>7, <2>2
  <2> QED
    BY <2>1, <2>2, <2>3, <2>4 DEF Trainer
<1>17. lies' \in Nat
  <2>1. lies' = lies \/ lies' = lies + 1
    BY <1>7 DEF Claim
  <2> QED
    BY <1>1, <2>1 DEF Typed
<1>18. Typed'
  BY <1>1, <1>6, <1>7, <1>9, <1>14, <1>15, <1>16, <1>17 DEF Typed
<1>19. SavesKept
  BY <1>6, <1>14, <1>15 DEF SavesKept
<1>20. /\ c.parent = parent /\ c.epoch = e /\ c.updates = made /\ c.scheduled = Now + 1 /\ c.stored = 0
       /\ c.consumed = consumed
  BY <1>5
<1>21. lies' = 0 => /\ lies = 0 /\ parent = live.base /\ made = live.since /\ e = live.epoch
                    /\ states'[Len(states) + 1].consumed = GroupsOf(content[live.base] \o live.since)
  <2>1. lies \in Nat
    BY <1>1 DEF Typed
  <2>2. lies' = 0 => lies = 0 /\ parent = live.base /\ made = live.since /\ e = live.epoch /\ consumed = GroupsOf(inside)
    BY <1>7, <2>1 DEF Claim
  <2> QED
    BY <1>3, <1>14, <1>20, <2>2
<1> QED
  BY <1>1, <1>3, <1>6, <1>7, <1>8, <1>9, <1>14, <1>15, <1>16, <1>18, <1>19, <1>20, <1>21, <1>2, UpdatesStay DEF Goes

(* A saved state that is stored at n differs in that alone. *)
LEMMA StoredAt ==
    ASSUME NEW s \in State, NEW n \in Nat, NEW c, c = [s EXCEPT !.stored = n]
    PROVE  /\ c \in State /\ c.stored = n
           /\ c.parent = s.parent /\ c.epoch = s.epoch
           /\ c.updates = s.updates /\ c.consumed = s.consumed
           /\ c.scheduled = s.scheduled
  BY DEF State

LEMMA PersistDoes ==
    ASSUME OracleInv, Persist
    PROVE  /\ Goes /\ Loads' = Loads /\ Now' = Now + 1 /\ final = Nil
           /\ pending \in StateIds /\ pending # First /\ pending = Len(states) /\ pending' = Nil
           /\ states[pending].stored = 0 /\ \A l \in Loads : l < states[pending].scheduled
           /\ events'[Now + 1].type = "checkpoint_persisted"
           /\ Len(states') = Len(states) /\ states'[pending].stored = Now + 1
           /\ \A s \in StateIds \ {pending} : states'[s] = states[s]
           /\ \A ty : ty # "checkpoint_persisted" => Of(ty)' = Of(ty)
<1>1. Typed /\ PendingInv
  BY DEF OracleInv
<1>2. PICK r : r = [type |-> "checkpoint_persisted", state |-> pending]
  OBVIOUS
<1>3. /\ pending # Nil /\ pending \in StateIds /\ pending # First /\ pending = Len(states)
      /\ states[pending].stored = 0 /\ \A l \in Loads : l < states[pending].scheduled
  BY <1>1 DEF PendingInv, Persist
<1>4. Len(states) \in Nat /\ Now \in Nat /\ pending \in Nat /\ r \in Event /\ r.type = "checkpoint_persisted"
  BY <1>1, <1>2, <1>3, Types DEF Event
<1>5. /\ Log(r) /\ UNCHANGED <<updates, live, running, authority, content, lies, final>> /\ final = Nil /\ pending' = Nil
  BY <1>2 DEF Persist
<1>6. /\ Now' = Now + 1 /\ events'[Now + 1] = r
      /\ \A ty : Of(ty)' = IF r.type = ty THEN Of(ty) \union {Now + 1} ELSE Of(ty)
  BY <1>1, <1>4, <1>5, Logs DEF Typed
<1>7. Longer /\ Loads' = Loads /\ events' \in Seq(Event) /\ Now' >= 2 /\ 2 \in Loads'
  BY <1>1, <1>4, <1>5, LogsOn
<1>8. PICK c : c = [states[pending] EXCEPT !.stored = Now + 1]
  OBVIOUS
<1>9. states[pending] \in State
  BY <1>1, <1>3, Types
<1>10. /\ c \in State /\ c.stored = Now + 1
       /\ c.parent = states[pending].parent /\ c.epoch = states[pending].epoch
       /\ c.updates = states[pending].updates /\ c.consumed = states[pending].consumed
       /\ c.scheduled = states[pending].scheduled
  <2>1. Now + 1 \in Nat
    BY <1>4
  <2> QED
    BY <1>8, <1>9, <2>1, StoredAt
<1>11. states' = [states EXCEPT ![pending] = c]
  BY <1>8 DEF Persist
<1>12. /\ states' \in Seq(State) /\ Len(states') = Len(states) /\ states'[pending] = c
       /\ \A s \in StateIds \ {pending} : states'[s] = states[s]
  BY <1>1, <1>3, <1>10, <1>11 DEF Typed, StateIds
<1>13. Typed'
  BY <1>1, <1>5, <1>7, <1>12 DEF Typed
<1>14. SavesKept
  <2>1. ASSUME NEW s \in StateIds
        PROVE  /\ content'[s] = content[s]
               /\ states'[s].parent = states[s].parent /\ states'[s].epoch = states[s].epoch
               /\ states'[s].updates = states[s].updates /\ states'[s].consumed = states[s].consumed
               /\ states'[s].scheduled = states[s].scheduled
               /\ \/ states'[s].stored = states[s].stored
                  \/ /\ s = pending /\ pending' = Nil /\ Now' = Now + 1 /\ states'[s].stored = Now + 1
                     /\ events'[Now + 1].type = "checkpoint_persisted" /\ Loads' = Loads
    <3>1. CASE s = pending
      BY <1>4, <1>5, <1>6, <1>7, <1>10, <1>12, <3>1
    <3>2. CASE s # pending
      BY <1>5, <1>12, <3>2
    <3> QED
      BY <3>1, <3>2
  <2> QED
    BY <1>4, <1>12, <2>1 DEF SavesKept
<1> QED
  BY <1>1, <1>3, <1>4, <1>5, <1>6, <1>7, <1>10, <1>12, <1>13, <1>14, UpdatesStay DEF Goes

LEMMA LoadDoes ==
    ASSUME OracleInv, NEW s \in Saved, NEW e \in Nat, Load(s, e)
    PROVE  /\ Goes /\ final = Nil /\ Now < Now' /\ Loads' = Loads \union {Now'}
           /\ UNCHANGED <<states, updates, authority, content, lies, final>>
           /\ running' = Nil /\ pending' = Nil
           /\ events'[Now'].state = s /\ events'[Now'].epoch = e
           /\ live'.loaded = s /\ live'.base = s /\ live'.since = <<>> /\ live'.epoch = e
           /\ Faults' = IF Faults = {} THEN {Now + 1} ELSE Faults
           /\ Faults = {} => Now' = Now + 2
           /\ \A ty : ty \notin {"fault_observed", "checkpoint_loaded"} => Of(ty)' = Of(ty)
<1>1. Typed
  BY DEF OracleInv
<1>2. Now \in Nat /\ events \in Seq(Event) /\ s \in Nat
  BY <1>1, Types DEF Typed, Saved, StateIds
<1>3. PICK r : r = [type |-> "checkpoint_loaded", state |-> s, epoch |-> e]
  OBVIOUS
<1>4. PICK f : f = [type |-> "fault_observed"]
  OBVIOUS
<1>5. /\ r \in Event /\ r.type = "checkpoint_loaded" /\ r.state = s /\ r.epoch = e
      /\ f \in Event /\ f.type = "fault_observed"
  BY <1>2, <1>3, <1>4 DEF Event
<1>6. /\ events' = events \o (IF Faults = {} THEN <<f>> ELSE <<>>) \o <<r>>
      /\ UNCHANGED <<states, updates, authority, content, lies, final>> /\ final = Nil
      /\ running' = Nil /\ pending' = Nil /\ live' = [loaded |-> s, base |-> s, since |-> <<>>, epoch |-> e]
  BY <1>3, <1>4 DEF Load
<1>7. /\ events' \in Seq(Event) /\ Now < Now' /\ Now' \in Nat /\ \A i \in 1 .. Now : events'[i] = events[i]
      /\ events'[Now'] = r /\ (Faults = {} => Now' = Now + 2 /\ events'[Now + 1] = f)
      /\ (Faults # {} => Now' = Now + 1)
  <2>1. CASE Faults = {}
    <3>1. events' = Append(Append(events, f), r)
      BY <1>2, <1>5, <1>6, <2>1
    <3>2. PICK ev : ev = Append(events, f)
      OBVIOUS
    <3>3. /\ ev \in Seq(Event) /\ Len(ev) = Now + 1 /\ ev[Now + 1] = f
          /\ \A i \in 1 .. Now : ev[i] = events[i]
      BY <1>2, <1>5, <3>2 DEF Now
    <3>4. events' = Append(ev, r)
      BY <3>1, <3>2
    <3>5. /\ events' \in Seq(Event) /\ Len(events') = Now + 2 /\ events'[Now + 2] = r
          /\ \A i \in 1 .. Now + 1 : events'[i] = ev[i]
      BY <1>2, <1>5, <3>3, <3>4
    <3> QED
      BY <1>2, <2>1, <3>3, <3>5 DEF Now
  <2>2. CASE Faults # {}
    <3>0. PICK mid : mid = IF Faults = {} THEN <<f>> ELSE <<>>
      OBVIOUS
    <3>3. PICK q : q = events \o mid
      OBVIOUS
    <3>4. events' = q \o <<r>>
      BY <1>6, <3>0, <3>3
    <3>5. mid = <<>>
      BY <2>2, <3>0
    <3>6. q = events
      BY <1>2, <3>3, <3>5
    <3>1. events' = q \o <<r>> /\ q = events
      BY <3>4, <3>6
    <3>2. events' = Append(events, r)
      BY <1>2, <1>5, <3>1
    <3> QED
      BY <1>2, <1>5, <2>2, <3>2 DEF Now
  <2> QED
    BY <2>1, <2>2
<1>8. ASSUME NEW ty
      PROVE  \A i : i \in Of(ty)' <=> \/ i \in Of(ty) \/ (i = Now' /\ ty = "checkpoint_loaded")
                                      \/ (Faults = {} /\ i = Now + 1 /\ ty = "fault_observed")
  <2>1. \A i : i \in Of(ty)' <=> i \in 1 .. Now' /\ events'[i].type = ty
    BY DEF Of
  <2>2. \A i : i \in Of(ty) <=> i \in 1 .. Now /\ events[i].type = ty
    BY DEF Of
  <2>3. CASE Faults = {}
    <3>1. \A i : i \in 1 .. Now' <=> i \in 1 .. Now \/ i = Now + 1 \/ i = Now'
      BY <1>2, <1>7, <2>3
    <3> QED
      BY <1>2, <1>5, <1>7, <2>1, <2>2, <2>3, <3>1
  <2>4. CASE Faults # {}
    <3>1. \A i : i \in 1 .. Now' <=> i \in 1 .. Now \/ i = Now'
      BY <1>2, <1>7, <2>4
    <3> QED
      BY <1>2, <1>5, <1>7, <2>1, <2>2, <2>4, <3>1
  <2> QED
    BY <2>3, <2>4
<1>9. Loads' = Loads \union {Now'}
  <2>1. \A i : i \in Of("checkpoint_loaded")' <=> i \in Of("checkpoint_loaded") \/ i = Now'
    BY <1>8
  <2> QED
    BY <2>1 DEF Loads
<1>10. Faults' = IF Faults = {} THEN {Now + 1} ELSE Faults
  <2>1. \A i : i \in Of("fault_observed")' <=> i \in Of("fault_observed") \/ (Faults = {} /\ i = Now + 1)
    BY <1>8
  <2> QED
    BY <2>1 DEF Faults
<1>11. ASSUME NEW ty, ty \notin {"fault_observed", "checkpoint_loaded"} PROVE Of(ty)' = Of(ty)
  <2>1. \A i : i \in Of(ty)' <=> i \in Of(ty)
    BY <1>8, <1>11
  <2> QED
    BY <2>1
<1>12. /\ live'.loaded = s /\ live'.base = s /\ live'.since = <<>> /\ live'.epoch = e /\ live' \in Trainer
  BY <1>2, <1>6 DEF Trainer
<1>13. Typed'
  BY <1>1, <1>2, <1>6, <1>7, <1>9, <1>12 DEF Typed
<1>14. Longer
  <2>1. \A l \in Loads' \ Loads : l = Now' /\ l > Now
    BY <1>2, <1>7, <1>9
  <2>2. Now <= Now' /\ Loads \subseteq Loads'
    BY <1>2, <1>7, <1>9
  <2> QED
    BY <1>6, <1>7, <2>1, <2>2 DEF Longer
<1> QED
  BY <1>1, <1>2, <1>5, <1>6, <1>7, <1>9, <1>10, <1>11, <1>12, <1>13, <1>14, SavesStay, UpdatesStay DEF Goes

-----------------------------------------------------------------------------
(* What held of the record so far still holds of it                           *)

LEMMA OldOf ==
    ASSUME OracleInv, Goes
    PROVE  /\ Now \in Nat /\ Now' \in Nat /\ Now <= Now' /\ Len(states) \in Nat /\ Len(updates) \in Nat
           /\ \A ty, i \in 1 .. Now : i \in Of(ty)' <=> i \in Of(ty)
           /\ \A i \in Loads' : i \in Nat /\ (i <= Now => i \in Loads)
           /\ \A i \in 1 .. Now : i \in 1 .. Now' /\ events'[i] = events[i]
           /\ StateIds \subseteq StateIds' /\ UpdateIds \subseteq UpdateIds'
<1>1. Typed /\ Typed' /\ Longer /\ SavesKept /\ UpdatesKept
  BY DEF OracleInv, Goes
<1>2. Now \in Nat /\ Len(states) \in Nat /\ Len(updates) \in Nat
  BY <1>1, Types
<1>3. Now' \in Nat /\ Len(states') \in Nat /\ Len(updates') \in Nat
  BY <1>1 DEF Typed, Now
<1>4. Now <= Now' /\ \A i \in 1 .. Now : events'[i] = events[i]
  BY <1>1 DEF Longer
<1>5. \A i \in 1 .. Now : i \in 1 .. Now'
  BY <1>2, <1>3, <1>4
<1>6. \A ty, i \in 1 .. Now : i \in Of(ty)' <=> i \in Of(ty)
  BY <1>4, <1>5 DEF Of
<1>7. ASSUME NEW i \in Loads' PROVE i \in Nat /\ (i <= Now => i \in Loads)
  <2>1. i \in 1 .. Now'
    BY <1>7 DEF Loads, Of
  <2>2. i \in Loads \/ i > Now
    BY <1>1, <1>7 DEF Longer
  <2> QED
    BY <1>2, <1>3, <2>1, <2>2
<1>8. StateIds \subseteq StateIds' /\ UpdateIds \subseteq UpdateIds'
  BY <1>1, <1>2, <1>3 DEF StateIds, UpdateIds, SavesKept, UpdatesKept
<1> QED
  BY <1>2, <1>3, <1>4, <1>5, <1>6, <1>7, <1>8

LEMMA OldUnder ==
    ASSUME OracleInv, Goes, NEW i \in Nat, i <= Now + 1, NEW l, Under(l, i)'
    PROVE  Under(l, i) /\ l \in Loads /\ l < i /\ l \in 1 .. Now
<1>1. l \in Loads' /\ l < i /\ \A j \in Loads' : j < i => j <= l
  BY DEF Under
<1>2. Now \in Nat /\ l \in Nat
  BY <1>1, OldOf
<1>3. l \in Loads
  BY <1>1, <1>2, OldOf
<1>4. Loads \subseteq Loads'
  BY DEF Goes, Longer
<1>5. l \in 1 .. Now
  BY <1>3, Types DEF OracleInv
<1> QED
  BY <1>1, <1>3, <1>4, <1>5 DEF Under

(* Only the update that runs can end. *)
LEMMA OldUpdate ==
    ASSUME OracleInv, Goes, NEW u \in UpdateIds
    PROVE  /\ u \in UpdateIds' /\ updates[u].ended \in Nat /\ updates[u].ended <= Now
           /\ updates[u].started \in 3 .. Now /\ updates[u].started \in Nat
           /\ updates[u].successful => updates[u].ended # 0
           /\ updates'[u].group = updates[u].group /\ updates'[u].attempt = updates[u].attempt
           /\ updates'[u].admitted = updates[u].admitted /\ updates'[u].epoch = updates[u].epoch
           /\ updates'[u].loaded = updates[u].loaded /\ updates'[u].started = updates[u].started
           /\ updates'[u].authority = updates[u].authority
           /\ \/ /\ updates'[u].ended = updates[u].ended /\ updates'[u].successful = updates[u].successful
                 /\ updates'[u].apart = updates[u].apart
              \/ /\ u = running /\ running' = Nil /\ Now' = Now + 1 /\ updates'[u].ended = Now + 1
                 /\ u = Len(updates) /\ updates[u].ended = 0 /\ ~updates[u].successful
                 /\ \A l \in Loads : l < updates[u].started
                 /\ updates'[u].apart = (updates[u].apart /\ pending = Nil) /\ Loads' = Loads
<1>1. Typed /\ UpdatesKept /\ RunningInv /\ UpdateInv
  BY DEF OracleInv, Goes
<1>2. u \in UpdateIds' /\ Now \in Nat /\ updates[u].ended \in Nat /\ updates[u].started \in Nat
  BY <1>1, OldOf, Types
<1>3. /\ updates[u].successful => updates[u].ended # 0
      /\ updates[u].ended # 0 => updates[u].ended <= Now
      /\ updates[u].started \in 3 .. Now
  BY <1>1 DEF UpdateInv, TrainedWell
<1>4. u = running => running # Nil
  BY OracleAssumption DEF UpdateIds
<1>5. u = running => u = Len(updates) /\ updates[u].ended = 0 /\ \A l \in Loads : l < updates[u].started
  BY <1>1, <1>4 DEF RunningInv
<1>6. u = running => ~updates[u].successful
  BY <1>3, <1>5
<1>7. updates[u].ended <= Now
  BY <1>2, <1>3
<1> QED
  BY <1>1, <1>2, <1>3, <1>5, <1>6, <1>7 DEF UpdatesKept

(* Only the save that is under way can be stored. *)
LEMMA OldSave ==
    ASSUME OracleInv, Goes, NEW s \in StateIds
    PROVE  /\ s \in StateIds' /\ states[s].stored \in Nat /\ states[s].stored <= Now
           /\ states[s].scheduled \in 1 .. Now /\ states[s].scheduled \in Nat
           /\ content'[s] = content[s]
           /\ states'[s].parent = states[s].parent /\ states'[s].epoch = states[s].epoch
           /\ states'[s].updates = states[s].updates /\ states'[s].consumed = states[s].consumed
           /\ states'[s].scheduled = states[s].scheduled
           /\ \/ states'[s].stored = states[s].stored
              \/ /\ s = pending /\ pending' = Nil /\ Now' = Now + 1 /\ states'[s].stored = Now + 1
                 /\ s = Len(states) /\ s # First /\ states[s].stored = 0
                 /\ \A l \in Loads : l < states[s].scheduled
                 /\ events'[Now + 1].type = "checkpoint_persisted" /\ Loads' = Loads
<1>1. Typed /\ SavesKept /\ PendingInv /\ SaveInv
  BY DEF OracleInv, Goes
<1>2. s \in StateIds' /\ Now \in Nat /\ states[s].stored \in Nat /\ states[s].scheduled \in Nat /\ Now >= 2
  BY <1>1, OldOf, Types DEF Typed
<1>3. SaveFits(s)
  BY <1>1 DEF SaveInv
<1>4. states[s].scheduled \in 1 .. Now /\ states[s].stored <= Now
  <2>1. CASE s = First
    BY <1>2, <1>3, <2>1 DEF SaveFits
  <2>2. CASE s # First
    BY <1>2, <1>3, <2>2 DEF SaveFits
  <2> QED
    BY <2>1, <2>2
<1>5. s = pending => pending # Nil
  BY OracleAssumption DEF StateIds
<1>6. s = pending => /\ s = Len(states) /\ s # First /\ states[s].stored = 0
                     /\ \A l \in Loads : l < states[s].scheduled
  BY <1>1, <1>5 DEF PendingInv
<1> QED
  BY <1>1, <1>2, <1>4, <1>6 DEF SavesKept

LEMMA OldDone ==
    ASSUME OracleInv, Goes, NEW l \in Nat, NEW h \in Nat, h <= Now
    PROVE  Done(l, h)' = Done(l, h)
<1>1. Now \in Nat
  BY OldOf
<1>2. ASSUME NEW u \in Done(l, h)' PROVE u \in Done(l, h)
  <2>1. u \in UpdateIds' /\ updates'[u].successful /\ l < updates'[u].ended /\ updates'[u].ended <= h
    BY <1>2 DEF Done
  <2>2. u \in UpdateIds
    BY <2>1 DEF Goes, UpdatesKept
  <2>3. updates'[u].ended # Now + 1
    BY <1>1, <2>1
  <2>4. updates'[u].ended = updates[u].ended /\ updates'[u].successful = updates[u].successful
    BY <2>2, <2>3, OldUpdate
  <2> QED
    BY <2>1, <2>2, <2>4 DEF Done
<1>3. ASSUME NEW u \in Done(l, h) PROVE u \in Done(l, h)'
  <2>1. u \in UpdateIds /\ updates[u].successful /\ l < updates[u].ended /\ updates[u].ended <= h
    BY <1>3 DEF Done
  <2>2. u \in UpdateIds' /\ updates'[u].ended = updates[u].ended /\ updates'[u].successful = updates[u].successful
    BY <2>1, OldUpdate
  <2> QED
    BY <2>1, <2>2 DEF Done
<1> QED
  BY <1>2, <1>3

LEMMA LoadsCarry ==
    ASSUME OracleInv, Goes, \A l \in Loads' \ Loads : events'[l].state \in Saved
    PROVE  LoadInv'
<1> SUFFICES ASSUME NEW l \in Loads'
             PROVE  /\ events'[l].state \in StateIds'
                    /\ 0 < states'[events'[l].state].stored /\ states'[events'[l].state].stored < l
  BY DEF LoadInv
<1>1. Typed /\ LoadInv
  BY DEF OracleInv
<1>2. CASE l \in Loads
  <2>1. l \in 1 .. Now /\ events'[l] = events[l]
    BY <1>1, <1>2, Types, OldOf
  <2>2. PICK s : s = events[l].state
    OBVIOUS
  <2>3. s \in StateIds /\ 0 < states[s].stored /\ states[s].stored < l
    BY <1>1, <1>2, <2>2 DEF LoadInv
  <2>4. s \in StateIds' /\ states'[s].stored = states[s].stored
    BY <2>3, OldSave
  <2> QED
    BY <2>1, <2>2, <2>3, <2>4
<1>3. CASE l \notin Loads
  <2>1. l = Now' /\ l > Now /\ states' = states
    BY <1>3 DEF Goes, Longer
  <2>2. PICK s : s = events'[l].state
    OBVIOUS
  <2>3. s \in StateIds /\ states[s].stored # 0
    BY <1>3, <2>2 DEF Saved
  <2>4. s \in StateIds' /\ states[s].stored \in Nat /\ states[s].stored <= Now /\ Now \in Nat /\ Now' \in Nat
    BY <2>3, OldSave, OldOf
  <2> QED
    BY <2>1, <2>2, <2>3, <2>4
<1> QED
  BY <1>2, <1>3

LEMMA SavesCarry ==
    ASSUME OracleInv, Goes, \A s \in StateIds' \ StateIds : SaveFits(s)'
    PROVE  SaveInv'
<1> SUFFICES ASSUME NEW s \in StateIds PROVE SaveFits(s)'
  BY DEF SaveInv
<1>1. SaveFits(s)
  BY DEF OracleInv, SaveInv
<1>2. /\ states[s].stored \in Nat /\ states[s].stored <= Now /\ states[s].scheduled \in 1 .. Now
      /\ states'[s].parent = states[s].parent /\ states'[s].updates = states[s].updates
      /\ states'[s].consumed = states[s].consumed
      /\ states'[s].scheduled = states[s].scheduled /\ Now \in Nat /\ Now' \in Nat /\ Now <= Now'
      /\ UpdateIds \subseteq UpdateIds'
  BY OldSave, OldOf
<1>3. CASE s = First
  <2>1. states'[s].stored = states[s].stored
    BY <1>3, OldSave
  <2> QED
    BY <1>1, <1>2, <1>3, <2>1 DEF SaveFits, First
<1>4. CASE s # First
  <2>1. /\ states[s].parent \in 1 .. s - 1 /\ ToSet(states[s].updates) \subseteq UpdateIds
        /\ states[s].scheduled \in 3 .. Now /\ events[states[s].scheduled].type = "checkpoint_schedule"
        /\ states[s].stored # 0 =>
               /\ states[s].scheduled < states[s].stored /\ states[s].stored <= Now
               /\ events[states[s].stored].type = "checkpoint_persisted"
        /\ \A l \in Loads : ~(states[s].scheduled < l /\ l < states[s].stored)
    BY <1>1, <1>4 DEF SaveFits
  <2>2. PICK h \in 1 .. Now : h = states[s].scheduled
    BY <1>2
  <2>3. h \in 3 .. Now' /\ events'[h].type = "checkpoint_schedule" /\ states'[s].scheduled = h
    BY <1>2, <2>1, <2>2, OldOf
  <2>4. CASE states'[s].stored = states[s].stored
    <3>1. states'[s].stored # 0 =>
               /\ h < states'[s].stored /\ states'[s].stored <= Now'
               /\ events'[states'[s].stored].type = "checkpoint_persisted"
      <4>1. PICK w : w = states[s].stored
        OBVIOUS
      <4>2. w # 0 => w \in 1 .. Now /\ h < w /\ events[w].type = "checkpoint_persisted"
        BY <1>2, <2>1, <2>2, <4>1
      <4> QED
        BY <1>2, <2>4, <4>1, <4>2, OldOf
    <3>2. ASSUME NEW l \in Loads', h < l, l < states'[s].stored PROVE FALSE
      <4>1. l \in Loads
        BY <1>2, <2>4, <3>2, OldOf
      <4> QED
        BY <2>1, <2>2, <2>4, <3>2, <4>1
    <3> QED
      BY <1>2, <1>4, <2>1, <2>3, <3>1, <3>2 DEF SaveFits, First
  <2>5. CASE states'[s].stored # states[s].stored
    <3>1. /\ Now' = Now + 1 /\ states'[s].stored = Now + 1 /\ \A l \in Loads : l < states[s].scheduled
          /\ events'[Now + 1].type = "checkpoint_persisted" /\ Loads' = Loads
      BY <2>5, OldSave
    <3>2. ASSUME NEW l \in Loads', h < l PROVE FALSE
      <4>1. l < h /\ l \in Nat
        BY <2>2, <3>1, <3>2, OldOf
      <4> QED
        BY <2>2, <3>2, <4>1
    <3> QED
      BY <1>2, <1>4, <2>1, <2>2, <2>3, <3>1, <3>2 DEF SaveFits, First
  <2> QED
    BY <2>4, <2>5
<1> QED
  BY <1>3, <1>4

LEMMA OrderCarries ==
    ASSUME OracleInv, Goes,
           \A s \in StateIds' \ StateIds : s = Len(states) + 1 /\ Now' = Now + 1 /\ states'[s].scheduled = Now + 1
                                           /\ states'[s].stored = 0 /\ pending = Nil
    PROVE  OrderInv'
<1> SUFFICES ASSUME NEW s \in StateIds', NEW t \in StateIds', s < t
             PROVE  states'[s].scheduled < states'[t].scheduled /\ states'[s].stored < states'[t].scheduled
  BY DEF OrderInv
<1>1. Now \in Nat /\ Len(states) \in Nat
  BY OldOf
<1>2. s \in StateIds
  <2>1. CASE t \in StateIds
    <3>1. Len(states') \in Nat
      BY DEF Goes, Typed
    <3> QED
      BY <1>1, <2>1, <3>1 DEF StateIds
  <2>2. CASE t \notin StateIds
    BY <1>1, <2>2 DEF StateIds
  <2> QED
    BY <2>1, <2>2
<1>3. /\ states[s].stored \in Nat /\ states[s].stored <= Now /\ states[s].scheduled \in 1 .. Now
      /\ states'[s].scheduled = states[s].scheduled
      /\ states'[s].stored = states[s].stored \/ (s = pending /\ s = Len(states) /\ states'[s].stored = Now + 1)
  BY <1>2, OldSave
<1>4. CASE t \in StateIds
  <2>1. states[s].scheduled < states[t].scheduled /\ states[s].stored < states[t].scheduled
    BY <1>2, <1>4 DEF OracleInv, OrderInv
  <2>2. states'[t].scheduled = states[t].scheduled
    BY <1>4, OldSave
  <2>3. s # Len(states)
    BY <1>1, <1>4 DEF StateIds
  <2> QED
    BY <1>3, <2>1, <2>2, <2>3
<1>5. CASE t \notin StateIds
  <2>1. s # pending
    <3>1. s \in Nat
      BY <1>2 DEF StateIds
    <3> QED
      BY <1>5, <3>1, OracleAssumption
  <2> QED
    BY <1>1, <1>3, <1>5, <2>1
<1> QED
  BY <1>4, <1>5

LEMMA ContentCarries ==
    ASSUME OracleInv, Goes, \A s \in StateIds' \ StateIds : Holds(s)'
    PROVE  ContentInv'
<1> SUFFICES ASSUME NEW s \in StateIds PROVE Holds(s)'
  BY DEF ContentInv
<1>1. Holds(s)
  BY DEF OracleInv, ContentInv
<1>2. PICK h : h = states[s].scheduled
  OBVIOUS
<1>3. h \in Nat /\ h <= Now /\ content'[s] = content[s] /\ states'[s].scheduled = h /\ Now \in Nat
  BY <1>2, OldSave, OldOf
<1>4. PICK q : q = content[s]
  OBVIOUS
<1>5. /\ Inc(q) /\ (s = First => q = <<>>)
      /\ \A u \in ToSet(q) : u \in UpdateIds /\ updates[u].successful /\ updates[u].ended <= h
  BY <1>1, <1>2, <1>4 DEF Holds
<1>6. ASSUME NEW u \in ToSet(q) PROVE u \in UpdateIds' /\ updates'[u].successful /\ updates'[u].ended <= h
  <2>1. u \in UpdateIds /\ updates[u].successful /\ updates[u].ended <= h
    BY <1>5
  <2> QED
    BY <2>1, OldUpdate
<1>7. ASSUME s # First, NEW l \in Loads', Under(l, states[s].scheduled)'
      PROVE  ToSet(q) = ToSet(content'[events'[l].state]) \union Done(l, h)'
  <2>1. Under(l, h)'
    BY <1>3, <1>7 DEF Under
  <2>2. Under(l, h) /\ l \in Loads /\ l \in 1 .. Now
    BY <1>3, <2>1, OldUnder
  <2>3. ToSet(q) = ToSet(content[events[l].state]) \union Done(l, h)
    BY <1>1, <1>2, <1>4, <1>7, <2>2 DEF Holds
  <2>4. PICK t : t = events[l].state
    OBVIOUS
  <2>5. t \in StateIds
    BY <2>2, <2>4 DEF OracleInv, LoadInv
  <2>6. events'[l].state = t /\ content'[t] = content[t]
    BY <2>2, <2>4, <2>5, OldOf, OldSave
  <2>7. Done(l, h)' = Done(l, h)
    BY <1>3, <2>2, OldDone
  <2> QED
    BY <2>3, <2>4, <2>6, <2>7
<1>8. ASSUME s # First, NEW l \in Loads', Under(l, states[s].scheduled)'
      PROVE  ToSet(content'[s]) = ToSet(content'[events'[l].state]) \union Done(l, states[s].scheduled)'
  <2>1. Done(l, states[s].scheduled)' = Done(l, h)'
    BY <1>3 DEF Done
  <2> QED
    BY <1>3, <1>4, <1>7, <1>8, <2>1
<1>9. First' = First
  BY DEF First
<1>10. Inc(content[s])'
  BY <1>3, <1>4, <1>5 DEF Inc
<1> QED
  BY <1>3, <1>4, <1>5, <1>6, <1>8, <1>9, <1>10 DEF Holds

LEMMA UpdatesCarry ==
    ASSUME OracleInv, Goes, \A u \in UpdateIds' \ UpdateIds : TrainedWell(u)',
           \A u \in UpdateIds : updates'[u].ended # updates[u].ended => TrainedWell(u)'
    PROVE  UpdateInv'
<1> SUFFICES ASSUME NEW u \in UpdateIds, updates'[u].ended = updates[u].ended PROVE TrainedWell(u)'
  BY DEF UpdateInv
<1>1. TrainedWell(u)
  BY DEF OracleInv, UpdateInv
<1>2. /\ updates[u].ended \in Nat /\ updates[u].ended <= Now /\ updates[u].started \in 3 .. Now
      /\ updates'[u].group = updates[u].group /\ updates'[u].epoch = updates[u].epoch
      /\ updates'[u].started = updates[u].started /\ updates'[u].authority = updates[u].authority
      /\ updates'[u].successful = updates[u].successful
      /\ Now \in Nat /\ Now' \in Nat /\ Now <= Now'
  BY OldUpdate, OldOf
<1>3. PICK b : b = updates[u].started
  OBVIOUS
<1>4. PICK w : w = updates[u].ended
  OBVIOUS
<1>5. b \in 3 .. Now' /\ b \in 1 .. Now /\ updates'[u].started = b /\ updates'[u].ended = w
  BY <1>2, <1>3, <1>4
<1>a. events'[b].type = "optimizer_start"
  <2>1. events[b].type = "optimizer_start"
    BY <1>1, <1>3 DEF TrainedWell
  <2> QED
    BY <1>5, <2>1, OldOf
<1>6. w # 0 => /\ b < w /\ w <= Now'
               /\ events'[w] = [type |-> "optimizer_end", update |-> u, epoch |-> updates'[u].epoch,
                                successful |-> updates'[u].successful]
               /\ \A l \in Loads' : ~(b < l /\ l < w)
  <2> HAVE w # 0
  <2>1. /\ b < w /\ w <= Now
        /\ events[w] = [type |-> "optimizer_end", update |-> u, epoch |-> updates[u].epoch,
                        successful |-> updates[u].successful]
        /\ \A l \in Loads : ~(b < l /\ l < w)
    BY <1>1, <1>3, <1>4 DEF TrainedWell
  <2>2. w \in 1 .. Now /\ events'[w] = events[w]
    BY <1>2, <1>4, <2>1, OldOf
  <2>3. \A l \in Loads' : ~(b < l /\ l < w)
    <3> SUFFICES ASSUME NEW l \in Loads', l < w PROVE l \in Loads
      BY <2>1
    <3> QED
      BY <1>2, <2>2, OldOf
  <2> QED
    BY <1>2, <2>1, <2>2, <2>3
<1>7. ASSUME NEW l \in Loads', Under(l, updates[u].started)' PROVE events'[l].epoch = updates'[u].epoch
  <2>1. Under(l, b)'
    BY <1>5, <1>7 DEF Under
  <2>2. Under(l, b) /\ l \in Loads /\ l \in 1 .. Now
    BY <1>2, <1>5, <2>1, OldUnder
  <2>3. events[l].epoch = updates[u].epoch
    BY <1>1, <1>3, <2>2 DEF TrainedWell
  <2> QED
    BY <1>2, <2>2, <2>3, OldOf
<1>8. PICK a \in Of("authorize") :
          /\ a < b /\ events[a] = updates[u].authority
          /\ events[a].group = updates[u].group
          /\ \A j \in Of("authorize") : events[j].group = updates[u].group /\ j < b => j <= a
  BY <1>1, <1>3 DEF TrainedWell
<1>9. a \in 1 .. Now /\ a \in Of("authorize")' /\ events'[a] = events[a]
  <2>1. a \in 1 .. Now
    BY <1>8 DEF Of
  <2>2. a \in 1 .. Now' /\ events'[a] = events[a] /\ events[a].type = "authorize"
    BY <1>8, <2>1, OldOf DEF Of
  <2> QED
    BY <2>1, <2>2 DEF Of
<1>10. ASSUME NEW j \in Of("authorize")', events'[j].group = updates'[u].group, j < b PROVE j <= a
  <2>1. j \in 1 .. Now'
    BY <1>10 DEF Of
  <2>2. j \in 1 .. Now
    BY <1>2, <1>5, <1>10, <2>1
  <2>3. j \in Of("authorize") /\ events'[j] = events[j]
    BY <1>10, <2>2, OldOf DEF Of
  <2> QED
    BY <1>2, <1>8, <1>10, <2>3
<1>11. \E c \in Of("authorize")' :
          /\ c < b /\ events'[c] = updates'[u].authority
          /\ events'[c].group = updates'[u].group
          /\ \A j \in Of("authorize")' : events'[j].group = updates'[u].group /\ j < b => j <= c
  BY <1>2, <1>8, <1>9, <1>10
<1>12. updates'[u].successful => w # 0
  BY <1>2, <1>4, OldUpdate
<1> QED
  BY <1>5, <1>a, <1>6, <1>7, <1>11, <1>12 DEF TrainedWell

LEMMA TurnsCarry ==
    ASSUME OracleInv, Goes
    PROVE  TurnInv'
<1> SUFFICES ASSUME NEW u \in UpdateIds', NEW v \in UpdateIds', u < v
             PROVE  updates'[u].started < updates'[v].started /\ updates'[u].ended < updates'[v].started
  BY DEF TurnInv
<1>1. Now \in Nat /\ Len(updates) \in Nat
  BY OldOf
<1>2. UpdatesKept /\ Len(updates') \in Nat
  BY DEF Goes, Typed
<1>3. u \in UpdateIds
  <2>1. CASE v \in UpdateIds
    BY <1>1, <1>2, <2>1 DEF UpdateIds
  <2>2. CASE v \notin UpdateIds
    <3>1. v = Len(updates) + 1
      BY <1>2, <2>2 DEF UpdatesKept
    <3> QED
      BY <1>1, <1>2, <3>1 DEF UpdateIds
  <2> QED
    BY <2>1, <2>2
<1>4. /\ updates[u].ended \in Nat /\ updates[u].ended <= Now /\ updates[u].started \in 3 .. Now
      /\ updates'[u].started = updates[u].started
      /\ updates'[u].ended = updates[u].ended \/ (u = running /\ u = Len(updates) /\ updates'[u].ended = Now + 1)
  BY <1>3, OldUpdate
<1>5. CASE v \in UpdateIds
  <2>1. updates[u].started < updates[v].started /\ updates[u].ended < updates[v].started
    BY <1>3, <1>5 DEF OracleInv, TurnInv
  <2>2. updates'[v].started = updates[v].started
    BY <1>5, OldUpdate
  <2>3. u # Len(updates)
    BY <1>1, <1>5 DEF UpdateIds
  <2> QED
    BY <1>4, <2>1, <2>2, <2>3
<1>6. CASE v \notin UpdateIds
  <2>1. running = Nil /\ updates'[v].started = Now + 1
    BY <1>2, <1>6 DEF UpdatesKept
  <2>2. u # running
    BY <1>3, <2>1, OracleAssumption DEF UpdateIds
  <2> QED
    BY <1>1, <1>4, <2>1, <2>2
<1> QED
  BY <1>5, <1>6

LEMMA TruthCarries ==
    ASSUME OracleInv, Goes, lies' = 0 => lies = 0,
           lies' = 0 => \A s \in StateIds' \ StateIds, l \in Loads' :
                           Under(l, states[s].scheduled)' => TrueSave(s, l)',
           lies' = 0 => \A u \in UpdateIds' \ UpdateIds, l \in Loads' :
                           Under(l, updates[u].started)' => updates'[u].loaded = events'[l].state
    PROVE  TruthInv'
<1>1. ASSUME lies' = 0, NEW s \in StateIds, s # First, NEW l \in Loads', Under(l, states[s].scheduled)'
      PROVE  TrueSave(s, l)'
  <2>1. PICK h : h = states[s].scheduled
    OBVIOUS
  <2>2. /\ h \in 1 .. Now /\ states'[s].scheduled = h /\ content'[s] = content[s]
        /\ states'[s].parent = states[s].parent /\ states'[s].epoch = states[s].epoch
        /\ states'[s].updates = states[s].updates /\ states'[s].consumed = states[s].consumed
        /\ Now \in Nat /\ Now' \in Nat
    BY <2>1, OldSave, OldOf
  <2>3. Under(l, h)'
    BY <1>1, <2>2 DEF Under
  <2>4. Under(l, h) /\ l \in Loads /\ l \in 1 .. Now /\ l < h
    BY <2>2, <2>3, OldUnder
  <2>5. events'[l] = events[l]
    BY <2>4, OldOf
  <2>6. TrueSave(s, l)
    BY <1>1, <2>1, <2>4 DEF OracleInv, TruthInv
  <2>7. PICK p : p = states[s].parent
    OBVIOUS
  <2>8. p \in StateIds /\ p # s
    <3>1. SaveFits(s)
      BY DEF OracleInv, SaveInv
    <3>2. p \in 1 .. s - 1
      BY <1>1, <2>7, <3>1 DEF SaveFits
    <3>3. Len(states) \in Nat
      BY OldOf
    <3> QED
      BY <3>2, <3>3 DEF StateIds
  <2>9. /\ states[p].scheduled \in 1 .. Now /\ states'[p].scheduled = states[p].scheduled
        /\ states[p].stored # 0 => states'[p].stored # 0
    BY <2>2, <2>8, OldSave
  <2>10. PICK b : b = TrueBase(s, l)
    OBVIOUS
  <2>11. b = IF p = events[l].state THEN l ELSE states[p].scheduled
    BY <2>7, <2>10 DEF TrueBase
  <2>12. TrueBase(s, l)' = b
    BY <2>2, <2>5, <2>7, <2>9, <2>11 DEF TrueBase
  <2>13. b \in Nat
    BY <2>4, <2>9, <2>11
  <2>14. Done(b, h)' = Done(b, h)
    BY <2>2, <2>13, OldDone
  <2>15. Done(TrueBase(s, l), states[s].scheduled)' = Done(b, h)'
    BY <2>2, <2>12 DEF Done
  <2>16. GroupsOf(content[s])' = GroupsOf(content[s])
    <3>1. \A u \in ToSet(content[s]) : u \in UpdateIds
      BY DEF OracleInv, ContentInv, Holds
    <3>2. \A u \in ToSet(content[s]) : updates'[u].group = updates[u].group
      BY <3>1, OldUpdate
    <3> QED
      BY <2>2, <3>2 DEF GroupsOf
  <2>17. /\ states[s].epoch = events[l].epoch /\ states[s].consumed = GroupsOf(content[s])
         /\ states[p].stored # 0 /\ (p # events[l].state => l < states[p].scheduled)
         /\ Inc(states[s].updates) /\ ToSet(states[s].updates) = Done(b, h)
         /\ \A t \in StateIds : t < s => states[t].scheduled <= b
    BY <2>1, <2>6, <2>7, <2>10 DEF TrueSave
  <2>18. ASSUME NEW t \in StateIds', t < s PROVE states'[t].scheduled <= b
    <3>1. t \in StateIds
      <4>1. Len(states) \in Nat /\ Len(states') \in Nat
        BY OldOf DEF Goes, Typed
      <4> QED
        BY <2>18, <4>1 DEF StateIds
    <3>2. states'[t].scheduled = states[t].scheduled
      BY <3>1, OldSave
    <3> QED
      BY <2>17, <2>18, <3>1, <3>2
  <2>19. Inc(states[s].updates)'
    BY <2>2, <2>17 DEF Inc
  <2>20. ToSet(states'[s].updates) = Done(TrueBase(s, l), states[s].scheduled)'
    BY <2>2, <2>14, <2>15, <2>17
  <2> QED
    BY <2>2, <2>5, <2>7, <2>9, <2>12, <2>16, <2>17, <2>18, <2>19, <2>20 DEF TrueSave
<1>2. ASSUME lies' = 0, NEW u \in UpdateIds, NEW l \in Loads', Under(l, updates[u].started)'
      PROVE  updates'[u].loaded = events'[l].state
  <2>1. PICK b : b = updates[u].started
    OBVIOUS
  <2>2. b \in 3 .. Now /\ updates'[u].started = b /\ updates'[u].loaded = updates[u].loaded /\ Now \in Nat
    BY <2>1, OldUpdate, OldOf
  <2>3. Under(l, b)'
    BY <1>2, <2>2 DEF Under
  <2>4. Under(l, b) /\ l \in Loads /\ l \in 1 .. Now
    BY <2>2, <2>3, OldUnder
  <2>5. updates[u].loaded = events[l].state
    BY <1>2, <2>1, <2>4 DEF OracleInv, TruthInv
  <2> QED
    BY <2>2, <2>4, <2>5, OldOf
<1>3. First' = First
  BY DEF First
<1>4. ASSUME lies' = 0, NEW s \in StateIds' \ {First}, NEW l \in Loads', Under(l, states[s].scheduled)'
      PROVE  TrueSave(s, l)'
  <2>1. CASE s \in StateIds
    BY <1>1, <1>4, <2>1
  <2>2. CASE s \notin StateIds
    BY <1>4, <2>2
  <2> QED
    BY <2>1, <2>2
<1>5. ASSUME lies' = 0, NEW u \in UpdateIds', NEW l \in Loads', Under(l, updates[u].started)'
      PROVE  updates'[u].loaded = events'[l].state
  <2>1. CASE u \in UpdateIds
    BY <1>2, <1>5, <2>1
  <2>2. CASE u \notin UpdateIds
    BY <1>5, <2>2
  <2> QED
    BY <2>1, <2>2
<1> QED
  BY <1>3, <1>4, <1>5 DEF TruthInv

LEMMA ApartCarries ==
    ASSUME OracleInv, Goes,
           pending' = pending \/ pending' = Nil \/ pending' = Len(states) + 1,
           running' = running \/ running' = Nil \/ (running' \notin UpdateIds /\ running = Nil),
           \A s \in StateIds' \ StateIds : running = Nil /\ states'[s].scheduled = Now + 1 /\ UpdateIds' = UpdateIds,
           \A u \in UpdateIds' \ UpdateIds : StateIds' = StateIds /\ states' = states /\ (updates'[u].apart => pending = Nil)
    PROVE  ApartInv'
<1> SUFFICES ASSUME NEW u \in UpdateIds', NEW s \in StateIds', updates'[u].apart
             PROVE  \/ updates'[u].ended # 0 /\ updates'[u].ended < states'[s].scheduled
                    \/ states'[s].stored < updates'[u].started /\ pending' # s
                    \/ updates'[u].ended = 0 /\ running' # u
  BY DEF ApartInv
<1>1. /\ Now \in Nat /\ Now' \in Nat /\ Len(states) \in Nat /\ UpdatesKept
      /\ Nil \notin UpdateIds' /\ Nil \notin StateIds'
  BY OldOf, OracleAssumption DEF Goes, UpdateIds, StateIds
<1>2. CASE u \in UpdateIds /\ s \in StateIds
  <2>1. updates[u].apart
    BY <1>2, OldUpdate
  <2>2. \/ updates[u].ended # 0 /\ updates[u].ended < states[s].scheduled
        \/ states[s].stored < updates[u].started /\ pending # s
        \/ updates[u].ended = 0 /\ running # u
    BY <1>2, <2>1 DEF OracleInv, ApartInv
  <2>3. /\ states'[s].scheduled = states[s].scheduled /\ updates'[u].started = updates[u].started
        /\ states'[s].stored = states[s].stored \/ s = pending
        /\ \/ updates'[u].ended = updates[u].ended
           \/ u = running /\ updates[u].ended = 0
    BY <1>2, OldSave, OldUpdate
  <2>4. CASE updates[u].ended # 0 /\ updates[u].ended < states[s].scheduled
    BY <2>3, <2>4
  <2>5. CASE states[s].stored < updates[u].started /\ pending # s
    <3>1. pending' # s
      BY <1>1, <1>2, <2>5 DEF StateIds
    <3> QED
      BY <2>3, <2>5, <3>1
  <2>6. CASE updates[u].ended = 0 /\ running # u
    <3>1. running' # u
      BY <1>1, <1>2, <2>6
    <3> QED
      BY <2>3, <2>6, <3>1
  <2> QED
    BY <2>2, <2>4, <2>5, <2>6
<1>3. CASE u \in UpdateIds /\ s \notin StateIds
  <2>1. running = Nil /\ states'[s].scheduled = Now + 1 /\ running' # u
    BY <1>1, <1>3
  <2>2. u # running
    BY <1>1, <2>1
  <2>3. updates'[u].ended = updates[u].ended /\ updates[u].ended \in Nat /\ updates[u].ended <= Now
    BY <1>3, <2>2, OldUpdate
  <2> QED
    BY <1>1, <2>1, <2>3
<1>4. CASE u \notin UpdateIds /\ s \in StateIds
  <2>1. pending = Nil /\ states' = states
    BY <1>4
  <2>2. updates'[u].started = Now + 1 /\ pending' = pending
    BY <1>1, <1>4 DEF UpdatesKept
  <2>3. states[s].stored \in Nat /\ states[s].stored <= Now
    BY <1>4, OldSave
  <2> QED
    BY <1>1, <2>1, <2>2, <2>3
<1> QED
  BY <1>2, <1>3, <1>4

LEMMA LiveCarries ==
    ASSUME OracleInv, Goes, Loads' = Loads, Len(states') = Len(states),
           live'.loaded = live.loaded, live'.base = live.base, live'.epoch = live.epoch, live'.since = live.since,
           pending' = pending \/ (pending \in StateIds /\ states'[pending].stored # 0),
           \A u \in UpdateIds' : updates'[u].successful => u \in UpdateIds /\ updates[u].successful
    PROVE  LiveInv'
<1>1. Now \in Nat /\ Now' \in Nat /\ Now <= Now' /\ StateIds' = StateIds
  BY OldOf DEF StateIds
<1>2. /\ live.base \in StateIds /\ (live.base = pending \/ states[live.base].stored # 0) /\ Inc(live.since)
  BY DEF OracleInv, LiveInv
<1>3. live.base = pending' \/ states'[live.base].stored # 0
  BY <1>2, OldSave
<1>4. ASSUME NEW l \in Loads', Under(l, Now + 1)'
      PROVE  /\ events'[l].state = live.loaded /\ events'[l].epoch = live.epoch
             /\ live.base = live.loaded => \A s \in StateIds' : states'[s].scheduled <= l
             /\ live.base # live.loaded => live.base = Len(states') /\ l < states'[live.base].scheduled
             /\ ToSet(live.since) = Done(Low(l), Now)'
  <2>1. l \in Loads /\ l \in 1 .. Now /\ Loads \subseteq 1 .. Now
    BY Types DEF OracleInv
  <2>2. Under(l, Now + 1)
    BY <1>1, <1>4, <2>1 DEF Under
  <2>3. /\ events[l].state = live.loaded /\ events[l].epoch = live.epoch
        /\ live.base = live.loaded => \A s \in StateIds : states[s].scheduled <= l
        /\ live.base # live.loaded => live.base = Len(states) /\ l < states[live.base].scheduled
        /\ ToSet(live.since) = Done(Low(l), Now)
    BY <2>1, <2>2 DEF OracleInv, LiveInv
  <2>4. PICK b : b = Low(l)
    OBVIOUS
  <2>5. Low(l)' = b
    BY <1>2, <2>4, OldSave DEF Low
  <2>6. Done(b, Now') \subseteq UpdateIds /\ Done(Low(l), Now)' = Done(b, Now)'
    BY <2>5 DEF Done
  <2>7. Done(b, Now)' = Done(b, Now)
    <3>1. ASSUME NEW u \in Done(b, Now)' PROVE u \in Done(b, Now)
      <4>1. u \in UpdateIds' /\ updates'[u].successful /\ b < updates'[u].ended
        BY <3>1 DEF Done
      <4>2. u \in UpdateIds /\ updates[u].successful
        BY <4>1
      <4>3. updates'[u].ended = updates[u].ended /\ updates[u].ended <= Now
        BY <4>2, OldUpdate
      <4> QED
        BY <4>1, <4>2, <4>3 DEF Done
    <3>2. ASSUME NEW u \in Done(b, Now) PROVE u \in Done(b, Now)'
      <4>1. u \in UpdateIds /\ updates[u].successful /\ b < updates[u].ended /\ updates[u].ended <= Now
        BY <3>2 DEF Done
      <4>2. u \in UpdateIds' /\ updates'[u].ended = updates[u].ended /\ updates'[u].successful
            /\ updates[u].ended \in Nat
        BY <4>1, OldUpdate
      <4>3. updates'[u].ended <= Now'
        BY <1>1, <4>1, <4>2
      <4> QED
        BY <4>1, <4>2, <4>3 DEF Done
    <3> QED
      BY <3>1, <3>2
  <2>8. \A s \in StateIds : states'[s].scheduled = states[s].scheduled
    BY OldSave
  <2> QED
    BY <1>1, <1>2, <2>1, <2>3, <2>4, <2>6, <2>7, <2>8, OldOf
<1>5. Inc(live.since)'
  BY <1>2 DEF Inc
<1> QED
  BY <1>1, <1>2, <1>3, <1>4, <1>5 DEF LiveInv

LEMMA PendingCarries ==
    ASSUME OracleInv, Goes, Loads' = Loads, Len(states') = Len(states), pending' = pending
    PROVE  PendingInv'
<1> SUFFICES ASSUME pending # Nil
             PROVE  /\ pending \in StateIds' /\ pending # First /\ pending = Len(states')
                    /\ states'[pending].stored = 0 /\ \A l \in Loads' : l < states'[pending].scheduled
  BY DEF PendingInv, First
<1>1. /\ pending \in StateIds /\ pending # First /\ pending = Len(states)
      /\ states[pending].stored = 0 /\ \A l \in Loads : l < states[pending].scheduled
  BY DEF OracleInv, PendingInv
<1>2. /\ states'[pending].stored = states[pending].stored /\ pending \in StateIds'
      /\ states'[pending].scheduled = states[pending].scheduled
  BY <1>1, OldSave
<1> QED
  BY <1>1, <1>2

LEMMA RunningCarries ==
    ASSUME OracleInv, Goes, Loads' = Loads, Len(updates') = Len(updates), running' = running
    PROVE  RunningInv'
<1> SUFFICES ASSUME running # Nil
             PROVE  /\ running \in UpdateIds' /\ running = Len(updates') /\ updates'[running].ended = 0
                    /\ \A l \in Loads' : l < updates'[running].started
  BY DEF RunningInv
<1>1. /\ running \in UpdateIds /\ running = Len(updates) /\ updates[running].ended = 0
      /\ \A l \in Loads : l < updates[running].started
  BY DEF OracleInv, RunningInv
<1> QED
  BY <1>1, OldUpdate

LEMMA EndCarries ==
    ASSUME OracleInv, Goes, Of("optimizer_end")' = Of("optimizer_end")
    PROVE  EndInv'
<1> SUFFICES ASSUME NEW i \in Of("optimizer_end")
             PROVE  events'[i].update \in UpdateIds' /\ updates'[events'[i].update].ended = i
  BY DEF EndInv
<1>1. i \in 1 .. Now /\ events'[i] = events[i]
  BY OldOf DEF Of
<1>2. PICK u : u = events[i].update
  OBVIOUS
<1>3. u \in UpdateIds /\ updates[u].ended = i /\ i # 0
  BY <1>1, <1>2 DEF OracleInv, EndInv
<1> QED
  BY <1>1, <1>2, <1>3, OldUpdate

LEMMA AuthorityCarries ==
    ASSUME OracleInv, Goes, authority' = authority, Of("authorize")' = Of("authorize")
    PROVE  AuthorityInv'
<1> SUFFICES ASSUME NEW g \in Groups
             PROVE  \E a \in Of("authorize") :
                       /\ events'[a] = authority[g] /\ events'[a].group = g
                       /\ \A j \in Of("authorize") : events'[j].group = g => j <= a
  BY DEF AuthorityInv
<1>1. \A i \in Of("authorize") : events'[i] = events[i]
  <2>1. \A i \in Of("authorize") : i \in 1 .. Now
    BY DEF Of
  <2> QED
    BY <2>1, OldOf
<1> QED
  BY <1>1 DEF OracleInv, AuthorityInv

LEMMA FaultCarries ==
    ASSUME OracleInv, Goes, Faults' = Faults
    PROVE  FaultInv'
<1>1. Loads \subseteq Loads'
  BY DEF Goes, Longer
<1> QED
  BY <1>1 DEF OracleInv, FaultInv

(* A step that saves, trains and loads nothing *)
LEMMA QuietStep ==
    ASSUME OracleInv, Goes, Loads' = Loads, UNCHANGED <<states, updates, live, running, pending, content, lies>>,
           Of("optimizer_end")' = Of("optimizer_end"), Faults' = Faults, final' = Nil, AuthorityInv'
    PROVE  OracleInv'
<1>1. StateIds' = StateIds /\ UpdateIds' = UpdateIds
  BY DEF StateIds, UpdateIds
<1>2. LoadInv' /\ SaveInv' /\ OrderInv' /\ ContentInv'
  BY <1>1, LoadsCarry, SavesCarry, OrderCarries, ContentCarries
<1>3. UpdateInv' /\ TurnInv' /\ TruthInv' /\ ApartInv'
  BY <1>1, UpdatesCarry, TurnsCarry, TruthCarries, ApartCarries
<1>4. LiveInv'
  BY <1>1, LiveCarries
<1>5. PendingInv' /\ RunningInv' /\ EndInv' /\ FaultInv'
  BY PendingCarries, RunningCarries, EndCarries, FaultCarries
<1>6. FinalInv'
  BY DEF FinalInv
<1> QED
  BY <1>2, <1>3, <1>4, <1>5, <1>6 DEF OracleInv, Goes

LEMMA AuthorizeKeeps ==
    ASSUME OracleInv, NEW g \in Groups, Authorize(g)
    PROVE  OracleInv'
<1>1. /\ Goes /\ Loads' = Loads /\ Now' = Now + 1 /\ final = Nil
      /\ events'[Now + 1] = authority'[g] /\ authority'[g].group = g
      /\ \A h \in Groups \ {g} : authority'[h] = authority[h]
      /\ \A ty : Of(ty)' = IF ty = "authorize" THEN Of(ty) \union {Now + 1} ELSE Of(ty)
  BY AuthorizeDoes
<1>2. Of("optimizer_end")' = Of("optimizer_end") /\ Of("authorize")' = Of("authorize") \union {Now + 1}
  BY <1>1
<1>3. Faults' = Faults
  BY <1>1 DEF Faults
<1>4. UNCHANGED <<states, updates, live, running, pending, content, lies>> /\ final' = Nil
  BY DEF Authorize
<1>5. Now \in Nat /\ \A i \in Of("authorize") : i \in Nat /\ i <= Now /\ events'[i] = events[i]
  <2>1. \A i \in Of("authorize") : i \in 1 .. Now
    BY DEF Of
  <2> QED
    BY <1>1, <2>1, OldOf
<1>6. ASSUME NEW h \in Groups
      PROVE  \E a \in Of("authorize")' :
                /\ events'[a] = authority'[h] /\ events'[a].group = h
                /\ \A j \in Of("authorize")' : events'[j].group = h => j <= a
  <2>1. CASE h = g
    <3>1. Now + 1 \in Of("authorize")' /\ \A j \in Of("authorize")' : j <= Now + 1
      BY <1>2, <1>5
    <3>2. events'[Now + 1] = authority'[h] /\ events'[Now + 1].group = h
      BY <1>1, <2>1
    <3> QED
      BY <3>1, <3>2
  <2>2. CASE h # g
    <3>1. PICK a \in Of("authorize") :
                /\ events[a] = authority[h] /\ events[a].group = h
                /\ \A j \in Of("authorize") : events[j].group = h => j <= a
      BY DEF OracleInv, AuthorityInv
    <3> QED
      BY <1>1, <1>2, <1>5, <2>2, <3>1
  <2> QED
    BY <2>1, <2>2
<1>7. AuthorityInv'
  BY <1>6 DEF AuthorityInv
<1> QED
  BY <1>1, <1>2, <1>3, <1>4, <1>7, QuietStep

LEMMA TurnKeeps ==
    ASSUME OracleInv, Turn
    PROVE  OracleInv'
<1>1. /\ Goes /\ Loads' = Loads
      /\ \A ty : ty \notin {"role_ready", "role_down"} => Of(ty)' = Of(ty)
  BY TurnDoes
<1>2. Of("optimizer_end")' = Of("optimizer_end") /\ Of("authorize")' = Of("authorize")
  BY <1>1
<1>3. Faults' = Faults
  BY <1>1 DEF Faults
<1>4. UNCHANGED <<states, updates, live, running, pending, authority, content, lies>> /\ final' = Nil
  BY DEF Turn
<1> QED
  BY <1>1, <1>2, <1>3, <1>4, AuthorityCarries, QuietStep

LEMMA BeginKeeps ==
    ASSUME OracleInv, NEW g \in Groups, NEW a \in Nat, NEW admitted \in BOOLEAN, NEW loaded \in Nat,
           BeginUpdate(g, a, admitted, loaded)
    PROVE  OracleInv'
<1>1. /\ Goes /\ Loads' = Loads /\ Now' = Now + 1 /\ final = Nil /\ running = Nil
      /\ Len(updates') = Len(updates) + 1 /\ running' = Len(updates) + 1
      /\ updates'[Len(updates) + 1] = Update(g, a, admitted, loaded)
      /\ \A u \in UpdateIds : updates'[u] = updates[u]
      /\ Claim(loaded = live.loaded) /\ events'[Now + 1].type = "optimizer_start"
      /\ \A ty : ty # "optimizer_start" => Of(ty)' = Of(ty)
  BY BeginDoes
<1>2. /\ Of("optimizer_end")' = Of("optimizer_end") /\ Of("authorize")' = Of("authorize")
      /\ Faults' = Faults
  BY <1>1 DEF Faults
<1>3. UNCHANGED <<states, live, pending, authority, content>> /\ final' = Nil
  BY DEF BeginUpdate
<1>4. StateIds' = StateIds
  BY <1>3 DEF StateIds
<1>5. Now \in Nat /\ Len(updates) \in Nat /\ Now >= 2 /\ lies \in Nat
  BY Types DEF OracleInv, Typed
<1>6. PICK n : n = Len(updates) + 1
  OBVIOUS
<1>7. n \in UpdateIds' /\ UpdateIds' = UpdateIds \union {n} /\ n \notin UpdateIds
  BY <1>1, <1>5, <1>6 DEF UpdateIds
<1>8. /\ updates'[n].group = g /\ updates'[n].epoch = live.epoch /\ updates'[n].loaded = loaded
      /\ updates'[n].started = Now + 1 /\ updates'[n].ended = 0 /\ updates'[n].authority = authority[g]
      /\ ~updates'[n].successful /\ (updates'[n].apart => pending = Nil)
  <2>1. PICK c : c = Update(g, a, admitted, loaded)
    OBVIOUS
  <2>2. /\ c.group = g /\ c.epoch = live.epoch /\ c.loaded = loaded /\ c.started = Now + 1
        /\ c.ended = 0 /\ c.authority = authority[g] /\ c.successful = FALSE
    BY <2>1 DEF Update
  <2>3. c.apart = (pending = Nil)
    BY <2>1 DEF Update
  <2>4. updates'[n] = c
    BY <1>1, <1>6, <2>1
  <2> QED
    BY <2>2, <2>3, <2>4
<1>9. ASSUME NEW l \in Loads', Under(l, updates[n].started)'
      PROVE  l \in Loads /\ events'[l] = events[l] /\ events[l].epoch = live.epoch /\ events[l].state = live.loaded
  <2>1. Under(l, Now + 1) /\ l \in Loads
    BY <1>1, <1>8, <1>9 DEF Under
  <2>2. events[l].epoch = live.epoch /\ events[l].state = live.loaded
    BY <2>1 DEF OracleInv, LiveInv
  <2>3. l \in 1 .. Now
    BY <2>1, Types DEF OracleInv
  <2> QED
    BY <1>1, <2>1, <2>2, <2>3, OldOf
<1>10. TrainedWell(n)'
  <2>1. PICK a1 \in Of("authorize") :
           /\ events[a1] = authority[g] /\ events[a1].group = g
           /\ \A j \in Of("authorize") : events[j].group = g => j <= a1
    BY DEF OracleInv, AuthorityInv
  <2>2. \A i \in Of("authorize") : i \in Nat /\ i <= Now /\ events'[i] = events[i]
    <3>1. \A i \in Of("authorize") : i \in 1 .. Now
      BY DEF Of
    <3> QED
      BY <1>1, <1>5, <3>1, OldOf
  <2>3. \E c \in Of("authorize")' :
          /\ c < Now + 1 /\ events'[c] = authority[g] /\ events'[c].group = g
          /\ \A j \in Of("authorize")' : events'[j].group = g /\ j < Now + 1 => j <= c
    BY <1>2, <1>5, <2>1, <2>2
  <2>4. Now + 1 \in 3 .. Now'
    BY <1>1, <1>5
  <2>5. ASSUME NEW l \in Loads', Under(l, updates[n].started)' PROVE events'[l].epoch = live.epoch
    BY <1>9, <2>5
  <2> QED
    BY <1>1, <1>8, <2>3, <2>4, <2>5 DEF TrainedWell
<1>11. LoadInv' /\ SaveInv' /\ OrderInv' /\ ContentInv'
  BY <1>1, <1>4, LoadsCarry, SavesCarry, OrderCarries, ContentCarries
<1>12. UpdateInv' /\ TurnInv'
  BY <1>1, <1>7, <1>10, UpdatesCarry, TurnsCarry
<1>13. TruthInv'
  <2>1. lies' = 0 => lies = 0 /\ loaded = live.loaded
    BY <1>1, <1>5 DEF Claim
  <2>2. ASSUME lies' = 0, NEW u \in UpdateIds' \ UpdateIds, NEW l \in Loads', Under(l, updates[u].started)'
        PROVE  updates'[u].loaded = events'[l].state
    BY <1>7, <1>8, <1>9, <2>1, <2>2
  <2> QED
    BY <1>1, <1>4, <2>1, <2>2, TruthCarries
<1>14. ApartInv'
  <2>1. running' \notin UpdateIds
    BY <1>1, <1>6, <1>7
  <2>2. \A u \in UpdateIds' \ UpdateIds : StateIds' = StateIds /\ states' = states /\ (updates'[u].apart => pending = Nil)
    BY <1>3, <1>4, <1>7, <1>8
  <2> QED
    BY <1>1, <1>3, <1>4, <2>1, <2>2, ApartCarries
<1>15. LiveInv'
  <2>1. \A u \in UpdateIds' : updates'[u].successful => u \in UpdateIds /\ updates[u].successful
    BY <1>1, <1>7, <1>8
  <2> QED
    BY <1>1, <1>3, <2>1, LiveCarries
<1>16. RunningInv'
  <2>1. \A l \in Loads' : l < Now + 1
    BY <1>1, <1>5, Types DEF OracleInv
  <2> QED
    BY <1>1, <1>6, <1>7, <1>8, <2>1 DEF RunningInv
<1>17. PendingInv' /\ EndInv' /\ FaultInv' /\ AuthorityInv'
  BY <1>1, <1>2, <1>3, PendingCarries, EndCarries, FaultCarries, AuthorityCarries
<1>18. FinalInv'
  BY <1>3 DEF FinalInv
<1> QED
  BY <1>1, <1>11, <1>12, <1>13, <1>14, <1>15, <1>16, <1>17, <1>18 DEF OracleInv, Goes

LEMMA EndKeeps ==
    ASSUME OracleInv, NEW successful \in BOOLEAN, EndUpdate(successful)
    PROVE  OracleInv'
<1>1. /\ Goes /\ Loads' = Loads /\ Now' = Now + 1
      /\ running \in UpdateIds /\ running' = Nil
      /\ events'[Now + 1] = [type |-> "optimizer_end", update |-> running, epoch |-> live.epoch,
                             successful |-> successful]
      /\ Len(updates') = Len(updates)
      /\ \A u \in UpdateIds \ {running} : updates'[u] = updates[u]
      /\ updates'[running].ended = Now + 1 /\ updates'[running].successful = successful
      /\ live'.loaded = live.loaded /\ live'.base = live.base /\ live'.epoch = live.epoch
      /\ live'.since = IF successful THEN Append(live.since, running) ELSE live.since
      /\ \A ty : Of(ty)' = IF ty = "optimizer_end" THEN Of(ty) \union {Now + 1} ELSE Of(ty)
  BY EndDoes
<1>2. /\ Of("optimizer_end")' = Of("optimizer_end") \union {Now + 1} /\ Of("authorize")' = Of("authorize")
      /\ Faults' = Faults
  BY <1>1 DEF Faults
<1>3. UNCHANGED <<states, pending, authority, content, lies>> /\ final' = Nil
  BY DEF EndUpdate
<1>4. StateIds' = StateIds /\ UpdateIds' = UpdateIds
  BY <1>1, <1>3 DEF StateIds, UpdateIds
<1>5. Now \in Nat /\ Len(updates) \in Nat /\ Now >= 2 /\ running \in Nat /\ running # Nil
  BY <1>1, Types, OracleAssumption DEF OracleInv, Typed, UpdateIds
<1>6. /\ running = Len(updates) /\ updates[running].ended = 0 /\ \A l \in Loads : l < updates[running].started
  BY <1>5 DEF OracleInv, RunningInv
<1>7. /\ updates'[running].started = updates[running].started /\ updates[running].started \in 3 .. Now
      /\ updates'[running].epoch = updates[running].epoch /\ updates'[running].group = updates[running].group
      /\ updates'[running].authority = updates[running].authority /\ ~updates[running].successful
  BY <1>1, <1>6, OldUpdate
<1>r. PICK rn : rn = running
  OBVIOUS
<1>8. PICK b : b = updates[rn].started
  OBVIOUS
<1>9. TrainedWell(rn)
  BY <1>r, <1>1 DEF OracleInv, UpdateInv
<1>10. live.epoch = updates[rn].epoch
  <2>1. b \in Nat /\ b > 2 /\ b <= Now
    BY <1>r, <1>5, <1>7, <1>8
  <2>2. PICK l \in Loads : Under(l, b)
    BY <2>1, LastLoad DEF OracleInv
  <2>3. events[l].epoch = updates[rn].epoch
    BY <1>8, <1>9, <2>2 DEF TrainedWell
  <2>4. Under(l, Now + 1)
    <3>1. \A j \in Loads : j \in 1 .. Now
      BY Types DEF OracleInv
    <3> QED
      BY <1>r, <1>5, <1>6, <1>8, <2>1, <2>2, <3>1 DEF Under
  <2>5. events[l].epoch = live.epoch
    BY <2>4 DEF OracleInv, LiveInv
  <2> QED
    BY <2>3, <2>5
<1>11. TrainedWell(rn)'
  <2>1. b \in 3 .. Now' /\ b < Now + 1 /\ Now + 1 <= Now' /\ updates'[rn].started = b
    BY <1>r, <1>1, <1>5, <1>7, <1>8
  <2>2. \A l \in Loads' : ~(b < l)
    <3>1. \A l \in Loads : l \in 1 .. Now /\ l < b
      BY <1>r, <1>6, <1>8, Types DEF OracleInv
    <3> QED
      BY <1>r, <1>1, <1>5, <2>1, <3>1
  <2>3. ASSUME NEW l \in Loads', Under(l, updates[rn].started)'
        PROVE  events'[l].epoch = updates'[rn].epoch
    <3>1. l \in Loads /\ l \in 1 .. Now
      BY <1>r, <1>1, Types DEF OracleInv
    <3>2. Under(l, b)
      BY <1>r, <1>1, <2>1, <2>3 DEF Under
    <3>3. events[l].epoch = updates[rn].epoch
      BY <1>8, <1>9, <3>1, <3>2 DEF TrainedWell
    <3> QED
      BY <1>r, <1>1, <1>7, <3>1, <3>3, OldOf
  <2>4. PICK a \in Of("authorize") :
          /\ a < b /\ events[a] = updates[rn].authority
          /\ events[a].group = updates[rn].group
          /\ \A j \in Of("authorize") : events[j].group = updates[rn].group /\ j < b => j <= a
    BY <1>8, <1>9 DEF TrainedWell
  <2>5. \A i \in Of("authorize") : events'[i] = events[i]
    <3>1. \A i \in Of("authorize") : i \in 1 .. Now
      BY DEF Of
    <3> QED
      BY <1>r, <1>1, <3>1, OldOf
  <2>6. \E c \in Of("authorize")' :
          /\ c < b /\ events'[c] = updates'[rn].authority
          /\ events'[c].group = updates'[rn].group
          /\ \A j \in Of("authorize")' : events'[j].group = updates'[rn].group /\ j < b => j <= c
    BY <1>r, <1>2, <1>7, <2>4, <2>5
  <2>7. events'[updates'[rn].ended] =
            [type |-> "optimizer_end", update |-> rn, epoch |-> updates'[rn].epoch,
             successful |-> updates'[rn].successful]
    BY <1>r, <1>1, <1>7, <1>10
  <2>8. updates'[rn].ended # 0 /\ b < updates'[rn].ended /\ updates'[rn].ended <= Now'
    BY <1>r, <1>1, <1>5, <2>1
  <2>9. events'[b].type = "optimizer_start"
    <3>1. events[b].type = "optimizer_start" /\ b \in 1 .. Now
      BY <1>5, <1>7, <1>r, <1>8, <1>9 DEF TrainedWell
    <3> QED
      BY <1>1, <3>1, OldOf
  <2> QED
    BY <2>1, <2>2, <2>3, <2>6, <2>7, <2>8, <2>9 DEF TrainedWell
<1>12. LoadInv' /\ SaveInv' /\ OrderInv' /\ ContentInv'
  BY <1>r, <1>1, <1>4, LoadsCarry, SavesCarry, OrderCarries, ContentCarries
<1>13. UpdateInv' /\ TurnInv'
  <2>1. ASSUME NEW u \in UpdateIds, updates'[u].ended # updates[u].ended PROVE TrainedWell(u)'
    <3>1. u = rn
      BY <1>r, <1>1, <2>1
    <3> QED
      BY <1>11, <3>1 DEF TrainedWell
  <2> QED
    BY <1>r, <1>1, <1>4, <2>1, UpdatesCarry, TurnsCarry
<1>14. TruthInv' /\ ApartInv'
  BY <1>r, <1>1, <1>3, <1>4, TruthCarries, ApartCarries
<1>15. PendingInv' /\ FaultInv' /\ AuthorityInv'
  BY <1>r, <1>1, <1>2, <1>3, PendingCarries, FaultCarries, AuthorityCarries
<1>16. EndInv'
  <2> SUFFICES ASSUME NEW i \in Of("optimizer_end")'
               PROVE  events'[i].update \in UpdateIds' /\ updates'[events'[i].update].ended = i
    BY DEF EndInv
  <2>1. CASE i = Now + 1
    BY <1>r, <1>1, <1>4, <2>1
  <2>2. CASE i # Now + 1
    <3>1. i \in Of("optimizer_end")
      BY <1>2, <2>2
    <3>2. i \in 1 .. Now /\ events'[i] = events[i]
      BY <1>r, <1>1, <3>1, OldOf DEF Of
    <3>3. PICK u : u = events[i].update
      OBVIOUS
    <3>4. u \in UpdateIds /\ updates[u].ended = i
      BY <3>1, <3>3 DEF OracleInv, EndInv
    <3>5. u # rn
      BY <1>r, <1>6, <3>2, <3>4
    <3> QED
      BY <1>r, <1>1, <1>4, <3>2, <3>3, <3>4, <3>5
  <2> QED
    BY <2>1, <2>2
<1>17. RunningInv' /\ FinalInv'
  BY <1>r, <1>1, <1>3 DEF RunningInv, FinalInv
<1>18. LiveInv'
  <2>1. CASE ~successful
    <3>1. live'.since = live.since
      BY <1>r, <1>1, <2>1
    <3>2. \A u \in UpdateIds' : updates'[u].successful => u \in UpdateIds /\ updates[u].successful
      BY <1>r, <1>1, <1>4, <2>1
    <3> QED
      BY <1>r, <1>1, <1>3, <3>1, <3>2, LiveCarries
  <2>2. CASE successful
    <3>1. PICK q : q = live.since
      OBVIOUS
    <3>2. /\ live.base \in StateIds /\ (live.base = pending \/ states[live.base].stored # 0) /\ Inc(q)
      BY <3>1 DEF OracleInv, LiveInv
    <3>3. live'.since = Append(q, rn)
      BY <1>r, <1>1, <2>2, <3>1
    <3>4. ToSet(q) \subseteq UpdateIds /\ \A u \in ToSet(q) : u < rn
      <4>1. PICK l \in Loads : Under(l, Now + 1)
        BY <1>r, <1>5, LastLoad DEF OracleInv
      <4>2. ToSet(q) = Done(Low(l), Now)
        BY <3>1, <4>1 DEF OracleInv, LiveInv
      <4>3. \A u \in ToSet(q) : u \in UpdateIds /\ updates[u].successful
        BY <4>2 DEF Done
      <4> QED
        BY <1>r, <1>5, <1>6, <1>7, <4>3 DEF UpdateIds
    <3>5. PICK r : r = <<rn>>
      OBVIOUS
    <3>6. Inc(r) /\ ToSet(r) = {rn} /\ r \in Seq(Nat)
      BY <1>r, <1>5, <3>5 DEF Inc, ToSet
    <3>7. Append(q, rn) = q \o r
      <4>1. q \in Seq(Nat) /\ rn \in Nat
        BY <1>r, <1>5, <3>2 DEF Inc
      <4> QED
        BY <3>5, <4>1, AppendIs
    <3>8. Inc(q \o r) /\ ToSet(q \o r) = ToSet(q) \union {rn}
      BY <3>2, <3>4, <3>6, IncConcat
    <3>9. PICK q1 : q1 = Append(q, rn)
      OBVIOUS
    <3>10. Inc(q1) /\ ToSet(q1) = ToSet(q) \union {rn} /\ live'.since = q1
      BY <3>3, <3>7, <3>8, <3>9
    <3>11. ASSUME NEW l \in Loads', Under(l, Now + 1)'
           PROVE  /\ events'[l].state = live.loaded /\ events'[l].epoch = live.epoch
                  /\ live.base = live.loaded => \A s \in StateIds' : states'[s].scheduled <= l
                  /\ live.base # live.loaded => live.base = Len(states') /\ l < states'[live.base].scheduled
                  /\ ToSet(q1) = Done(Low(l), Now)'
      <4>1. l \in Loads /\ l \in 1 .. Now /\ Loads \subseteq 1 .. Now
        BY <1>r, <1>1, Types DEF OracleInv
      <4>2. Under(l, Now + 1)
        <5>1. Now' = Now + 1 /\ Loads' = Loads
          BY <1>1
        <5>2. \A j \in Loads : j < Now' + 1 => j <= l
          BY <3>11, <5>1 DEF Under
        <5>3. \A j \in Loads : j < Now' + 1
          BY <1>5, <4>1, <5>1
        <5> QED
          BY <1>5, <4>1, <5>2, <5>3 DEF Under
      <4>3. /\ events[l].state = live.loaded /\ events[l].epoch = live.epoch
            /\ live.base = live.loaded => \A s \in StateIds : states[s].scheduled <= l
            /\ live.base # live.loaded => live.base = Len(states) /\ l < states[live.base].scheduled
            /\ ToSet(q) = Done(Low(l), Now)
        BY <3>1, <4>1, <4>2 DEF OracleInv, LiveInv
      <4>4. PICK c : c = Low(l)
        OBVIOUS
      <4>5. Low(l)' = c
        BY <1>r, <1>1, <1>3, <4>4 DEF Low
      <4>6. c \in Nat /\ c <= Now
        <5>1. states[live.base].scheduled \in 1 .. Now
          BY <1>r, <1>1, <3>2, OldSave
        <5> QED
          BY <1>r, <1>5, <4>1, <4>4, <5>1 DEF Low
      <4>7. \A u : u \in Done(Low(l), Now)' <=> u \in UpdateIds /\ updates'[u].successful
                                                /\ c < updates'[u].ended /\ updates'[u].ended <= Now'
        BY <1>4, <4>5 DEF Done
      <4>8. \A u : u \in Done(Low(l), Now) <=> u \in UpdateIds /\ updates[u].successful
                                                /\ c < updates[u].ended /\ updates[u].ended <= Now
        BY <4>4 DEF Done
      <4>9. rn \in Done(Low(l), Now)'
        <5>1. rn \in UpdateIds /\ updates'[rn].successful
          BY <1>r, <1>1, <2>2
        <5>2. c < updates'[rn].ended /\ updates'[rn].ended <= Now'
          BY <1>r, <1>1, <1>5, <4>6
        <5> QED
          BY <4>7, <5>1, <5>2
      <4>10. rn \notin Done(Low(l), Now)
        BY <1>r, <1>7, <4>8
      <4>11. ASSUME NEW u \in UpdateIds, u # rn
             PROVE  u \in Done(Low(l), Now)' <=> u \in Done(Low(l), Now)
        <5>1. updates'[u] = updates[u]
          BY <1>r, <1>1, <4>11
        <5>2. updates[u].ended \in Nat /\ updates[u].ended <= Now
          BY <1>r, <1>1, OldUpdate
        <5> QED
          BY <1>r, <1>1, <1>5, <4>7, <4>8, <5>1, <5>2
      <4>12. Done(Low(l), Now)' = Done(Low(l), Now) \union {rn}
        BY <4>7, <4>8, <4>9, <4>11
      <4> QED
        BY <1>r, <1>1, <1>3, <1>4, <3>10, <4>1, <4>3, <4>12, OldOf
    <3>12. Inc(live.since)'
      BY <3>10 DEF Inc
    <3> QED
      BY <1>r, <1>1, <1>3, <1>4, <3>2, <3>10, <3>11, <3>12 DEF LiveInv
  <2> QED
    BY <2>1, <2>2
<1> QED
  BY <1>r, <1>1, <1>12, <1>13, <1>14, <1>15, <1>16, <1>17, <1>18 DEF OracleInv, Goes

LEMMA ScheduleKeeps ==
    ASSUME OracleInv, NEW parent \in StateIds, NEW made \in Seq(Nat), ToSet(made) \subseteq UpdateIds,
           NEW e \in Nat, NEW agreed \in BOOLEAN, Schedule(parent, made, e, agreed)
    PROVE  OracleInv'
<1>1. /\ Goes /\ Loads' = Loads /\ Now' = Now + 1 /\ final = Nil /\ running = Nil /\ pending = Nil
      /\ events'[Now + 1].type = "checkpoint_schedule"
      /\ Len(states') = Len(states) + 1 /\ pending' = Len(states) + 1
      /\ \A s \in StateIds : states'[s] = states[s]
      /\ content'[Len(states) + 1] = content[live.base] \o live.since
      /\ states'[Len(states) + 1].parent = parent /\ states'[Len(states) + 1].epoch = e
      /\ states'[Len(states) + 1].updates = made /\ states'[Len(states) + 1].scheduled = Now + 1
      /\ states'[Len(states) + 1].stored = 0
      /\ live'.loaded = live.loaded /\ live'.base = Len(states) + 1 /\ live'.epoch = live.epoch
      /\ live'.since = <<>>
      /\ lies' = 0 => /\ lies = 0 /\ parent = live.base /\ made = live.since /\ e = live.epoch
                      /\ states'[Len(states) + 1].consumed = GroupsOf(content[live.base] \o live.since)
      /\ \A ty : ty # "checkpoint_schedule" => Of(ty)' = Of(ty)
  BY ScheduleDoes, Zenon
<1>2. PICK k : k = Len(states) + 1
  OBVIOUS
<1>3. PICK inside : inside = content[live.base] \o live.since
  OBVIOUS
<1>4. UNCHANGED <<updates, running, authority>> /\ final' = Nil
  BY DEF Schedule
<1>5. /\ Now \in Nat /\ Len(states) \in Nat /\ Now >= 2 /\ Len(states) >= 1 /\ lies \in Nat
      /\ Loads \subseteq 1 .. Now
  BY Types DEF OracleInv, Typed
<1>6. UpdateIds' = UpdateIds /\ StateIds' = StateIds \union {k} /\ k \notin StateIds /\ k # First /\ k \in Nat
  BY <1>1, <1>2, <1>4, <1>5 DEF UpdateIds, StateIds, First
<1>7. /\ states'[k].parent = parent /\ states'[k].epoch = e /\ states'[k].updates = made
      /\ states'[k].scheduled = Now + 1 /\ states'[k].stored = 0 /\ content'[k] = inside
  BY <1>1, <1>2, <1>3
<1>8. Of("optimizer_end")' = Of("optimizer_end") /\ Of("authorize")' = Of("authorize") /\ Faults' = Faults
  BY <1>1 DEF Faults
<1>9. ASSUME NEW l, Under(l, states[k].scheduled)'
      PROVE  Under(l, Now + 1) /\ l \in Loads /\ l \in 1 .. Now /\ events'[l] = events[l]
  <2>1. Under(l, Now + 1) /\ l \in Loads
    BY <1>1, <1>7, <1>9 DEF Under
  <2> QED
    BY <1>1, <1>5, <2>1, OldOf
<1>10. /\ live.base \in StateIds /\ states[live.base].stored # 0
       /\ Inc(live.since) /\ ToSet(live.since) \subseteq UpdateIds
       /\ Inc(content[live.base]) /\ ToSet(content[live.base]) \subseteq UpdateIds
  <2>1. live.base # Nil /\ (live.base = pending \/ states[live.base].stored # 0)
    BY SinceIs, OracleAssumption DEF OracleInv, LiveInv, StateIds
  <2> QED
    BY <1>1, <2>1, SinceIs
<1>11. PICK q : q = content[live.base]
  OBVIOUS
<1>12. PICK r : r = live.since
  OBVIOUS
<1>13. ASSUME NEW u \in UpdateIds
       PROVE  updates'[u] = updates[u] /\ updates[u].ended \in Nat /\ updates[u].ended <= Now
  BY <1>1, <1>4, OldUpdate
<1>14. ASSUME NEW l \in Loads, Under(l, Now + 1)
       PROVE  /\ ToSet(r) = Done(Low(l), Now) /\ Low(l) \in 1 .. Now
              /\ states[live.base].scheduled <= Low(l)
              /\ ToSet(q) \union ToSet(r) = ToSet(content[events[l].state]) \union Done(l, Now)
              /\ events[l].state = live.loaded /\ events[l].epoch = live.epoch
              /\ \A t \in StateIds : states[t].scheduled <= Low(l)
  <2>1. /\ events[l].state = live.loaded /\ events[l].epoch = live.epoch
        /\ live.base = live.loaded => \A s \in StateIds : states[s].scheduled <= l
        /\ live.base # live.loaded => live.base = Len(states) /\ l < states[live.base].scheduled
        /\ ToSet(r) = Done(Low(l), Now)
    BY <1>12, <1>14 DEF OracleInv, LiveInv
  <2>2. PICK h : h = states[live.base].scheduled
    OBVIOUS
  <2>3. h \in 1 .. Now /\ l \in 1 .. Now
    BY <1>1, <1>5, <1>10, <2>2, OldSave
  <2>4. CASE live.base = live.loaded
    <3>1. Low(l) = l /\ h <= l
      BY <1>10, <2>1, <2>2, <2>4 DEF Low
    <3> QED
      BY <1>11, <2>1, <2>2, <2>3, <2>4, <3>1
  <2>5. CASE live.base # live.loaded
    <3>1. Low(l) = h /\ l < h /\ live.base = Len(states)
      BY <2>1, <2>2, <2>5 DEF Low
    <3>2. Under(l, h)
      BY <1>5, <1>14, <2>3, <3>1 DEF Under
    <3>3. live.base # First
      <4>1. SaveFits(First)
        BY <1>5 DEF OracleInv, SaveInv, StateIds, First
      <4>2. states[First].scheduled = 1
        BY <4>1 DEF SaveFits
      <4> QED
        BY <2>2, <2>3, <3>1, <4>2
    <3>4. ToSet(q) = ToSet(content[events[l].state]) \union Done(l, h)
      BY <1>10, <1>11, <1>14, <2>2, <3>2, <3>3 DEF OracleInv, ContentInv, Holds
    <3>5. Done(l, h) \union Done(h, Now) = Done(l, Now)
      <4>1. \A u \in UpdateIds : updates[u].ended \in Nat
        BY <1>13
      <4> QED
        BY <1>5, <2>3, <3>1, <4>1 DEF Done
    <3>6. \A t \in StateIds : states[t].scheduled <= h
      <4> SUFFICES ASSUME NEW t \in StateIds PROVE states[t].scheduled <= h
        OBVIOUS
      <4>1. CASE t = live.base
        BY <2>2, <2>3, <4>1
      <4>2. CASE t # live.base
        <5>1. t < live.base /\ live.base \in StateIds
          BY <1>5, <1>10, <3>1, <4>2 DEF StateIds
        <5>2. states[t].scheduled < h
          BY <2>2, <5>1 DEF OracleInv, OrderInv
        <5>3. states[t].scheduled \in Nat
          BY <1>1, OldSave
        <5> QED
          BY <2>3, <5>2, <5>3
      <4> QED
        BY <4>1, <4>2
    <3> QED
      BY <2>1, <2>2, <2>3, <3>1, <3>4, <3>5, <3>6
  <2> QED
    BY <2>4, <2>5
<1>15. PICK l0 \in Loads : Under(l0, Now + 1)
  BY <1>5, LastLoad DEF OracleInv
<1>16. Inc(inside) /\ ToSet(inside) = ToSet(q) \union ToSet(r) /\ ToSet(inside) \subseteq UpdateIds
  <2>1. ASSUME NEW x \in ToSet(q), NEW y \in ToSet(r) PROVE x < y
    <3>1. x \in UpdateIds /\ updates[x].ended <= states[live.base].scheduled
      BY <1>10, <1>11, <2>1 DEF OracleInv, ContentInv, Holds
    <3>2. y \in UpdateIds /\ updates[y].successful /\ Low(l0) < updates[y].ended
      BY <1>14, <1>15, <2>1 DEF Done
    <3>3. states[live.base].scheduled <= Low(l0) /\ Low(l0) \in Nat /\ states[live.base].scheduled \in Nat
      BY <1>1, <1>10, <1>14, <1>15, OldSave
    <3>4. updates[x].ended < updates[y].ended
      BY <1>13, <3>1, <3>2, <3>3
    <3>5. ~(y < x)
      <4> SUFFICES ASSUME y < x PROVE FALSE
        OBVIOUS
      <4>1. updates[y].ended < updates[x].started
        BY <3>1, <3>2 DEF OracleInv, TurnInv
      <4>2. updates[x].started < updates[x].ended
        <5>1. TrainedWell(x)
          BY <3>1 DEF OracleInv, UpdateInv
        <5>2. updates[x].successful
          BY <1>10, <1>11, <2>1 DEF OracleInv, ContentInv, Holds
        <5> QED
          BY <5>1, <5>2 DEF TrainedWell
      <4>3. updates[x].started \in Nat
        BY <1>1, <3>1, OldUpdate
      <4> QED
        BY <1>13, <3>1, <3>2, <3>4, <4>1, <4>2, <4>3
    <3>6. x # y
      BY <1>13, <3>1, <3>4
    <3> QED
      BY <3>1, <3>2, <3>5, <3>6 DEF UpdateIds
  <2>2. Inc(q) /\ Inc(r) /\ inside = q \o r /\ ToSet(q) \subseteq UpdateIds /\ ToSet(r) \subseteq UpdateIds
    BY <1>3, <1>10, <1>11, <1>12
  <2> QED
    BY <2>1, <2>2, IncConcat
<1>h. PICK h1 : h1 = Now + 1
  OBVIOUS
<1>17. ASSUME NEW a \in Nat, a <= Now PROVE Done(a, h1)' = Done(a, Now)
  BY <1>h, <1>1, <1>4, <1>5, <1>6, <1>13 DEF Done
<1>18. SaveFits(k)'
  <2>1. parent \in 1 .. k - 1
    BY <1>2, <1>5 DEF StateIds
  <2>2. Now + 1 \in 3 .. Now' /\ events'[Now + 1].type = "checkpoint_schedule"
    BY <1>1, <1>5
  <2>3. \A l \in Loads' : ~(Now + 1 < l /\ l < 0)
    BY <1>1, <1>5
  <2> QED
    BY <1>6, <1>7, <2>1, <2>2, <2>3 DEF SaveFits, First
<1>19. Holds(k)'
  <2>1. ASSUME NEW u \in ToSet(inside) PROVE u \in UpdateIds' /\ updates'[u].successful /\ updates'[u].ended <= Now + 1
    <3>1. u \in UpdateIds /\ updates[u].successful
      <4>1. CASE u \in ToSet(q)
        BY <1>10, <1>11, <4>1 DEF OracleInv, ContentInv, Holds
      <4>2. CASE u \in ToSet(r)
        BY <1>14, <1>15, <4>2 DEF Done
      <4> QED
        BY <1>16, <2>1, <4>1, <4>2
    <3> QED
      BY <1>5, <1>6, <1>13, <3>1
  <2>2. ASSUME NEW l \in Loads', Under(l, states[k].scheduled)'
        PROVE  ToSet(inside) = ToSet(content'[events'[l].state]) \union Done(l, h1)'
    <3>1. Under(l, Now + 1) /\ l \in Loads /\ l \in 1 .. Now /\ events'[l] = events[l]
      BY <1>9, <2>2
    <3>2. PICK t : t = events[l].state
      OBVIOUS
    <3>3. t \in StateIds
      BY <3>1, <3>2 DEF OracleInv, LoadInv
    <3>4. content'[t] = content[t]
      BY <1>1, <3>3, OldSave
    <3>5. Done(l, h1)' = Done(l, Now)
      BY <1>17, <3>1
    <3> QED
      BY <1>14, <1>16, <3>1, <3>2, <3>4, <3>5
  <2>3. ASSUME NEW l \in Loads', Under(l, states[k].scheduled)'
        PROVE  ToSet(content'[k]) = ToSet(content'[events'[l].state]) \union Done(l, states[k].scheduled)'
    <3>1. Done(l, states[k].scheduled)' = Done(l, h1)'
      BY <1>h, <1>7 DEF Done
    <3> QED
      BY <1>7, <2>2, <2>3, <3>1
  <2>4. Inc(content[k])'
    BY <1>7, <1>16 DEF Inc
  <2> QED
    BY <1>6, <1>7, <2>1, <2>3, <2>4 DEF Holds, First
<1>20. LoadInv' /\ SaveInv' /\ ContentInv' /\ OrderInv'
  <2>1. \A s \in StateIds' \ StateIds : SaveFits(s)' /\ Holds(s)'
    BY <1>6, <1>18, <1>19
  <2>2. \A s \in StateIds' \ StateIds : s = Len(states) + 1 /\ Now' = Now + 1 /\ states'[s].scheduled = Now + 1
                                        /\ states'[s].stored = 0 /\ pending = Nil
    BY <1>1, <1>2, <1>6, <1>7
  <2> QED
    BY <1>1, <2>1, <2>2, LoadsCarry, SavesCarry, ContentCarries, OrderCarries
<1>21. UpdateInv' /\ TurnInv'
  BY <1>1, <1>4, <1>6, UpdatesCarry, TurnsCarry
<1>22. ApartInv'
  <2>1. \A s \in StateIds' \ StateIds : running = Nil /\ states'[s].scheduled = Now + 1 /\ UpdateIds' = UpdateIds
    BY <1>1, <1>6, <1>7
  <2> QED
    BY <1>1, <1>4, <1>6, <2>1, ApartCarries
<1>23. TruthInv'
  <2>1. lies' = 0 => /\ lies = 0 /\ parent = live.base /\ made = live.since /\ e = live.epoch
                     /\ states'[k].consumed = GroupsOf(inside)
    BY <1>1, <1>2, <1>3
  <2>2. ASSUME lies' = 0, NEW l \in Loads', Under(l, states[k].scheduled)' PROVE TrueSave(k, l)'
    <3>1. Under(l, Now + 1) /\ l \in Loads /\ l \in 1 .. Now /\ events'[l] = events[l]
      BY <1>9, <2>2
    <3>2. /\ events[l].state = live.loaded /\ events[l].epoch = live.epoch
          /\ ToSet(r) = Done(Low(l), Now) /\ Low(l) \in 1 .. Now
          /\ \A t \in StateIds : states[t].scheduled <= Low(l)
      BY <1>14, <3>1
    <3>3. PICK b : b = Low(l)
      OBVIOUS
    <3>4. parent = live.base /\ made = r /\ e = live.epoch /\ states'[k].consumed = GroupsOf(inside)
      BY <1>12, <2>1, <2>2
    <3>5. states'[parent] = states[parent] /\ parent # k
      BY <1>1, <1>6
    <3>6. TrueBase(k, l)' = b
      BY <1>7, <3>1, <3>2, <3>3, <3>4, <3>5 DEF TrueBase, Low
    <3>7. GroupsOf(content[k])' = GroupsOf(inside)
      BY <1>4, <1>7 DEF GroupsOf
    <3>8. Done(TrueBase(k, l), states[k].scheduled)' = Done(b, h1)'
      BY <1>h, <1>7, <3>6 DEF Done
    <3>9. Done(b, h1)' = Done(b, Now)
      BY <1>17, <3>2, <3>3
    <3>10. Inc(states[k].updates)'
      BY <1>7, <1>10, <1>12, <3>4 DEF Inc
    <3>11. \A t \in StateIds' : t < k => states'[t].scheduled <= b
      <4>1. \A t \in StateIds' : t < k => t \in StateIds
        BY <1>6
      <4> QED
        BY <1>1, <3>2, <3>3, <4>1
    <3>12. parent # events'[l].state => l < states'[parent].scheduled
      BY <3>1, <3>2, <3>4, <3>5, <1>14 DEF OracleInv, LiveInv
    <3>13. states'[parent].stored # 0
      BY <1>10, <3>4, <3>5
    <3>14. ToSet(states'[k].updates) = Done(TrueBase(k, l), states[k].scheduled)'
      BY <1>7, <3>2, <3>3, <3>4, <3>8, <3>9
    <3> QED
      BY <1>7, <3>1, <3>2, <3>4, <3>6, <3>7, <3>10, <3>11, <3>12, <3>13, <3>14 DEF TrueSave
  <2>3. lies' = 0 => \A s \in StateIds' \ StateIds, l \in Loads' : Under(l, states[s].scheduled)' => TrueSave(s, l)'
    <3> SUFFICES ASSUME lies' = 0, NEW s \in StateIds' \ StateIds, NEW l \in Loads', Under(l, states[s].scheduled)'
                 PROVE  TrueSave(s, l)'
      OBVIOUS
    <3>1. s = k
      BY <1>6
    <3> QED
      BY <2>2, <3>1
  <2> QED
    BY <1>1, <1>6, <2>1, <2>3, TruthCarries
<1>24. PendingInv'
  BY <1>1, <1>2, <1>5, <1>6, <1>7 DEF PendingInv, First
<1>25. RunningInv' /\ EndInv' /\ FaultInv' /\ AuthorityInv' /\ FinalInv'
  BY <1>1, <1>4, <1>8, RunningCarries, EndCarries, FaultCarries, AuthorityCarries DEF FinalInv
<1>26. LiveInv'
  <2>1. ASSUME NEW l \in Loads', Under(l, Now + 1)'
        PROVE  /\ events'[l].state = live.loaded /\ events'[l].epoch = live.epoch
               /\ k # live.loaded /\ l < Now + 1 /\ Low(l)' = Now + 1
    <3>1. l \in Loads /\ l \in 1 .. Now
      BY <1>1, <1>5
    <3>2. Under(l, Now + 1)
      <4>1. \A j \in Loads : j < Now' + 1 => j <= l
        BY <1>1, <2>1 DEF Under
      <4>2. \A j \in Loads : j < Now' + 1
        BY <1>1, <1>5
      <4> QED
        BY <1>5, <3>1, <4>1, <4>2 DEF Under
    <3>3. events[l].state = live.loaded /\ events[l].epoch = live.epoch /\ live.loaded \in StateIds
      BY <3>1, <3>2 DEF OracleInv, LiveInv, LoadInv
    <3>4. k # live.loaded
      BY <1>6, <3>3
    <3> QED
      BY <1>1, <1>2, <1>5, <1>7, <3>1, <3>3, <3>4, OldOf DEF Low
  <2>3. ASSUME NEW l \in Loads', Under(l, Now + 1)' PROVE Done(Low(l), Now)' = {}
    <3>1. ASSUME NEW u \in Done(Low(l), Now)' PROVE FALSE
      <4>1. u \in UpdateIds /\ Now + 1 < updates[u].ended
        BY <1>4, <1>6, <2>1, <2>3, <3>1 DEF Done
      <4> QED
        BY <1>5, <1>13, <4>1
    <3> QED
      BY <3>1
  <2>4. PICK z : z = <<>>
    OBVIOUS
  <2>5. Inc(z) /\ ToSet(z) = {}
    BY <2>4 DEF Inc, ToSet
  <2>6. live'.since = z /\ live'.base = k /\ live'.loaded = live.loaded /\ live'.epoch = live.epoch /\ pending' = k
    BY <1>1, <1>2, <2>4
  <2>7. Inc(live.since)'
    BY <2>5, <2>6 DEF Inc
  <2> QED
    BY <1>1, <1>2, <1>6, <1>7, <2>1, <2>3, <2>5, <2>6, <2>7 DEF LiveInv
<1> QED
  BY <1>1, <1>20, <1>21, <1>22, <1>23, <1>24, <1>25, <1>26 DEF OracleInv, Goes

LEMMA PersistKeeps ==
    ASSUME OracleInv, Persist
    PROVE  OracleInv'
<1>1. /\ Goes /\ Loads' = Loads /\ Now' = Now + 1
      /\ pending \in StateIds /\ pending' = Nil
      /\ Len(states') = Len(states) /\ states'[pending].stored = Now + 1
      /\ \A ty : ty # "checkpoint_persisted" => Of(ty)' = Of(ty)
  BY PersistDoes
<1>2. UNCHANGED <<updates, live, running, authority, content, lies>> /\ final' = Nil
  BY DEF Persist
<1>3. UpdateIds' = UpdateIds /\ StateIds' = StateIds /\ Now \in Nat
  BY <1>1, <1>2, OldOf DEF UpdateIds, StateIds
<1>4. Of("optimizer_end")' = Of("optimizer_end") /\ Of("authorize")' = Of("authorize") /\ Faults' = Faults
  BY <1>1 DEF Faults
<1>5. LoadInv' /\ SaveInv' /\ OrderInv' /\ ContentInv'
  BY <1>1, <1>3, LoadsCarry, SavesCarry, OrderCarries, ContentCarries
<1>6. UpdateInv' /\ TurnInv'
  BY <1>1, <1>2, <1>3, UpdatesCarry, TurnsCarry
<1>7. TruthInv' /\ ApartInv'
  BY <1>1, <1>2, <1>3, TruthCarries, ApartCarries
<1>8. LiveInv'
  BY <1>1, <1>2, <1>3, LiveCarries
<1>9. RunningInv' /\ EndInv' /\ FaultInv' /\ AuthorityInv'
  BY <1>1, <1>2, <1>4, RunningCarries, EndCarries, FaultCarries, AuthorityCarries
<1>10. PendingInv' /\ FinalInv'
  BY <1>1, <1>2 DEF PendingInv, FinalInv
<1> QED
  BY <1>1, <1>5, <1>6, <1>7, <1>8, <1>9, <1>10 DEF OracleInv, Goes

LEMMA LoadKeeps ==
    ASSUME OracleInv, NEW s \in Saved, NEW e \in Nat, Load(s, e)
    PROVE  OracleInv'
<1>1. /\ Goes /\ final = Nil /\ Now < Now' /\ Loads' = Loads \union {Now'}
      /\ UNCHANGED <<states, updates, authority, content, lies, final>>
      /\ running' = Nil /\ pending' = Nil
      /\ events'[Now'].state = s /\ events'[Now'].epoch = e
      /\ live'.loaded = s /\ live'.base = s /\ live'.since = <<>> /\ live'.epoch = e
      /\ Faults' = IF Faults = {} THEN {Now + 1} ELSE Faults
      /\ Faults = {} => Now' = Now + 2
      /\ \A ty : ty \notin {"fault_observed", "checkpoint_loaded"} => Of(ty)' = Of(ty)
  BY LoadDoes
<1>2. UpdateIds' = UpdateIds /\ StateIds' = StateIds /\ Now \in Nat /\ Now' \in Nat
  BY <1>1, OldOf DEF UpdateIds, StateIds
<1>3. Of("optimizer_end")' = Of("optimizer_end") /\ Of("authorize")' = Of("authorize")
  BY <1>1
<1>4. LoadInv' /\ SaveInv' /\ OrderInv' /\ ContentInv'
  <2>1. \A l \in Loads' \ Loads : events'[l].state \in Saved
    BY <1>1
  <2> QED
    BY <1>1, <1>2, <2>1, LoadsCarry, SavesCarry, OrderCarries, ContentCarries
<1>5. UpdateInv' /\ TurnInv'
  BY <1>1, <1>2, UpdatesCarry, TurnsCarry
<1>6. TruthInv' /\ ApartInv'
  BY <1>1, <1>2, TruthCarries, ApartCarries
<1>7. EndInv' /\ AuthorityInv'
  BY <1>1, <1>3, EndCarries, AuthorityCarries
<1>8. PendingInv' /\ RunningInv' /\ FinalInv'
  BY <1>1 DEF PendingInv, RunningInv, FinalInv
<1>9. FaultInv'
  <2>1. CASE Faults = {}
    <3>1. Faults' = {Now + 1} /\ Now + 2 \in Loads'
      BY <1>1, <2>1
    <3>2. Now + 1 + 1 = Now + 2
      BY <1>2
    <3> QED
      BY <3>1, <3>2 DEF FaultInv
  <2>2. CASE Faults # {}
    BY <1>1, <2>2, FaultCarries
  <2> QED
    BY <2>1, <2>2
<1>10. LiveInv'
  <2>1. s \in StateIds /\ states[s].stored # 0
    BY DEF Saved
  <2>2. PICK z : z = <<>>
    OBVIOUS
  <2>3. Inc(z) /\ ToSet(z) = {} /\ live'.since = z
    BY <1>1, <2>2 DEF Inc, ToSet
  <2>4. Inc(live.since)'
    BY <2>3 DEF Inc
  <2>5. ASSUME NEW l \in Loads', Under(l, Now + 1)'
        PROVE  /\ l = Now' /\ Low(l)' = l /\ Done(Low(l), Now)' = {}
               /\ \A t \in StateIds' : states'[t].scheduled <= l
    <3>0. \A i \in Loads' : i \in Nat
      BY <1>1, OldOf
    <3>1. Now' \in Loads' /\ Now' < Now' + 1 /\ l \in Nat
      BY <1>1, <1>2, <3>0
    <3>2. Now' <= l /\ l < Now' + 1
      BY <2>5, <3>1 DEF Under
    <3>3. l = Now'
      <4>1. PICK m : m = Now'
        OBVIOUS
      <4>2. m \in Nat /\ l \in Nat /\ m <= l /\ l < m + 1
        BY <1>2, <3>1, <3>2, <4>1
      <4>3. l = m
        BY <4>2
      <4> QED
        BY <4>1, <4>3
    <3>4. Low(l)' = l
      BY <1>1 DEF Low
    <3>5. ASSUME NEW u \in Done(Low(l), Now)' PROVE FALSE
      <4>1. u \in UpdateIds /\ Now' < updates[u].ended
        BY <1>1, <1>2, <3>3, <3>4, <3>5 DEF Done
      <4>2. updates[u].ended \in Nat /\ updates[u].ended <= Now
        BY <1>1, <4>1, OldUpdate
      <4> QED
        BY <1>1, <1>2, <4>1, <4>2
    <3>6. ASSUME NEW t \in StateIds' PROVE states'[t].scheduled <= l
      <4>1. states[t].scheduled \in 1 .. Now
        BY <1>1, <1>2, OldSave
      <4> QED
        BY <1>1, <1>2, <3>3, <4>1
    <3> QED
      BY <3>3, <3>4, <3>5, <3>6
  <2> QED
    BY <1>1, <1>2, <2>1, <2>3, <2>4, <2>5 DEF LiveInv
<1> QED
  BY <1>1, <1>4, <1>5, <1>6, <1>7, <1>8, <1>9, <1>10 DEF OracleInv, Goes

(* What the end of the run, and a step that changes nothing, leave alone *)
LEMMA SameRecord ==
    ASSUME OracleInv, UNCHANGED <<events, states, updates, live, running, pending, authority, content, lies>>,
           final' \in Nat \union {Nil}, FinalInv'
    PROVE  OracleInv'
<1>1. Typed' /\ LoadInv' /\ SaveInv' /\ OrderInv'
  BY DEF OracleInv, Typed, LoadInv, SaveInv, SaveFits, OrderInv, StateIds, UpdateIds, Loads, Of, Now, First
<1>2. PendingInv' /\ RunningInv' /\ EndInv' /\ AuthorityInv' /\ FaultInv'
  BY DEF OracleInv, PendingInv, RunningInv, EndInv, AuthorityInv, FaultInv, StateIds, UpdateIds, Loads, Faults,
         Of, Now, First
<1>3. \A l, i : Under(l, i)' <=> Under(l, i)
  BY DEF Under, Loads, Of, Now
<1>4. \A l, i : Done(l, i)' = Done(l, i)
  BY DEF Done, UpdateIds
<1>5. ContentInv' = ContentInv
  BY DEF ContentInv, Holds, Inc, StateIds, UpdateIds, Under, Done, Loads, Of, Now, First
<1>6. LiveInv' = LiveInv
  BY DEF LiveInv, Inc, StateIds, UpdateIds, Under, Done, Low, Loads, Of, Now
<1>7. UpdateInv' = UpdateInv
  BY DEF UpdateInv, TrainedWell, UpdateIds, Under, Loads, Of, Now
<1>8. TurnInv' = TurnInv /\ ApartInv' = ApartInv
  BY DEF TurnInv, ApartInv, UpdateIds, StateIds
<1>9. TruthInv' = TruthInv
  BY DEF TruthInv, TrueSave, TrueBase, GroupsOf, Inc, StateIds, UpdateIds, Under, Done, Loads, Of, Now, First
<1> QED
  BY <1>1, <1>2, <1>5, <1>6, <1>7, <1>8, <1>9 DEF OracleInv

LEMMA FinishKeeps ==
    ASSUME OracleInv, NEW s \in Saved, Finish(s)
    PROVE  OracleInv'
<1>1. /\ UNCHANGED <<events, states, updates, live, running, pending, authority, content, lies>>
      /\ final' = s /\ Faults # {} /\ running = Nil /\ pending = Nil
  BY DEF Finish
<1>2. s \in StateIds /\ states[s].stored # 0 /\ s \in Nat
  BY DEF Saved, StateIds
<1>3. Faults' = Faults /\ StateIds' = StateIds
  BY <1>1 DEF Faults, Of, Now, StateIds
<1>4. FinalInv'
  BY <1>1, <1>2, <1>3 DEF FinalInv
<1> QED
  BY <1>1, <1>2, <1>4, SameRecord

LEMMA StandsStill ==
    ASSUME OracleInv, UNCHANGED oracleVars
    PROVE  OracleInv'
<1>1. UNCHANGED <<events, states, updates, live, running, pending, authority, content, lies>> /\ final' = final
  BY DEF oracleVars
<1>2. FinalInv' /\ final' \in Nat \union {Nil}
  BY <1>1 DEF OracleInv, Typed, FinalInv, StateIds, Faults, Of, Now
<1> QED
  BY <1>1, <1>2, SameRecord

(* Only what was trained since, or an update that runs, can be named as made. *)
LEMMA MadeIs ==
    ASSUME OracleInv, NEW made \in Behind(live.since) \cup Behind(live.since \o <<Len(updates)>>)
    PROVE  made \in Seq(Nat)
<1>1. live.since \in Seq(Nat) /\ Len(updates) \in Nat
  BY Types DEF OracleInv
<1>2. PICK r : r = live.since \o <<Len(updates)>>
  OBVIOUS
<1>3. r \in Seq(Nat)
  BY <1>1, <1>2
<1>4. ASSUME NEW q \in Seq(Nat), q # <<>> PROVE Front(q) \in Seq(Nat)
  BY <1>4 DEF Front
<1> QED
  BY <1>1, <1>2, <1>3, <1>4 DEF Behind

(* OracleInv is inductive: whatever the trainer and its observer do next, the events, the saves, the
   updates and the weights keep fitting together (the record that audit_run reads). *)
LEMMA OracleStep ==
    ASSUME OracleInv, [OracleNext]_oracleVars
    PROVE  OracleInv'
<1>1. live.epoch \in Nat
  BY Types DEF OracleInv
<1>2. CASE Training
  <2>1. ASSUME NEW g \in Groups, Authorize(g) PROVE OracleInv'
    BY <2>1, AuthorizeKeeps
  <2>2. ASSUME NEW g \in Groups, NEW admitted \in BOOLEAN, NEW loaded \in Saved, NEW a \in 1 .. authority[g].attempt,
               BeginUpdate(g, a, admitted, loaded)
        PROVE  OracleInv'
    <3>1. loaded \in Nat /\ a \in Nat
      <4>1. authority[g].attempt \in Nat
        BY DEF OracleInv, Typed, Grant
      <4> QED
        BY <4>1 DEF Saved, StateIds
    <3> QED
      BY <2>2, <3>1, BeginKeeps
  <2>3. ASSUME NEW successful \in BOOLEAN, EndUpdate(successful) PROVE OracleInv'
    BY <2>3, EndKeeps
  <2> QED
    BY <1>2, <2>1, <2>2, <2>3 DEF Training
<1>3. CASE Saving
  <2>1. ASSUME NEW parent \in StateIds,
               NEW made \in Behind(live.since) \cup Behind(live.since \o <<Len(updates)>>),
               NEW e \in {1, live.epoch}, NEW agreed \in BOOLEAN,
               ToSet(made) \subseteq UpdateIds, Schedule(parent, made, e, agreed)
        PROVE  OracleInv'
    <3>1. made \in Seq(Nat) /\ e \in Nat
      BY <1>1, MadeIs
    <3> QED
      BY <2>1, <3>1, ScheduleKeeps
  <2>2. ASSUME Persist PROVE OracleInv'
    BY <2>2, PersistKeeps
  <2> QED
    BY <1>3, <2>1, <2>2 DEF Saving
<1>4. CASE Recovering
  <2>1. ASSUME NEW s \in Saved, NEW e \in {live.epoch, live.epoch + 1}, Load(s, e) PROVE OracleInv'
    <3>1. e \in Nat
      BY <1>1
    <3> QED
      BY <2>1, <3>1, LoadKeeps
  <2>2. ASSUME Turn PROVE OracleInv'
    BY <2>2, TurnKeeps
  <2> QED
    BY <1>4, <2>1, <2>2 DEF Recovering
<1>5. CASE \E s \in Saved : Finish(s)
  BY <1>5, FinishKeeps
<1>6. CASE UNCHANGED oracleVars
  BY <1>6, StandsStill
<1> QED
  BY <1>2, <1>3, <1>4, <1>5, <1>6 DEF OracleNext

LEMMA SetToSeqIs ==
    ASSUME NEW S, IsFiniteSet(S)
    PROVE  /\ Cardinality(S) \in Nat /\ SetToSeq(S) \in [1 .. Cardinality(S) -> S]
           /\ \A i, j \in 1 .. Cardinality(S) : SetToSeq(S)[i] = SetToSeq(S)[j] => i = j
           /\ \A x \in S : \E i \in 1 .. Cardinality(S) : SetToSeq(S)[i] = x
<1>1. PICK n : n = Cardinality(S)
  OBVIOUS
<1>2. n \in Nat /\ ExistsBijection(1 .. n, S)
  BY <1>1, FS_CardinalityType
<1>3. \E f \in [1 .. n -> S] : IsInjective(f)
  BY <1>2 DEF ExistsBijection, Bijection, Injection
<1>4. PICK q : q = SetToSeq(S)
  OBVIOUS
<1>5. q \in [1 .. n -> S] /\ IsInjective(q)
  BY <1>1, <1>3, <1>4 DEF SetToSeq
<1>6. q \in Injection(1 .. n, S)
  BY <1>5 DEF Injection
<1>7. IsFiniteSet(1 .. n) /\ Cardinality(1 .. n) = n
  BY <1>2, FS_Interval
<1>8. q \in Surjection(1 .. n, S)
  BY <1>1, <1>6, <1>7, FS_Injection
<1> QED
  BY <1>1, <1>2, <1>4, <1>5, <1>8 DEF IsInjective, Surjection

LEMMA OracleStarts ==
    ASSUME OracleInit
    PROVE  OracleInv
<1> DEFINE G == {Granted(g, 1, 1) : g \in Groups}
<1>1. IsFiniteSet(G)
  <2>1. PICK f : f = [g \in Groups |-> Granted(g, 1, 1)]
    OBVIOUS
  <2>2. f \in Surjection(Groups, G)
    BY <2>1 DEF Surjection
  <2> QED
    BY <2>2, FS_Surjection, OracleAssumption
<1>2. PICK q : q = SetToSeq(G)
  OBVIOUS
<1>3. PICK n : n = Cardinality(G)
  OBVIOUS
<1>4. /\ n \in Nat /\ q \in [1 .. n -> G]
      /\ \A i, j \in 1 .. n : q[i] = q[j] => i = j
      /\ \A x \in G : \E i \in 1 .. n : q[i] = x
  BY <1>1, <1>2, <1>3, SetToSeqIs
<1>5. ASSUME NEW g \in Groups
      PROVE  /\ Granted(g, 1, 1) \in Grant /\ Granted(g, 1, 1) \in Event /\ Granted(g, 1, 1).group = g
             /\ Granted(g, 1, 1).type = "authorize" /\ Granted(g, 1, 1) \in G
  <2>1. Granted(g, 1, 1) \in Grant /\ Granted(g, 1, 1).group = g /\ Granted(g, 1, 1).type = "authorize"
    BY DEF Granted, Grant
  <2> QED
    BY <2>1 DEF Grant, Event
<1>6. \A x \in G : x \in Grant /\ x \in Event /\ x.type = "authorize" /\ x.group \in Groups /\ x = Granted(x.group, 1, 1)
  BY <1>5
<1> HIDE DEF G
<1>7. PICK e1 : e1 = [type |-> "initial_state"]
  OBVIOUS
<1>8. PICK e2 : e2 = [type |-> "checkpoint_loaded", state |-> First, epoch |-> 1]
  OBVIOUS
<1>9. /\ e1 \in Event /\ e1.type = "initial_state"
      /\ e2 \in Event /\ e2.type = "checkpoint_loaded" /\ e2.state = 1 /\ e2.epoch = 1
  BY <1>7, <1>8 DEF Event, First
<1>10. events = <<e1, e2>> \o q
  BY <1>2, <1>7, <1>8 DEF OracleInit, G
<1>11. q \in Seq(Event) /\ Len(q) = n /\ <<e1, e2>> \in Seq(Event)
  <2>1. q \in Seq(Event)
    BY <1>4, <1>6
  <2> QED
    BY <1>4, <1>9, <2>1
<1>12. /\ events \in Seq(Event) /\ Now = n + 2 /\ events[1] = e1 /\ events[2] = e2
       /\ \A i \in 3 .. n + 2 : i - 2 \in 1 .. n /\ events[i] = q[i - 2]
  BY <1>4, <1>10, <1>11 DEF Now
<1>13. \A i \in 3 .. n + 2 : events[i] \in G /\ events[i].type = "authorize"
  BY <1>4, <1>6, <1>12
<1>14. \A i \in 1 .. Now : i = 1 \/ i = 2 \/ i \in 3 .. n + 2
  BY <1>4, <1>12
<1>15. Loads = {2} /\ Faults = {} /\ Of("optimizer_end") = {}
  <2>1. \A i : i \in Loads <=> i = 2
    BY <1>4, <1>9, <1>12, <1>13, <1>14 DEF Loads, Of
  <2>2. \A i : i \notin Faults
    BY <1>4, <1>9, <1>12, <1>13, <1>14 DEF Faults, Of
  <2>3. \A i : i \notin Of("optimizer_end")
    BY <1>4, <1>9, <1>12, <1>13, <1>14 DEF Of
  <2> QED
    BY <2>1, <2>2, <2>3
<1>16. PICK c : c = [parent |-> Nil, epoch |-> 1, updates |-> <<>>, consumed |-> {}, scheduled |-> 1, stored |-> 1]
  OBVIOUS
<1>z. PICK z : z = <<>>
  OBVIOUS
<1>y. z \in Seq(Nat) /\ Inc(z) /\ ToSet(z) = {}
  BY <1>z DEF Inc, ToSet
<1>17. /\ states = <<c>> /\ updates = <<>> /\ running = Nil /\ pending = Nil
       /\ authority = [g \in Groups |-> Granted(g, 1, 1)] /\ content = <<z>> /\ lies = 0 /\ final = Nil
       /\ live = [loaded |-> First, base |-> First, since |-> z, epoch |-> 1]
  BY <1>16, <1>z DEF OracleInit
<1>18. /\ Len(states) = 1 /\ states[1] = c /\ c.scheduled = 1 /\ c.stored = 1 /\ c.updates = z /\ c.consumed = {}
       /\ Len(updates) = 0 /\ content[1] = z /\ Len(content) = 1
       /\ live.loaded = 1 /\ live.base = 1 /\ live.since = z /\ live.epoch = 1
  BY <1>16, <1>17, <1>z DEF First
<1>19. StateIds = {1} /\ UpdateIds = {} /\ First = 1
  BY <1>18 DEF StateIds, UpdateIds, First
<1>20. Typed
  <2>1. c \in State
    <3>1. c = [parent |-> Nil, epoch |-> 1, updates |-> z, consumed |-> {}, scheduled |-> 1, stored |-> 1]
      BY <1>16, <1>z
    <3> QED
      BY <1>y, <3>1 DEF State
  <2>2. states \in Seq(State) /\ content \in Seq(Seq(Nat)) /\ updates \in Seq(Trained)
    BY <1>17, <1>y, <2>1
  <2>3. live \in Trainer
    BY <1>17, <1>y DEF Trainer, First
  <2>4. authority \in [Groups -> Grant]
    BY <1>5, <1>17
  <2> QED
    BY <1>4, <1>12, <1>15, <1>17, <1>18, <2>2, <2>3, <2>4 DEF Typed
<1>21. LoadInv
  BY <1>9, <1>12, <1>15, <1>18, <1>19 DEF LoadInv
<1>22. SaveInv /\ OrderInv
  BY <1>18, <1>19, <1>z DEF SaveInv, SaveFits, OrderInv
<1>23. PendingInv /\ RunningInv /\ FinalInv
  BY <1>17 DEF PendingInv, RunningInv, FinalInv
<1>24. ContentInv
  BY <1>18, <1>19, <1>y, <1>z DEF ContentInv, Holds
<1>25. LiveInv
  <2>1. ASSUME NEW l \in Loads
        PROVE  /\ events[l].state = live.loaded /\ events[l].epoch = live.epoch
               /\ \A s \in StateIds : states[s].scheduled <= l
    BY <1>9, <1>12, <1>15, <1>18, <1>19, <2>1
  <2>2. \A l : Done(Low(l), Now) = {}
    BY <1>19 DEF Done
  <2> QED
    BY <1>18, <1>19, <1>y, <2>1, <2>2 DEF LiveInv
<1>26. UpdateInv /\ TurnInv /\ ApartInv
  BY <1>19 DEF UpdateInv, TurnInv, ApartInv
<1>27. EndInv /\ FaultInv
  BY <1>15 DEF EndInv, FaultInv
<1>28. AuthorityInv
  <2> SUFFICES ASSUME NEW g \in Groups
               PROVE  \E a \in Of("authorize") :
                         /\ events[a] = authority[g] /\ events[a].group = g
                         /\ \A j \in Of("authorize") : events[j].group = g => j <= a
    BY DEF AuthorityInv
  <2>1. PICK x : x = Granted(g, 1, 1)
    OBVIOUS
  <2>2. x \in G /\ x.group = g /\ x.type = "authorize" /\ authority[g] = x
    BY <1>5, <1>17, <2>1
  <2>3. PICK i \in 1 .. n : q[i] = x
    BY <1>4, <2>2
  <2>4. i + 2 \in 3 .. n + 2 /\ i + 2 - 2 = i /\ i + 2 \in 1 .. Now
    BY <1>4, <1>12
  <2>5. events[i + 2] = x
    BY <1>12, <2>3, <2>4
  <2>6. i + 2 \in Of("authorize")
    BY <2>2, <2>4, <2>5 DEF Of
  <2>7. ASSUME NEW j \in Of("authorize"), events[j].group = g PROVE j <= i + 2
    <3>1. j \in 1 .. Now /\ events[j].type = "authorize"
      BY DEF Of
    <3>2. j \in 3 .. n + 2
      BY <1>9, <1>12, <1>14, <3>1
    <3>3. events[j] \in G /\ events[j] = q[j - 2] /\ j - 2 \in 1 .. n
      BY <1>12, <1>13, <3>2
    <3>4. events[j] = x
      BY <1>6, <2>1, <2>7, <3>3
    <3>5. j - 2 = i
      BY <1>4, <2>3, <3>3, <3>4
    <3> QED
      BY <1>4, <2>4, <3>2, <3>5
  <2> QED
    BY <2>2, <2>5, <2>6, <2>7
<1>29. TruthInv
  BY <1>19 DEF TruthInv
<1> QED
  BY <1>20, <1>21, <1>22, <1>23, <1>24, <1>25, <1>26, <1>27, <1>28, <1>29 DEF OracleInv

(* In every step of the run and of its account: every part of OracleInv, whatever the
   trainer does and however many entries of the account are untrue.            *)
THEOREM OracleHolds == OracleSpec => []OracleInv
<1>1. OracleInit => OracleInv
  BY OracleStarts
<1>2. OracleInv /\ [OracleNext]_oracleVars => OracleInv'
  BY OracleStep
<1> QED
  BY <1>1, <1>2, PTL DEF OracleSpec

-----------------------------------------------------------------------------
(* What audit_run reads off the record                                        *)

LEMMA PrefixIs ==
    ASSUME NEW q, NEW c, Inc(q), Inc(c), ToSet(q) \subseteq ToSet(c),
           \A x \in ToSet(q), y \in ToSet(c) : y < x => y \in ToSet(q)
    PROVE  IsPrefix(q, c)
<1>1. /\ q \in Seq(Nat) /\ c \in Seq(Nat) /\ Len(q) \in Nat /\ Len(c) \in Nat
      /\ \A i, j \in 1 .. Len(q) : i < j => q[i] < q[j]
      /\ \A i, j \in 1 .. Len(c) : i < j => c[i] < c[j]
  BY DEF Inc
<1>2. (\A i \in 1 .. Len(q) : q[i] \in Nat) /\ \A i \in 1 .. Len(c) : c[i] \in Nat
  BY <1>1
<1>3. \A x : x \in ToSet(q) <=> \E i \in 1 .. Len(q) : x = q[i]
  BY <1>1 DEF ToSet
<1>4. \A x : x \in ToSet(c) <=> \E i \in 1 .. Len(c) : x = c[i]
  BY <1>1 DEF ToSet
<1> DEFINE Bad == {i \in 1 .. Len(q) : ~(i <= Len(c) /\ q[i] = c[i])}
<1>5. Bad = {}
  <2>1. SUFFICES ASSUME Bad # {} PROVE FALSE
    OBVIOUS
  <2>2. Bad \subseteq Nat
    BY <1>1
  <2>3. PICK i \in Bad : \A j \in Bad : ~(j < i)
    BY <2>1, <2>2, NatLeast
  <2>4. i \in 1 .. Len(q) /\ ~(i <= Len(c) /\ q[i] = c[i])
    BY <2>3
  <2>5. \A j \in 1 .. i - 1 : j \in 1 .. Len(q) /\ j \in 1 .. Len(c) /\ q[j] = c[j]
    BY <1>1, <2>3, <2>4
  <2>6. q[i] \in ToSet(q)
    BY <1>3, <2>4
  <2>7. PICK k \in 1 .. Len(c) : q[i] = c[k]
    BY <1>4, <2>6
  <2>8. CASE k < i
    <3>1. q[k] = c[k] /\ k \in 1 .. Len(q)
      BY <1>1, <2>4, <2>5, <2>7, <2>8
    <3>2. q[k] < q[i]
      BY <1>1, <2>4, <2>8, <3>1
    <3> QED
      BY <1>2, <2>4, <2>7, <3>1, <3>2
  <2>9. CASE k > i
    <3>1. i \in 1 .. Len(c) /\ c[i] < c[k]
      BY <1>1, <2>4, <2>7, <2>9
    <3>2. c[i] \in ToSet(c) /\ c[i] < q[i]
      BY <1>4, <2>7, <3>1
    <3>3. c[i] \in ToSet(q)
      BY <2>6, <3>2
    <3>4. PICK m \in 1 .. Len(q) : c[i] = q[m]
      BY <1>3, <3>3
    <3>5. m < i
      BY <1>1, <1>2, <2>4, <3>2, <3>4
    <3>6. q[m] = c[m] /\ m \in 1 .. Len(c)
      BY <1>1, <2>4, <2>5, <3>4, <3>5
    <3>7. c[m] < c[i]
      BY <1>1, <3>1, <3>5, <3>6
    <3> QED
      BY <1>2, <3>1, <3>4, <3>6, <3>7
  <2> QED
    BY <1>1, <2>4, <2>7, <2>8, <2>9
<1>6. \A i \in 1 .. Len(q) : i <= Len(c) /\ q[i] = c[i]
  BY <1>5
<1>7. Len(q) <= Len(c)
  BY <1>1, <1>6
<1>8. SubSeq(q, 1, Len(q)) = SubSeq(c, 1, Len(q))
  BY <1>1, <1>6, <1>7
<1> QED
  BY <1>7, <1>8 DEF IsPrefix

LEMMA KeptIs ==
    ASSUME NEW q, NEW S, Inc(q)
    PROVE  Inc(Kept(q, S)) /\ ToSet(Kept(q, S)) = ToSet(q) \intersect S
<1>1. PICK n : n = Len(q)
  OBVIOUS
<1>2. /\ q \in Seq(Nat) /\ n \in Nat /\ \A i \in 1 .. n : q[i] \in Nat
      /\ \A i, j \in 1 .. n : i < j => q[i] < q[j]
  BY <1>1 DEF Inc
<1>3. PICK p : p = [i \in 1 .. n |-> i - 1]
  OBVIOUS
<1>4. PICK g : g = [x \in Seq(Nat) \X (1 .. n) |-> IF q[x[2]] \in S THEN Append(x[1], q[x[2]]) ELSE x[1]]
  OBVIOUS
<1>5. PICK z : z = <<>>
  OBVIOUS
<1>6. z \in Seq(Nat) /\ 0 + 1 = 1
  BY <1>5
<1>7. \A i \in 0 + 1 .. n : p[i] \in 0 .. i - 1
  BY <1>2, <1>3
<1>8. ASSUME NEW v \in Seq(Nat), NEW i \in 1 .. n
      PROVE  g[<<v, i>>] = (IF q[i] \in S THEN Append(v, q[i]) ELSE v) /\ g[<<v, i>>] \in Seq(Nat)
  <2>1. g[<<v, i>>] = IF q[i] \in S THEN Append(v, q[i]) ELSE v
    BY <1>4
  <2> QED
    BY <1>2, <2>1
<1>9. \A v \in Seq(Nat), i \in 0 + 1 .. n : g[<<v, i>>] \in Seq(Nat)
  BY <1>6, <1>8
<1>10. PICK f \in [0 .. n -> Seq(Nat)] :
           \A i \in 0 .. n : f[i] = IF i = 0 THEN z ELSE g[<<f[p[i]], i>>]
  <2>1. PICK m : m = 0
    OBVIOUS
  <2>2. PICK V : V = Seq(Nat)
    OBVIOUS
  <2>3. m \in Nat /\ n \in Nat /\ z \in V
    BY <1>2, <1>6, <2>1, <2>2
  <2>4. \A i \in m + 1 .. n : p[i] \in m .. i - 1
    BY <1>7, <2>1
  <2>5. \A v \in V, i \in m + 1 .. n : g[<<v, i>>] \in V
    BY <1>9, <2>1, <2>2
  <2>6. Recursive(m, n, V, z, p, g)
    BY <2>3, <2>4, <2>5, Recursion
  <2> QED
    BY <2>1, <2>2, <2>6 DEF Recursive
<1>11. f = [i \in 0 .. n |-> IF i = 0 THEN <<>>
                            ELSE IF q[i] \in S THEN Append(f[i - 1], q[i]) ELSE f[i - 1]]
  <2>1. ASSUME NEW i \in 0 .. n
        PROVE  f[i] = IF i = 0 THEN <<>> ELSE IF q[i] \in S THEN Append(f[i - 1], q[i]) ELSE f[i - 1]
    <3>1. CASE i = 0
      BY <1>2, <1>5, <1>10, <3>1
    <3>2. CASE i # 0
      <4>1. i \in 1 .. n /\ i - 1 \in 0 .. n
        BY <1>2, <3>2
      <4>2. f[i] = g[<<f[i - 1], i>>] /\ f[i - 1] \in Seq(Nat)
        BY <1>3, <1>10, <3>2, <4>1
      <4> QED
        BY <1>8, <3>2, <4>1, <4>2
    <3> QED
      BY <3>1, <3>2
  <2>2. f = [i \in 0 .. n |-> f[i]]
    BY <1>10
  <2> QED
    BY <2>1, <2>2
<1>12. PICK h : /\ h = [i \in 0 .. n |-> IF i = 0 THEN <<>>
                                        ELSE IF q[i] \in S THEN Append(h[i - 1], q[i]) ELSE h[i - 1]]
                /\ Kept(q, S) = h[n]
  <2>1. PICK h : h = CHOOSE u : u = [i \in 0 .. n |-> IF i = 0 THEN <<>>
                                        ELSE IF q[i] \in S THEN Append(u[i - 1], q[i]) ELSE u[i - 1]]
    OBVIOUS
  <2>2. Kept(q, S) = h[n]
    BY <1>1, <2>1 DEF Kept
  <2> QED
    BY <1>11, <2>1, <2>2
<1> DEFINE Fine(i) == Inc(h[i]) /\ ToSet(h[i]) = {q[j] : j \in 1 .. i} \intersect S
           Bad == {i \in 0 .. n : ~Fine(i)}
<1>13. Bad = {}
  <2>1. SUFFICES ASSUME Bad # {} PROVE FALSE
    OBVIOUS
  <2>2. Bad \subseteq Nat
    BY <1>2
  <2>3. PICK i \in Bad : \A j \in Bad : ~(j < i)
    BY <2>1, <2>2, NatLeast
  <2>4. CASE i = 0
    <3>1. h[0] = <<>>
      BY <1>2, <1>12
    <3>2. Inc(h[0]) /\ ToSet(h[0]) = {}
      BY <3>1 DEF Inc, ToSet
    <3>3. {q[j] : j \in 1 .. 0} = {}
      OBVIOUS
    <3> QED
      BY <2>3, <2>4, <3>2, <3>3
  <2>5. CASE i # 0
    <3>1. i \in 1 .. n /\ i - 1 \in 0 .. n /\ i - 1 \notin Bad
      <4>1. i \in 0 .. n
        BY <2>3
      <4>2. i \in 1 .. n /\ i - 1 \in 0 .. n /\ i - 1 < i
        BY <1>2, <2>5, <4>1
      <4> QED
        BY <2>3, <4>2
    <3>2. PICK v : v = h[i - 1]
      OBVIOUS
    <3>3. Inc(v) /\ ToSet(v) = {q[j] : j \in 1 .. i - 1} \intersect S
      BY <3>1, <3>2
    <3>4. h[i] = IF q[i] \in S THEN Append(v, q[i]) ELSE v
      <4>1. i \in 0 .. n
        BY <3>1, <1>2
      <4>2. h[i] = IF i = 0 THEN <<>> ELSE IF q[i] \in S THEN Append(h[i - 1], q[i]) ELSE h[i - 1]
        BY <1>12, <4>1
      <4> QED
        BY <2>5, <3>2, <4>2
    <3>5. {q[j] : j \in 1 .. i} = {q[j] : j \in 1 .. i - 1} \union {q[i]}
      <4>1. \A j : j \in 1 .. i <=> j \in 1 .. i - 1 \/ j = i
        BY <3>1
      <4> QED
        BY <4>1
    <3>6. CASE q[i] \in S
      <4>1. PICK r : r = <<q[i]>>
        OBVIOUS
      <4>2. q[i] \in Nat /\ r \in Seq(Nat)
        BY <1>2, <3>1, <4>1
      <4>3. Inc(r) /\ ToSet(r) = {q[i]}
        BY <4>1, <4>2 DEF Inc, ToSet
      <4>4. \A x \in ToSet(v), y \in ToSet(r) : x < y
        BY <1>2, <3>1, <3>3, <4>3
      <4>5. Inc(v \o r) /\ ToSet(v \o r) = ToSet(v) \union ToSet(r)
        BY <3>3, <4>3, <4>4, IncConcat
      <4>6. h[i] = v \o r
        BY <3>3, <3>4, <3>6, <4>1, <4>2 DEF Inc
      <4> QED
        BY <2>3, <3>3, <3>5, <3>6, <4>3, <4>5, <4>6
    <3>7. CASE q[i] \notin S
      BY <2>3, <3>3, <3>4, <3>5, <3>7
    <3> QED
      BY <3>6, <3>7
  <2> QED
    BY <2>4, <2>5
<1>14. Fine(n)
  <2>1. n \in 0 .. n
    BY <1>2
  <2> QED
    BY <1>13, <2>1
<1>15. ToSet(q) = {q[j] : j \in 1 .. n}
  <2>1. DOMAIN q = 1 .. n
    BY <1>1, <1>2
  <2> QED
    BY <2>1 DEF ToSet
<1> QED
  BY <1>12, <1>14, <1>15

-----------------------------------------------------------------------------
(* The saves an audit walks through                                           *)

(* The states from the first to s *)
Lineage(s) == ToSet(Chain[s])

LEMMA ParentIs ==
    ASSUME OracleInv, NEW s \in StateIds, s # First
    PROVE  /\ Len(states) \in Nat /\ s \in Nat /\ s > 1
           /\ states[s].parent \in 1 .. s - 1 /\ states[s].parent \in StateIds
<1>1. Len(states) \in Nat
  BY Types DEF OracleInv
<1>2. s \in Nat /\ s > 1 /\ s <= Len(states)
  BY <1>1 DEF StateIds, First
<1>3. states[s].parent \in 1 .. s - 1
  BY DEF OracleInv, SaveInv, SaveFits
<1>4. states[s].parent \in StateIds
  BY <1>1, <1>2, <1>3 DEF StateIds
<1> QED
  BY <1>1, <1>2, <1>3, <1>4

(* What is defined along the parents of the states is defined. *)
Along(b, g) == \E f \in [StateIds -> Seq(Nat)] :
    \A s \in StateIds : f[s] = IF s = First THEN b ELSE g[<<f[states[s].parent], s>>]

LEMMA AlongParents ==
    ASSUME OracleInv, NEW b \in Seq(Nat), NEW g, \A v \in Seq(Nat), s \in StateIds : g[<<v, s>>] \in Seq(Nat)
    PROVE  Along(b, g)
<1>1. PICK n : n = Len(states)
  OBVIOUS
<1>2. n \in Nat /\ n >= 1 /\ StateIds = 1 .. n
  BY <1>1, Types DEF OracleInv, Typed, StateIds
<1>3. PICK p : p = [s \in 1 .. n |-> states[s].parent]
  OBVIOUS
<1>4. PICK m : m = 1
  OBVIOUS
<1>5. PICK V : V = Seq(Nat)
  OBVIOUS
<1>6. m \in Nat /\ n \in Nat /\ b \in V /\ First = m
  BY <1>2, <1>4, <1>5 DEF First
<1>7. ASSUME NEW s \in m + 1 .. n PROVE p[s] \in m .. s - 1
  <2>1. s \in StateIds /\ s # First
    BY <1>2, <1>4, <1>7 DEF First
  <2> QED
    BY <1>2, <1>3, <1>4, <2>1, ParentIs
<1>8. ASSUME NEW v \in V, NEW s \in m + 1 .. n PROVE g[<<v, s>>] \in V
  <2>1. s \in StateIds
    BY <1>2, <1>4
  <2> QED
    BY <1>5, <2>1
<1>9. Recursive(m, n, V, b, p, g)
  BY <1>6, <1>7, <1>8, Recursion
<1>10. PICK f \in [m .. n -> V] : \A s \in m .. n : f[s] = IF s = m THEN b ELSE g[<<f[p[s]], s>>]
  BY <1>9 DEF Recursive
<1>11. \A s \in StateIds : p[s] = states[s].parent
  BY <1>2, <1>3
<1>12. f \in [StateIds -> Seq(Nat)]
  BY <1>2, <1>4, <1>5
<1>13. \A s \in StateIds : f[s] = IF s = First THEN b ELSE g[<<f[states[s].parent], s>>]
  BY <1>2, <1>4, <1>6, <1>10, <1>11
<1> QED
  BY <1>12, <1>13 DEF Along

LEMMA ChainIs ==
    ASSUME OracleInv
    PROVE  /\ Chain[First] = <<First>>
           /\ \A s \in StateIds : s # First => Chain[s] = Append(Chain[states[s].parent], s)
           /\ \A s \in StateIds : Chain[s] \in Seq(Nat)
<1>1. Len(states) \in Nat /\ First \in StateIds /\ StateIds \subseteq Nat
  BY Types DEF OracleInv, Typed, StateIds, First
<1>2. PICK b : b = <<First>>
  OBVIOUS
<1>3. b \in Seq(Nat)
  BY <1>1, <1>2
<1>4. PICK g : g = [x \in Seq(Nat) \X StateIds |-> Append(x[1], x[2])]
  OBVIOUS
<1>5. ASSUME NEW v \in Seq(Nat), NEW s \in StateIds
      PROVE  g[<<v, s>>] = Append(v, s) /\ g[<<v, s>>] \in Seq(Nat)
  <2>1. g[<<v, s>>] = Append(v, s)
    BY <1>4
  <2>2. Append(v, s) \in Seq(Nat)
    BY <1>1
  <2> QED
    BY <2>1, <2>2
<1>6. PICK f \in [StateIds -> Seq(Nat)] :
          \A s \in StateIds : f[s] = IF s = First THEN b ELSE g[<<f[states[s].parent], s>>]
  <2>1. Along(b, g)
    BY <1>3, <1>5, AlongParents
  <2> QED
    BY <2>1 DEF Along
<1>7. ASSUME NEW s \in StateIds
      PROVE  f[s] = IF s = First THEN <<First>> ELSE Append(f[states[s].parent], s)
  <2>1. CASE s = First
    BY <1>2, <1>6, <2>1
  <2>2. CASE s # First
    <3>1. states[s].parent \in StateIds
      BY <2>2, ParentIs
    <3>2. f[s] = g[<<f[states[s].parent], s>>] /\ f[states[s].parent] \in Seq(Nat)
      BY <1>6, <2>2, <3>1
    <3> QED
      BY <1>5, <2>2, <3>2
  <2> QED
    BY <2>1, <2>2
<1>8. f = [s \in StateIds |-> f[s]]
  OBVIOUS
<1>9. f = [s \in StateIds |-> IF s = First THEN <<First>> ELSE Append(f[states[s].parent], s)]
  BY <1>7, <1>8
<1>10. Chain = [s \in StateIds |-> IF s = First THEN <<First>> ELSE Append(Chain[states[s].parent], s)]
  BY <1>9 DEF Chain
<1>11. PICK h : h = Chain
  OBVIOUS
<1>12. \A s \in StateIds : h[s] = IF s = First THEN <<First>> ELSE Append(h[states[s].parent], s)
  BY <1>10, <1>11
<1> DEFINE Bad == {s \in StateIds : h[s] \notin Seq(Nat)}
<1>13. Bad = {}
  <2>1. SUFFICES ASSUME Bad # {} PROVE FALSE
    OBVIOUS
  <2>2. Bad \subseteq Nat
    BY <1>1
  <2>3. PICK s \in Bad : \A t \in Bad : ~(t < s)
    BY <2>1, <2>2, NatLeast
  <2>4. CASE s = First
    BY <1>2, <1>3, <1>12, <2>3, <2>4
  <2>5. CASE s # First
    <3>1. s \in StateIds
      BY <2>3
    <3>2. PICK p : p = states[s].parent
      OBVIOUS
    <3>3. s \in Nat /\ p \in 1 .. s - 1 /\ p \in StateIds
      BY <2>5, <3>1, <3>2, ParentIs
    <3>4. p < s
      BY <3>3
    <3>5. h[p] \in Seq(Nat)
      BY <2>3, <3>3, <3>4
    <3>6. h[s] = Append(h[p], s)
      BY <1>12, <2>5, <3>1, <3>2
    <3>7. h[s] \in Seq(Nat)
      BY <3>3, <3>5, <3>6
    <3> QED
      BY <2>3, <3>7
  <2> QED
    BY <2>4, <2>5
<1> QED
  BY <1>1, <1>11, <1>12, <1>13

LEMMA RetainedIs ==
    ASSUME OracleInv
    PROVE  /\ RetainedTo[First] = <<>>
           /\ \A s \in StateIds : s # First => RetainedTo[s] = RetainedTo[states[s].parent] \o states[s].updates
<1>1. Len(states) \in Nat /\ First \in StateIds /\ StateIds \subseteq Nat
  BY Types DEF OracleInv, Typed, StateIds, First
<1>2. PICK b : b = <<>>
  OBVIOUS
<1>3. b \in Seq(Nat)
  BY <1>2
<1>4. PICK g : g = [x \in Seq(Nat) \X StateIds |-> x[1] \o states[x[2]].updates]
  OBVIOUS
<1>5. ASSUME NEW v \in Seq(Nat), NEW s \in StateIds
      PROVE  g[<<v, s>>] = v \o states[s].updates /\ g[<<v, s>>] \in Seq(Nat)
  <2>1. g[<<v, s>>] = v \o states[s].updates
    BY <1>4
  <2>2. states[s].updates \in Seq(Nat)
    BY Types DEF OracleInv
  <2>3. v \o states[s].updates \in Seq(Nat)
    BY <2>2
  <2> QED
    BY <2>1, <2>3
<1>6. PICK f \in [StateIds -> Seq(Nat)] :
          \A s \in StateIds : f[s] = IF s = First THEN b ELSE g[<<f[states[s].parent], s>>]
  <2>1. Along(b, g)
    BY <1>3, <1>5, AlongParents
  <2> QED
    BY <2>1 DEF Along
<1>7. ASSUME NEW s \in StateIds
      PROVE  f[s] = IF s = First THEN <<>> ELSE f[states[s].parent] \o states[s].updates
  <2>1. CASE s = First
    BY <1>2, <1>6, <2>1
  <2>2. CASE s # First
    <3>1. states[s].parent \in StateIds
      BY <2>2, ParentIs
    <3>2. f[s] = g[<<f[states[s].parent], s>>] /\ f[states[s].parent] \in Seq(Nat)
      BY <1>6, <2>2, <3>1
    <3> QED
      BY <1>5, <2>2, <3>2
  <2> QED
    BY <2>1, <2>2
<1>8. f = [s \in StateIds |-> f[s]]
  OBVIOUS
<1>9. f = [s \in StateIds |-> IF s = First THEN <<>> ELSE f[states[s].parent] \o states[s].updates]
  BY <1>7, <1>8
<1>10. RetainedTo = [s \in StateIds |-> IF s = First THEN <<>>
                                        ELSE RetainedTo[states[s].parent] \o states[s].updates]
  BY <1>9 DEF RetainedTo
<1> QED
  BY <1>1, <1>10

LEMMA LineageIs ==
    ASSUME OracleInv
    PROVE  /\ Lineage(First) = {First}
           /\ \A s \in StateIds : s # First => Lineage(s) = Lineage(states[s].parent) \union {s}
<1>1. Lineage(First) = {First}
  <2>1. PICK c : c = Chain[First]
    OBVIOUS
  <2>2. c = <<First>>
    BY <2>1, ChainIs
  <2>3. ToSet(c) = {First}
    BY <2>2 DEF ToSet
  <2> QED
    BY <2>1, <2>3 DEF Lineage
<1>2. ASSUME NEW s \in StateIds, s # First
      PROVE  Lineage(s) = Lineage(states[s].parent) \union {s}
  <2>1. PICK c : c = Chain[states[s].parent]
    OBVIOUS
  <2>2. PICK d : d = Chain[s]
    OBVIOUS
  <2>3. c \in Seq(Nat) /\ d = Append(c, s) /\ s \in Nat
    BY <1>2, <2>1, <2>2, ParentIs, ChainIs
  <2>4. PICK n : n = Len(c)
    OBVIOUS
  <2>5. n \in Nat /\ DOMAIN c = 1 .. n /\ DOMAIN d = 1 .. n + 1 /\ d[n + 1] = s /\ \A i \in 1 .. n : d[i] = c[i]
    BY <2>3, <2>4
  <2>6. \A i : i \in 1 .. n + 1 <=> i \in 1 .. n \/ i = n + 1
    BY <2>5
  <2>7. ToSet(c) = {c[i] : i \in 1 .. n} /\ ToSet(d) = {d[i] : i \in 1 .. n + 1}
    BY <2>5 DEF ToSet
  <2>8. ToSet(d) = ToSet(c) \union {s}
    BY <2>5, <2>6, <2>7
  <2> QED
    BY <2>1, <2>2, <2>8 DEF Lineage
<1> QED
  BY <1>1, <1>2

(* The states of a line are those before s that lead to it, each with its parent before it. *)
LEMMA LineageFits ==
    ASSUME OracleInv, NEW s \in StateIds
    PROVE  /\ s \in Lineage(s) /\ First \in Lineage(s) /\ Lineage(s) \subseteq 1 .. s /\ Lineage(s) \subseteq StateIds
           /\ \A t \in Lineage(s) : Lineage(t) \subseteq Lineage(s)
           /\ \A t \in Lineage(s) : t # First =>
                 states[t].parent \in Lineage(s) /\ \A r \in Lineage(s) : r <= states[t].parent \/ r >= t
<1> DEFINE Fits(x) ==
             /\ x \in Lineage(x) /\ First \in Lineage(x) /\ Lineage(x) \subseteq 1 .. x
             /\ \A t \in Lineage(x) : Lineage(t) \subseteq Lineage(x)
             /\ \A t \in Lineage(x) : t # First =>
                   states[t].parent \in Lineage(x) /\ \A r \in Lineage(x) : r <= states[t].parent \/ r >= t
           Bad == {x \in StateIds : ~Fits(x)}
<1>1. Len(states) \in Nat /\ First \in StateIds /\ StateIds = 1 .. Len(states) /\ First = 1
  BY Types DEF OracleInv, Typed, StateIds, First
<1>2. Bad = {}
  <2>1. SUFFICES ASSUME Bad # {} PROVE FALSE
    OBVIOUS
  <2>2. Bad \subseteq Nat
    BY <1>1
  <2>3. PICK x \in Bad : \A y \in Bad : ~(y < x)
    BY <2>1, <2>2, NatLeast
  <2>4. x \in StateIds /\ ~Fits(x)
    BY <2>3
  <2>5. CASE x = First
    <3>1. Lineage(x) = {First}
      BY <2>5, LineageIs
    <3>2. Fits(x)
      BY <1>1, <2>5, <3>1
    <3> QED
      BY <2>4, <3>2
  <2>6. CASE x # First
    <3>1. PICK p : p = states[x].parent
      OBVIOUS
    <3>2. x \in Nat /\ p \in 1 .. x - 1 /\ p \in StateIds
      BY <2>4, <2>6, <3>1, ParentIs
    <3>3. p < x
      BY <3>2
    <3>4. Fits(p)
      BY <2>3, <3>2, <3>3
    <3>5. Lineage(x) = Lineage(p) \union {x}
      BY <2>4, <2>6, <3>1, LineageIs
    <3>6. x \in Lineage(x) /\ First \in Lineage(x) /\ Lineage(x) \subseteq 1 .. x
      <4>1. Lineage(p) \subseteq 1 .. p /\ First \in Lineage(p)
        BY <3>4
      <4> QED
        BY <3>2, <3>5, <4>1
    <3>7. \A t \in Lineage(x) : Lineage(t) \subseteq Lineage(x)
      <4>1. \A t \in Lineage(p) : Lineage(t) \subseteq Lineage(p)
        BY <3>4
      <4> QED
        BY <3>5, <4>1
    <3>8. ASSUME NEW t \in Lineage(x), t # First
          PROVE  states[t].parent \in Lineage(x) /\ \A r \in Lineage(x) : r <= states[t].parent \/ r >= t
      <4>1. Lineage(p) \subseteq 1 .. p /\ p \in Lineage(p)
        BY <3>4
      <4>2. CASE t = x
        BY <3>1, <3>2, <3>5, <4>1, <4>2
      <4>3. CASE t \in Lineage(p)
        <5>1. states[t].parent \in Lineage(p) /\ \A r \in Lineage(p) : r <= states[t].parent \/ r >= t
          BY <3>4, <3>8, <4>3
        <5>2. t <= p
          BY <3>2, <4>1, <4>3
        <5>3. t \in Nat /\ x >= t
          BY <3>2, <4>1, <4>3, <5>2
        <5> QED
          BY <3>5, <5>1, <5>3
      <4> QED
        BY <3>5, <4>2, <4>3
    <3>9. Fits(x)
      BY <3>6, <3>7, <3>8
    <3> QED
      BY <2>4, <3>9
  <2> QED
    BY <2>5, <2>6
<1>3. Fits(s)
  BY <1>2
<1>4. 1 .. s \subseteq StateIds
  BY <1>1
<1> QED
  BY <1>3, <1>4

LEMMA LoadBeforeIs ==
    ASSUME Typed, NEW i, NEW l \in Loads, Under(l, i)
    PROVE  LoadBefore(i) = l
<1> DEFINE T == {j \in Loads : j < i}
<1>1. l \in T /\ \A j \in T : j <= l
  BY DEF Under
<1>2. T \subseteq Nat
  BY Types
<1>3. Max(T) = l
  BY <1>1, <1>2, MaxIs
<1> QED
  BY <1>3 DEF LoadBefore, Loads

LEMMA SaveLoadIs ==
    ASSUME OracleInv, NEW s \in StateIds, s # First
    PROVE  /\ SaveLoad(s) \in Loads /\ SaveLoad(s) \in Nat /\ Under(SaveLoad(s), states[s].scheduled)
           /\ states[s].scheduled \in Nat /\ SaveLoad(s) < states[s].scheduled /\ states[s].scheduled <= Now
<1>1. states[s].scheduled \in 3 .. Now /\ Now \in Nat
  BY Types DEF OracleInv, SaveInv, SaveFits
<1>2. PICK l \in Loads : Under(l, states[s].scheduled)
  BY <1>1, LastLoad DEF OracleInv
<1>3. SaveLoad(s) = l
  BY <1>2, LoadBeforeIs DEF OracleInv, SaveLoad
<1>4. l \in Nat /\ l < states[s].scheduled
  BY <1>2, Types DEF OracleInv, Under
<1> QED
  BY <1>1, <1>2, <1>3, <1>4

LEMMA BeginLoadIs ==
    ASSUME OracleInv, NEW u \in UpdateIds
    PROVE  /\ BeginLoad(u) \in Loads /\ BeginLoad(u) \in Nat /\ Under(BeginLoad(u), updates[u].started)
           /\ updates[u].started \in Nat /\ BeginLoad(u) < updates[u].started
<1>1. updates[u].started \in 3 .. Now /\ Now \in Nat
  BY Types DEF OracleInv, UpdateInv, TrainedWell
<1>2. PICK l \in Loads : Under(l, updates[u].started)
  BY <1>1, LastLoad DEF OracleInv
<1>3. BeginLoad(u) = l
  BY <1>2, LoadBeforeIs DEF OracleInv, BeginLoad
<1>4. l \in Nat /\ l < updates[u].started
  BY <1>2, Types DEF OracleInv, Under
<1> QED
  BY <1>1, <1>2, <1>3, <1>4

(* An update that ended under a load had begun under it. *)
LEMMA BegunUnder ==
    ASSUME OracleInv, NEW h \in Nat, NEW l \in Loads, Under(l, h), NEW u \in UpdateIds,
           l < updates[u].ended, updates[u].ended <= h
    PROVE  /\ Under(l, updates[u].started) /\ BeginLoad(u) = l /\ updates[u].ended # 0
           /\ updates[u].started < updates[u].ended
<1>1. /\ l \in Nat /\ Loads \subseteq Nat /\ updates[u].started \in Nat /\ updates[u].ended \in Nat
      /\ events[l].type = "checkpoint_loaded"
  BY Types DEF OracleInv, Loads, Of
<1>2. updates[u].ended # 0
  BY <1>1
<1>3. /\ updates[u].started < updates[u].ended /\ events[updates[u].started].type = "optimizer_start"
      /\ \A j \in Loads : ~(updates[u].started < j /\ j < updates[u].ended)
  BY <1>2 DEF OracleInv, UpdateInv, TrainedWell
<1>4. l # updates[u].started
  BY <1>1, <1>3
<1>5. l < updates[u].started
  BY <1>1, <1>3, <1>4
<1>6. \A j \in Loads : j < updates[u].started => j <= l
  BY <1>1, <1>3 DEF Under
<1>7. Under(l, updates[u].started)
  BY <1>5, <1>6 DEF Under
<1>8. BeginLoad(u) = l
  BY <1>7, LoadBeforeIs DEF OracleInv, BeginLoad
<1> QED
  BY <1>2, <1>3, <1>7, <1>8

(* Where the oracle starts to look for what a save is made of *)
Lower(s) == IF SaveLoad(s) > Parent(s).stored THEN SaveLoad(s) ELSE Parent(s).stored

LEMMA LowerIs ==
    ASSUME OracleInv, NEW s \in StateIds, s # First
    PROVE  /\ Lower(s) \in Nat /\ Lower(s) >= SaveLoad(s) /\ Lower(s) >= Parent(s).stored
           /\ Parent(s).stored \in Nat /\ SaveLoad(s) \in Nat
           /\ Max({Parent(s).stored, SaveLoad(s)}) = Lower(s)
<1>1. SaveLoad(s) \in Nat /\ Parent(s).stored \in Nat
  BY SaveLoadIs, ParentIs, Types DEF OracleInv, Parent
<1>2. Lower(s) \in Nat /\ Lower(s) >= SaveLoad(s) /\ Lower(s) >= Parent(s).stored
      /\ Lower(s) \in {Parent(s).stored, SaveLoad(s)}
  BY <1>1 DEF Lower
<1> DEFINE T == {Parent(s).stored, SaveLoad(s)}
<1>3. T \subseteq Nat /\ Lower(s) \in T /\ \A y \in T : y <= Lower(s)
  BY <1>1, <1>2
<1>4. Max(T) = Lower(s)
  BY <1>3, MaxIs
<1> QED
  BY <1>1, <1>2, <1>4

(* The events show the updates that ended well since the parent was stored and the trainer loaded. *)
LEMMA PerformedIs ==
    ASSUME OracleInv, NEW s \in StateIds, s # First, events[SaveLoad(s)].epoch = states[s].epoch
    PROVE  Inc(Performed(s)) /\ ToSet(Performed(s)) = Done(Lower(s), states[s].scheduled)
<1>1. PICK l : l = SaveLoad(s)
  OBVIOUS
<1>2. PICK h : h = states[s].scheduled
  OBVIOUS
<1>3. PICK lo : lo = Lower(s)
  OBVIOUS
<1>4. /\ l \in Loads /\ l \in Nat /\ h \in Nat /\ lo \in Nat /\ l <= lo /\ Under(l, h) /\ l < h /\ h <= Now
      /\ Now \in Nat /\ Max({Parent(s).stored, SaveLoad(s)}) = lo
  BY <1>1, <1>2, <1>3, SaveLoadIs, LowerIs, Types DEF OracleInv
<1>5. PICK E : E = {i \in lo + 1 .. h : /\ events[i].type = "optimizer_end" /\ events[i].successful
                                        /\ events[i].epoch = states[s].epoch}
  OBVIOUS
<1>6. PICK c : c = [i \in 1 .. Now |-> i]
  OBVIOUS
<1>7. Inc(c) /\ ToSet(c) = 1 .. Now
  <2>1. c \in Seq(Nat) /\ DOMAIN c = 1 .. Now /\ \A i \in 1 .. Now : c[i] = i
    BY <1>4, <1>6
  <2>2. Inc(c)
    BY <2>1 DEF Inc
  <2>3. ToSet(c) = {c[i] : i \in 1 .. Now}
    BY <2>1 DEF ToSet
  <2>4. {c[i] : i \in 1 .. Now} = 1 .. Now
    BY <2>1
  <2> QED
    BY <2>2, <2>3, <2>4
<1>8. PICK q : q = Kept(c, E)
  OBVIOUS
<1>9. Inc(q) /\ ToSet(q) = E
  <2>1. Inc(q) /\ ToSet(q) = (1 .. Now) \intersect E
    BY <1>7, <1>8, KeptIs
  <2>2. \A i \in E : i \in 1 .. Now
    BY <1>4, <1>5
  <2> QED
    BY <2>1, <2>2
<1>10. PICK r : r = [k \in DOMAIN q |-> events[q[k]].update]
  OBVIOUS
<1>11. Performed(s) = r
  BY <1>2, <1>4, <1>5, <1>6, <1>8, <1>10 DEF Performed
<1>12. ASSUME NEW i \in E
       PROVE  /\ events[i].update \in UpdateIds /\ updates[events[i].update].ended = i
              /\ events[i].update \in Done(lo, h)
  <2>1. i \in 1 .. Now /\ i \in lo + 1 .. h /\ events[i].type = "optimizer_end" /\ events[i].successful
    BY <1>4, <1>5, <1>12
  <2>2. i \in Of("optimizer_end")
    BY <2>1 DEF Of
  <2>3. PICK u : u = events[i].update
    OBVIOUS
  <2>4. u \in UpdateIds /\ updates[u].ended = i
    BY <2>2, <2>3 DEF OracleInv, EndInv
  <2>5. updates[u].ended # 0
    BY <2>1, <2>4
  <2>6. PICK x : x = updates[u].successful
    OBVIOUS
  <2>7. events[i] = [type |-> "optimizer_end", update |-> u, epoch |-> updates[u].epoch, successful |-> x]
    BY <2>4, <2>5, <2>6 DEF OracleInv, UpdateInv, TrainedWell
  <2>8. events[i].successful = x
    BY <2>7
  <2>9. u \in Done(lo, h)
    BY <1>4, <2>1, <2>4, <2>6, <2>8 DEF Done
  <2> QED
    BY <2>3, <2>4, <2>9
<1>13. ASSUME NEW u \in Done(lo, h)
       PROVE  updates[u].ended \in E /\ events[updates[u].ended].update = u
  <2>1. u \in UpdateIds /\ updates[u].successful /\ lo < updates[u].ended /\ updates[u].ended <= h
    BY <1>13 DEF Done
  <2>2. PICK i : i = updates[u].ended
    OBVIOUS
  <2>3. i \in Nat /\ i \in lo + 1 .. h /\ i # 0 /\ l < i
    BY <1>4, <2>1, <2>2, Types DEF OracleInv
  <2>4. Under(l, updates[u].started)
    BY <1>4, <2>1, <2>2, <2>3, BegunUnder
  <2>5. PICK x : x = updates[u].successful
    OBVIOUS
  <2>6. events[i] = [type |-> "optimizer_end", update |-> u, epoch |-> updates[u].epoch, successful |-> x]
    BY <2>1, <2>2, <2>3, <2>5 DEF OracleInv, UpdateInv, TrainedWell
  <2>7. events[l].epoch = updates[u].epoch
    BY <1>4, <2>1, <2>4 DEF OracleInv, UpdateInv, TrainedWell
  <2>8. events[i].type = "optimizer_end" /\ events[i].update = u /\ events[i].epoch = updates[u].epoch
    BY <2>6
  <2>9. events[i].successful = x /\ x
    BY <2>1, <2>5, <2>6
  <2>10. i \in E
    BY <1>1, <1>5, <2>3, <2>7, <2>8, <2>9
  <2> QED
    BY <2>2, <2>8, <2>10
<1>14. /\ q \in Seq(Nat) /\ Len(q) \in Nat /\ DOMAIN q = 1 .. Len(q)
       /\ \A k \in 1 .. Len(q) : q[k] \in E /\ q[k] \in Nat
       /\ \A j, k \in 1 .. Len(q) : j < k => q[j] < q[k]
  <2>1. q \in Seq(Nat)
    BY <1>9 DEF Inc
  <2>2. Len(q) \in Nat /\ DOMAIN q = 1 .. Len(q)
    BY <2>1
  <2>3. \A k \in 1 .. Len(q) : q[k] \in E
    BY <1>9, <2>2 DEF ToSet
  <2>4. \A k \in 1 .. Len(q) : q[k] \in Nat
    BY <2>1
  <2>5. \A j, k \in 1 .. Len(q) : j < k => q[j] < q[k]
    BY <1>9, <2>2 DEF Inc
  <2> QED
    BY <2>1, <2>2, <2>3, <2>4, <2>5
<1>15. ASSUME NEW k \in 1 .. Len(q) PROVE r[k] \in Nat /\ r[k] \in UpdateIds /\ updates[r[k]].ended = q[k]
                                          /\ r[k] \in Done(lo, h)
  <2>1. r[k] = events[q[k]].update
    BY <1>10, <1>14
  <2>2. r[k] \in UpdateIds /\ updates[r[k]].ended = q[k] /\ r[k] \in Done(lo, h)
    BY <1>12, <1>14, <2>1
  <2> QED
    BY <2>2, Types DEF OracleInv, UpdateIds
<1>16. r \in Seq(Nat) /\ DOMAIN r = 1 .. Len(q)
  BY <1>10, <1>14, <1>15
<1>17. ASSUME NEW j \in 1 .. Len(q), NEW k \in 1 .. Len(q), j < k PROVE r[j] < r[k]
  <2>1. PICK u : u = r[j]
    OBVIOUS
  <2>2. PICK v : v = r[k]
    OBVIOUS
  <2>3. /\ u \in UpdateIds /\ v \in UpdateIds /\ u \in Nat /\ v \in Nat
        /\ updates[u].ended < updates[v].ended /\ updates[u].ended \in Nat /\ updates[v].ended \in Nat
        /\ updates[u].started \in Nat /\ updates[v].started \in Nat
    BY <1>14, <1>15, <1>17, <2>1, <2>2, Types DEF OracleInv
  <2>4. updates[u].ended \in E
    BY <1>13, <1>15, <2>1
  <2>5. updates[u].ended # 0
    BY <1>4, <1>5, <2>4
  <2>6. updates[u].started < updates[u].ended
    BY <2>3, <2>5 DEF OracleInv, UpdateInv, TrainedWell
  <2>7. v < u => updates[v].ended < updates[u].started
    BY <2>3 DEF OracleInv, TurnInv
  <2> QED
    BY <2>1, <2>2, <2>3, <2>6, <2>7
<1>18. Inc(r)
  BY <1>16, <1>17 DEF Inc
<1>19. ToSet(r) = {r[k] : k \in 1 .. Len(q)}
  BY <1>16 DEF ToSet
<1>20. ASSUME NEW u \in Done(lo, h) PROVE u \in ToSet(r)
  <2>1. updates[u].ended \in ToSet(q)
    BY <1>9, <1>13
  <2>2. PICK k \in 1 .. Len(q) : q[k] = updates[u].ended
    BY <1>14, <2>1 DEF ToSet
  <2>3. r[k] = u
    BY <1>10, <1>13, <1>14, <2>2
  <2> QED
    BY <1>19, <2>2, <2>3
<1>21. \A u \in ToSet(r) : u \in Done(lo, h)
  BY <1>15, <1>19
<1>22. ToSet(r) = Done(lo, h)
  BY <1>20, <1>21
<1> QED
  BY <1>2, <1>3, <1>11, <1>18, <1>22

-----------------------------------------------------------------------------
(* What the oracle passes is what happened                                    *)

LEMMA ContentFits ==
    ASSUME OracleInv, NEW s \in StateIds
    PROVE  /\ Inc(content[s])
           /\ \A u \in ToSet(content[s]) : /\ u \in UpdateIds /\ updates[u].successful /\ updates[u].ended \in Nat
                                           /\ updates[u].ended <= states[s].scheduled
<1>1. Holds(s)
  BY DEF OracleInv, ContentInv
<1> QED
  BY <1>1, Types DEF OracleInv, Holds

LEMMA SaveOrder ==
    ASSUME OracleInv, NEW s \in StateIds, NEW t \in StateIds, s < t
    PROVE  /\ states[s].scheduled \in Nat /\ states[s].stored \in Nat /\ states[t].scheduled \in Nat
           /\ states[s].scheduled < states[t].scheduled /\ states[s].stored < states[t].scheduled
BY Types DEF OracleInv, OrderInv

(* Updates end in the order of their numbers. *)
LEMMA EndOrder ==
    ASSUME OracleInv, NEW u \in UpdateIds, NEW v \in UpdateIds, updates[u].ended # 0,
           updates[u].ended < updates[v].ended
    PROVE  u < v
<1>1. /\ u \in Nat /\ v \in Nat
      /\ updates[u].started \in Nat /\ updates[u].ended \in Nat /\ updates[v].ended \in Nat
  BY Types DEF OracleInv, UpdateIds
<1>2. updates[u].started < updates[u].ended
  BY DEF OracleInv, UpdateInv, TrainedWell
<1>3. v < u => updates[v].ended < updates[u].started
  BY DEF OracleInv, TurnInv
<1> QED
  BY <1>1, <1>2, <1>3

(* Where the weights of a save depart from those of its parent *)
Segment(s, b) ==
    /\ b \in Nat
    /\ ToSet(content[s]) = ToSet(content[states[s].parent]) \union Done(b, states[s].scheduled)
    /\ Parent(s).scheduled <= b /\ b <= Lower(s) /\ b < states[s].scheduled
    /\ b < Lower(s) => states[s].parent # First /\ b = Parent(s).scheduled /\ Lower(s) = Parent(s).stored

LEMMA SegmentIs ==
    ASSUME OracleInv, NEW s \in StateIds, s # First, KeepsParent(s), Parent(s).stored # 0
    PROVE  Segment(s, TrueBase(s, SaveLoad(s)))
<1>1. PICK p : p = states[s].parent
  OBVIOUS
<1>2. p \in StateIds /\ p < s /\ s \in Nat /\ p \in Nat
  BY <1>1, ParentIs
<1>3. PICK l : l = SaveLoad(s)
  OBVIOUS
<1>4. PICK h : h = states[s].scheduled
  OBVIOUS
<1>5. l \in Loads /\ l \in Nat /\ h \in Nat /\ Under(l, h) /\ l < h
  BY <1>3, <1>4, SaveLoadIs
<1>6. /\ states[p].stored \in Nat /\ states[p].scheduled \in Nat /\ states[p].stored # 0
      /\ states[p].scheduled < h /\ states[p].stored < h /\ states[p].scheduled <= states[p].stored
  <2>1. /\ states[p].stored \in Nat /\ states[p].scheduled \in Nat /\ states[p].stored # 0
        /\ states[p].scheduled < h /\ states[p].stored < h
    BY <1>1, <1>2, <1>4, SaveOrder DEF Parent
  <2>2. states[p].scheduled <= states[p].stored
    BY <1>2, <2>1 DEF OracleInv, SaveInv, SaveFits
  <2> QED
    BY <2>1, <2>2
<1>7. ToSet(content[s]) = ToSet(content[events[l].state]) \union Done(l, h)
  <2>1. Holds(s)
    BY DEF OracleInv, ContentInv
  <2> QED
    BY <1>4, <1>5, <2>1 DEF Holds
<1>8. Lower(s) = (IF l > states[p].stored THEN l ELSE states[p].stored)
  BY <1>1, <1>3 DEF Lower, Parent
<1>9. CASE events[l].state = p /\ l > states[p].stored
  <2>1. Lower(s) = l /\ states[p].scheduled <= l
    BY <1>5, <1>6, <1>8, <1>9
  <2>2. Segment(s, l)
    BY <1>1, <1>4, <1>5, <1>6, <1>7, <1>9, <2>1 DEF Segment, Parent
  <2> QED
    BY <1>1, <1>3, <1>9, <2>2 DEF TrueBase
<1>10. CASE events[l].state # p /\ p # First /\ SaveLoad(p) = l
  <2>1. PICK b : b = states[p].scheduled
    OBVIOUS
  <2>2. Under(l, b) /\ l < b /\ b \in Nat
    BY <1>2, <1>10, <2>1, SaveLoadIs
  <2>3. b < states[p].stored
    BY <1>2, <1>6, <1>10, <2>1 DEF OracleInv, SaveInv, SaveFits
  <2>4. Lower(s) = states[p].stored
    BY <1>5, <1>6, <1>8, <2>2, <2>3
  <2>5. Holds(p)
    BY <1>2 DEF OracleInv, ContentInv
  <2>6. ToSet(content[p]) = ToSet(content[events[l].state]) \union Done(l, b)
    BY <1>5, <1>10, <2>1, <2>2, <2>5 DEF Holds
  <2>7. Done(l, h) = Done(l, b) \union Done(b, h)
    <3>1. \A u \in UpdateIds : updates[u].ended \in Nat
      BY Types DEF OracleInv
    <3> QED
      BY <1>5, <1>6, <2>1, <2>2, <3>1 DEF Done
  <2>8. ToSet(content[s]) = ToSet(content[p]) \union Done(b, h)
    BY <1>7, <2>6, <2>7
  <2>9. Segment(s, b)
    BY <1>1, <1>4, <1>6, <1>10, <2>1, <2>3, <2>4, <2>8 DEF Segment, Parent
  <2> QED
    BY <1>1, <1>3, <1>10, <2>1, <2>9 DEF TrueBase
<1>11. \/ events[l].state = p /\ l > states[p].stored
       \/ events[l].state # p /\ p # First /\ SaveLoad(p) = l
  BY <1>1, <1>3 DEF KeepsParent, Parent
<1> QED
  BY <1>9, <1>10, <1>11

(* Every state of the line of f was stored, and each kept its parent. *)
Walk(f) == \A s \in Lineage(f) : states[s].stored # 0 /\ (s # First => KeepsParent(s))

LEMMA WalkSegment ==
    ASSUME OracleInv, NEW f \in StateIds, Walk(f), NEW s \in Lineage(f), s # First
    PROVE  /\ s \in StateIds /\ states[s].parent \in Lineage(f) /\ states[s].parent < s /\ s \in Nat
           /\ Segment(s, TrueBase(s, SaveLoad(s)))
<1>1. s \in StateIds /\ states[s].parent \in Lineage(f)
  BY LineageFits
<1>2. states[states[s].parent].stored # 0 /\ KeepsParent(s)
  BY <1>1 DEF Walk
<1>3. Segment(s, TrueBase(s, SaveLoad(s)))
  BY <1>1, <1>2, SegmentIs DEF Parent
<1>4. states[s].parent < s /\ s \in Nat
  BY <1>1, ParentIs
<1> QED
  BY <1>1, <1>3, <1>4

(* A state of the line has, of what a later one has, what ended before it was made. *)
LEMMA CutIs ==
    ASSUME OracleInv, NEW f \in StateIds, Walk(f), NEW s \in Lineage(f), NEW t \in Lineage(s)
    PROVE  ToSet(content[t]) = {u \in ToSet(content[s]) : updates[u].ended <= states[t].scheduled}
<1> DEFINE Cut(x) == \A y \in Lineage(x) :
               ToSet(content[y]) = {u \in ToSet(content[x]) : updates[u].ended <= states[y].scheduled}
           Bad == {x \in Lineage(f) : ~Cut(x)}
<1>1. Lineage(f) \subseteq StateIds /\ StateIds \subseteq Nat /\ First \in StateIds
  BY LineageFits, Types DEF OracleInv, Typed, StateIds, First
<1>2. Bad = {}
  <2>1. SUFFICES ASSUME Bad # {} PROVE FALSE
    OBVIOUS
  <2>2. Bad \subseteq Nat
    BY <1>1
  <2>3. PICK x \in Bad : \A y \in Bad : ~(y < x)
    BY <2>1, <2>2, NatLeast
  <2>4. x \in Lineage(f) /\ x \in StateIds /\ ~Cut(x)
    BY <1>1, <2>3
  <2>5. \A u \in ToSet(content[x]) : updates[u].ended <= states[x].scheduled
    BY <2>4, ContentFits
  <2>6. CASE x = First
    <3>1. Lineage(x) = {x}
      BY <2>6, LineageIs
    <3>2. Cut(x)
      BY <2>5, <3>1
    <3> QED
      BY <2>4, <3>2
  <2>7. CASE x # First
    <3>1. PICK p : p = states[x].parent
      OBVIOUS
    <3>2. p \in Lineage(f) /\ p < x /\ p \in StateIds
      BY <1>1, <2>4, <2>7, <3>1, WalkSegment
    <3>3. Cut(p)
      BY <2>3, <3>2
    <3>4. Lineage(x) = Lineage(p) \union {x}
      BY <2>4, <2>7, <3>1, LineageIs
    <3>5. PICK b : Segment(x, b)
      BY <2>4, <2>7, WalkSegment
    <3>6. ToSet(content[x]) = ToSet(content[p]) \union Done(b, states[x].scheduled) /\ b \in Nat
          /\ states[p].scheduled <= b
      BY <3>1, <3>5 DEF Segment, Parent
    <3>7. ASSUME NEW y \in Lineage(x)
          PROVE  ToSet(content[y]) = {u \in ToSet(content[x]) : updates[u].ended <= states[y].scheduled}
      <4>1. CASE y = x
        BY <2>5, <4>1
      <4>2. CASE y \in Lineage(p)
        <5>1. ToSet(content[y]) = {u \in ToSet(content[p]) : updates[u].ended <= states[y].scheduled}
          BY <3>3, <4>2
        <5>2. y \in StateIds /\ y \in 1 .. p /\ p \in Nat
          BY <1>1, <3>2, <4>2, LineageFits
        <5>3. states[y].scheduled <= states[p].scheduled
          <6>1. CASE y = p
            BY <3>2, <6>1, Types DEF OracleInv
          <6>2. CASE y # p
            BY <3>2, <5>2, <6>2, SaveOrder
          <6> QED
            BY <6>1, <6>2
        <5>4. states[y].scheduled \in Nat /\ states[p].scheduled \in Nat
          BY <3>2, <5>2, Types DEF OracleInv
        <5>5. ASSUME NEW u \in Done(b, states[x].scheduled)
              PROVE  ~(updates[u].ended <= states[y].scheduled)
          <6>1. updates[u].ended \in Nat /\ b < updates[u].ended
            BY <5>5, Types DEF OracleInv, Done
          <6> QED
            BY <3>6, <5>3, <5>4, <6>1
        <5> QED
          BY <3>6, <5>1, <5>5
      <4> QED
        BY <3>4, <4>1, <4>2
    <3>8. Cut(x)
      BY <3>7
    <3> QED
      BY <2>4, <3>8
  <2> QED
    BY <2>6, <2>7
<1>3. Cut(s)
  BY <1>2
<1> QED
  BY <1>3

(* The authority the oracle finds for an update is the one its group had. *)
LEMMA AuthorizedIs ==
    ASSUME OracleInv, NEW u \in UpdateIds
    PROVE  Authorized(u) <=> /\ updates[u].attempt = updates[u].authority.attempt
                             /\ updates[u].epoch = updates[u].authority.epoch
<1> DEFINE T == {i \in Of("authorize") : events[i].group = updates[u].group /\ i < updates[u].started}
<1>1. PICK a \in Of("authorize") :
          /\ a < updates[u].started /\ events[a] = updates[u].authority
          /\ events[a].group = updates[u].group
          /\ \A j \in Of("authorize") : events[j].group = updates[u].group /\ j < updates[u].started => j <= a
  BY DEF OracleInv, UpdateInv, TrainedWell
<1>2. a \in T /\ \A j \in T : j <= a
  BY <1>1
<1>3. T \subseteq Nat
  BY DEF Of
<1>4. Max(T) = a
  BY <1>2, <1>3, MaxIs
<1> HIDE DEF T
<1>5. Authorized(u) <=> events[Max(T)].attempt = updates[u].attempt /\ events[Max(T)].epoch = updates[u].epoch
  BY DEF Authorized, T
<1> QED
  BY <1>1, <1>4, <1>5

(* The updates of the walk, up to s: those in the weights that the oracle looks for *)
LEMMA RetainedFits ==
    ASSUME OracleInv, final \in StateIds, Walk(final), \A s \in Lineage(final) : Sound(s), NEW s \in Lineage(final)
    PROVE  /\ Inc(RetainedTo[s])
           /\ ToSet(RetainedTo[s]) = {u \in ToSet(content[s]) : Seen(u)}
           /\ \A u \in ToSet(RetainedTo[s]) : Clean(u)
<1> DEFINE Fits(x) == /\ Inc(RetainedTo[x])
                      /\ ToSet(RetainedTo[x]) = {u \in ToSet(content[x]) : Seen(u)}
                      /\ \A u \in ToSet(RetainedTo[x]) : Clean(u)
           Bad == {x \in Lineage(final) : ~Fits(x)}
<1>1. Lineage(final) \subseteq StateIds /\ StateIds \subseteq Nat /\ First \in StateIds
  BY LineageFits, Types DEF OracleInv, Typed, StateIds, First
<1>2. Bad = {}
  <2>1. SUFFICES ASSUME Bad # {} PROVE FALSE
    OBVIOUS
  <2>2. Bad \subseteq Nat
    BY <1>1
  <2>3. PICK x \in Bad : \A y \in Bad : ~(y < x)
    BY <2>1, <2>2, NatLeast
  <2>4. x \in Lineage(final) /\ x \in StateIds /\ ~Fits(x) /\ x \in Nat
    BY <1>1, <2>3
  <2>5. CASE x = First
    <3>1. PICK q : q = RetainedTo[x]
      OBVIOUS
    <3>2. q = <<>> /\ content[x] = <<>>
      BY <1>1, <2>5, <3>1, RetainedIs DEF OracleInv, ContentInv, Holds
    <3>3. Inc(q) /\ ToSet(q) = {}
      BY <3>2 DEF Inc, ToSet
    <3>4. Fits(x)
      BY <3>1, <3>2, <3>3
    <3> QED
      BY <2>4, <3>4
  <2>6. CASE x # First
    <3>1. PICK p : p = states[x].parent
      OBVIOUS
    <3>2. p \in Lineage(final) /\ p < x /\ p \in StateIds /\ p \in Nat
      BY <1>1, <2>4, <2>6, <3>1, WalkSegment
    <3>3. Fits(p)
      BY <2>3, <3>2
    <3>4. PICK b : Segment(x, b)
      BY <2>4, <2>6, WalkSegment
    <3>5. PICK h : h = states[x].scheduled
      OBVIOUS
    <3>6. PICK lo : lo = Lower(x)
      OBVIOUS
    <3>7. /\ ToSet(content[x]) = ToSet(content[p]) \union Done(b, h) /\ b \in Nat /\ h \in Nat /\ lo \in Nat
          /\ states[p].scheduled <= b /\ b <= lo /\ states[p].stored <= lo
          /\ b < lo => p # First /\ b = states[p].scheduled /\ lo = states[p].stored
      BY <2>4, <2>6, <3>1, <3>4, <3>5, <3>6, LowerIs, SaveLoadIs DEF Segment, Parent
    <3>8. PICK q : q = RetainedTo[p]
      OBVIOUS
    <3>9. PICK r : r = states[x].updates
      OBVIOUS
    <3>10. RetainedTo[x] = q \o r
      BY <2>4, <2>6, <3>1, <3>8, <3>9, RetainedIs
    <3>11. KeepsParent(x) /\ Performed(x) = r /\ \A u \in ToSet(r) : KeepsUpdate(x, u)
      BY <2>4, <2>6, <3>9 DEF Sound
    <3>12. Inc(r) /\ ToSet(r) = Done(lo, h)
      <4>1. events[SaveLoad(x)].epoch = states[x].epoch
        BY <3>11 DEF KeepsParent
      <4> QED
        BY <2>4, <2>6, <3>5, <3>6, <3>11, <4>1, PerformedIs
    <3>13. Inc(q) /\ ToSet(q) = {u \in ToSet(content[p]) : Seen(u)} /\ \A u \in ToSet(q) : Clean(u)
      BY <3>3, <3>8
    <3>14. ASSUME NEW u \in ToSet(q), NEW v \in ToSet(r) PROVE u < v
      <4>1. /\ u \in UpdateIds /\ updates[u].ended \in Nat /\ updates[u].ended <= states[p].scheduled
            /\ updates[u].successful
        BY <3>2, <3>13, <3>14, ContentFits
      <4>2. v \in UpdateIds /\ updates[v].ended \in Nat /\ lo < updates[v].ended
        BY <3>12, <3>14, Types DEF OracleInv, Done
      <4>3. states[p].scheduled \in Nat
        BY <3>2, Types DEF OracleInv
      <4>4. updates[u].ended < updates[v].ended
        BY <3>7, <4>1, <4>2, <4>3
      <4>5. updates[u].ended # 0
        BY <4>1 DEF OracleInv, UpdateInv, TrainedWell
      <4> QED
        BY <4>1, <4>2, <4>4, <4>5, EndOrder
    <3>15. Inc(q \o r) /\ ToSet(q \o r) = ToSet(q) \union ToSet(r)
      BY <3>12, <3>13, <3>14, IncConcat
    <3>16. ASSUME NEW u \in Done(b, h) PROVE Seen(u) <=> u \in Done(lo, h)
      <4>1. u \in UpdateIds /\ updates[u].successful /\ updates[u].ended \in Nat
            /\ b < updates[u].ended /\ updates[u].ended <= h
        BY <3>16, Types DEF OracleInv, Done
      <4>2. CASE updates[u].ended <= lo
        <5>1. p # First /\ b = states[p].scheduled /\ lo = states[p].stored
          BY <3>7, <4>1, <4>2
        <5>2. p \in ToSet(Chain[final]) \ {First}
          BY <3>2, <5>1 DEF Lineage
        <5>3. ~Seen(u)
          BY <4>1, <4>2, <5>1, <5>2 DEF Seen
        <5>4. u \notin Done(lo, h)
          BY <3>7, <4>1, <4>2 DEF Done
        <5> QED
          BY <5>3, <5>4
      <4>3. CASE ~(updates[u].ended <= lo)
        <5>1. u \in Done(lo, h)
          BY <3>7, <4>1, <4>3 DEF Done
        <5>2. ASSUME NEW t \in Lineage(final)
              PROVE  ~(states[t].scheduled < updates[u].ended /\ updates[u].ended <= states[t].stored)
          <6>1. t \in StateIds /\ t \in Nat /\ states[t].scheduled \in Nat /\ states[t].stored \in Nat
            BY <1>1, <5>2, Types DEF OracleInv
          <6>2. t <= p \/ t >= x
            BY <2>4, <2>6, <3>1, <5>2, LineageFits
          <6>3. CASE t <= p
            <7>1. states[p].scheduled \in Nat /\ states[p].stored \in Nat /\ states[p].stored # 0
              BY <3>2, Types DEF OracleInv, Walk
            <7>2. states[p].scheduled <= states[p].stored
              BY <3>2, <7>1 DEF OracleInv, SaveInv, SaveFits
            <7>3. t # p => states[t].stored < states[p].scheduled
              BY <3>2, <6>1, <6>3, SaveOrder
            <7>4. states[t].stored <= lo
              BY <3>7, <6>1, <7>1, <7>2, <7>3
            <7> QED
              BY <3>7, <4>1, <4>3, <6>1, <7>4
          <6>4. CASE t >= x
            <7>1. t # x => h < states[t].scheduled
              BY <2>4, <3>5, <6>1, <6>4, SaveOrder
            <7> QED
              BY <3>5, <3>7, <4>1, <6>1, <7>1
          <6> QED
            BY <6>2, <6>3, <6>4
        <5>3. Seen(u)
          BY <5>2 DEF Seen, Lineage
        <5> QED
          BY <5>1, <5>3
      <4> QED
        BY <4>2, <4>3
    <3>17. Done(lo, h) \subseteq Done(b, h)
      <4>1. \A u \in UpdateIds : updates[u].ended \in Nat
        BY Types DEF OracleInv
      <4> QED
        BY <3>7, <4>1 DEF Done
    <3>18. ToSet(q \o r) = {u \in ToSet(content[x]) : Seen(u)}
      BY <3>7, <3>12, <3>13, <3>15, <3>16, <3>17
    <3>19. ASSUME NEW u \in ToSet(r) PROVE Clean(u)
      <4>1. KeepsUpdate(x, u) /\ u \in UpdateIds
        BY <3>11, <3>12, <3>19 DEF Done
      <4>2. Authorized(u) /\ updates[u].admitted
        BY <4>1 DEF KeepsUpdate
      <4> QED
        BY <4>1, <4>2, AuthorizedIs DEF Clean
    <3>20. Fits(x)
      BY <3>10, <3>13, <3>15, <3>18, <3>19
    <3> QED
      BY <2>4, <3>20
  <2> QED
    BY <2>5, <2>6
<1>3. Fits(s)
  BY <1>2
<1> QED
  BY <1>3

(* What passes is a walk in which everything is sound. *)
LEMMA PassesIs ==
    ASSUME OracleInv, final # Nil, Passes
    PROVE  final \in StateIds /\ Walk(final) /\ \A s \in Lineage(final) : Sound(s)
<1>1. final \in StateIds
  BY DEF OracleInv, FinalInv
<1>2. \A s \in Lineage(final) : Sound(s) /\ states[s].stored # 0
  BY DEF Passes, Verifiable, Accounted, Lineage
<1> QED
  BY <1>1, <1>2 DEF Walk, Sound

LEMMA PassTrue ==
    ASSUME OracleInv
    PROVE  PassIsTrue
<1> SUFFICES ASSUME final # Nil, Passes
             PROVE  /\ Retained = Kept(content[final], {u \in UpdateIds : Seen(u)})
                    /\ OncePerGroup(Retained)
                    /\ \A u \in ToSet(Retained) : Clean(u)
  BY DEF PassIsTrue
<1>1. final \in StateIds /\ Walk(final) /\ \A s \in Lineage(final) : Sound(s)
  BY PassesIs
<1>2. final \in Lineage(final)
  BY <1>1, LineageFits
<1>3. Inc(Retained) /\ ToSet(Retained) = {u \in ToSet(content[final]) : Seen(u)}
      /\ \A u \in ToSet(Retained) : Clean(u)
  BY <1>1, <1>2, RetainedFits DEF Retained
<1>4. PICK S : S = {u \in UpdateIds : Seen(u)}
  OBVIOUS
<1>5. Inc(content[final]) /\ \A u \in ToSet(content[final]) : u \in UpdateIds
  BY <1>1, ContentFits
<1>6. Inc(Kept(content[final], S)) /\ ToSet(Kept(content[final], S)) = ToSet(content[final]) \intersect S
  BY <1>5, KeptIs
<1>7. ToSet(Retained) = ToSet(Kept(content[final], S))
  BY <1>3, <1>4, <1>5, <1>6
<1>8. Retained = Kept(content[final], S)
  BY <1>3, <1>6, <1>7, IncUnique
<1>9. OncePerGroup(Retained)
  BY DEF Passes
<1> QED
  BY <1>3, <1>4, <1>8, <1>9

-----------------------------------------------------------------------------
(* What happened as it should, truly told, is passed.                         *)

LEMMA TrueSaveIs ==
    ASSUME OracleInv, lies = 0, NEW s \in StateIds, s # First
    PROVE  TrueSave(s, SaveLoad(s))
BY SaveLoadIs DEF OracleInv, TruthInv

LEMMA KeepsParentTruly ==
    ASSUME OracleInv, lies = 0, NEW s \in StateIds, s # First
    PROVE  /\ KeepsParent(s)
           /\ events[SaveLoad(s)].state # states[s].parent =>
                 states[s].parent # First /\ SaveLoad(states[s].parent) = SaveLoad(s)
<1>1. PICK p : p = states[s].parent
  OBVIOUS
<1>2. p \in StateIds /\ p < s
  BY <1>1, ParentIs
<1>3. PICK l : l = SaveLoad(s)
  OBVIOUS
<1>4. l \in Loads /\ l \in Nat /\ l > 0 /\ Under(l, states[s].scheduled) /\ Loads \subseteq Nat
  BY <1>3, SaveLoadIs, Types DEF OracleInv
<1>5. TrueSave(s, l)
  BY <1>3, TrueSaveIs
<1>6. /\ states[p].stored < states[s].scheduled /\ states[p].scheduled < states[s].scheduled
      /\ states[p].scheduled \in Nat /\ states[s].scheduled \in Nat
  BY <1>2, SaveOrder
<1>7. events[l].epoch = states[s].epoch
  BY <1>5 DEF TrueSave
<1>8. CASE events[l].state = p
  <2>1. l > states[p].stored
    BY <1>2, <1>4, <1>8, Types DEF OracleInv, LoadInv
  <2> QED
    BY <1>1, <1>3, <1>6, <1>7, <1>8, <2>1 DEF KeepsParent, Parent
<1>9. CASE events[l].state # p
  <2>1. l < states[p].scheduled
    BY <1>1, <1>5, <1>9 DEF TrueSave
  <2>2. p # First
    <3>1. SUFFICES ASSUME p = First PROVE FALSE
      OBVIOUS
    <3>2. states[p].scheduled = 1
      BY <1>2, <3>1 DEF OracleInv, SaveInv, SaveFits
    <3> QED
      BY <1>4, <2>1, <3>2
  <2>3. Under(l, states[p].scheduled)
    <3>1. ASSUME NEW j \in Loads, j < states[p].scheduled PROVE j <= l
      <4>1. j \in Nat /\ j < states[s].scheduled
        BY <1>4, <1>6, <3>1
      <4> QED
        BY <1>4, <4>1 DEF Under
    <3> QED
      BY <1>4, <2>1, <3>1 DEF Under
  <2>4. SaveLoad(p) = l
    BY <1>4, <2>3, LoadBeforeIs DEF OracleInv, SaveLoad
  <2> QED
    BY <1>1, <1>3, <1>6, <1>7, <1>9, <2>2, <2>4 DEF KeepsParent, Parent
<1> QED
  BY <1>8, <1>9

(* The trainer that made a save had loaded a state its parent descends from. *)
LEMMA LoadedOnLineage ==
    ASSUME OracleInv, lies = 0, NEW s \in StateIds, s # First
    PROVE  events[SaveLoad(s)].state \in Lineage(states[s].parent)
<1> DEFINE Bad == {x \in StateIds : x # First /\ events[SaveLoad(x)].state \notin Lineage(states[x].parent)}
<1>1. Bad = {}
  <2>1. SUFFICES ASSUME Bad # {} PROVE FALSE
    OBVIOUS
  <2>2. Bad \subseteq Nat
    BY DEF StateIds
  <2>3. PICK x \in Bad : \A y \in Bad : ~(y < x)
    BY <2>1, <2>2, NatLeast
  <2>4. x \in StateIds /\ x # First /\ events[SaveLoad(x)].state \notin Lineage(states[x].parent)
    BY <2>3
  <2>5. PICK p : p = states[x].parent
    OBVIOUS
  <2>6. p \in StateIds /\ p < x
    BY <2>4, <2>5, ParentIs
  <2>7. p \in Lineage(p)
    BY <2>6, LineageFits
  <2>8. events[SaveLoad(x)].state # p
    BY <2>4, <2>5, <2>7
  <2>9. p # First /\ SaveLoad(p) = SaveLoad(x)
    BY <2>4, <2>5, <2>8, KeepsParentTruly
  <2>10. p \notin Bad
    BY <2>3, <2>6
  <2>11. events[SaveLoad(p)].state \in Lineage(states[p].parent)
    BY <2>6, <2>9, <2>10
  <2>12. Lineage(p) = Lineage(states[p].parent) \union {p}
    BY <2>6, <2>9, LineageIs
  <2> QED
    BY <2>4, <2>5, <2>9, <2>11, <2>12
<1> QED
  BY <1>1

LEMMA WalksTruly ==
    ASSUME OracleInv, lies = 0, final # Nil
    PROVE  final \in StateIds /\ Walk(final)
<1> DEFINE Backed(x) == states[x].stored # 0 => \A t \in Lineage(x) : states[t].stored # 0
           Bad == {x \in StateIds : ~Backed(x)}
<1>1. final \in StateIds /\ states[final].stored # 0
  BY DEF OracleInv, FinalInv
<1>2. Bad = {}
  <2>1. SUFFICES ASSUME Bad # {} PROVE FALSE
    OBVIOUS
  <2>2. Bad \subseteq Nat
    BY DEF StateIds
  <2>3. PICK x \in Bad : \A y \in Bad : ~(y < x)
    BY <2>1, <2>2, NatLeast
  <2>4. x \in StateIds /\ ~Backed(x)
    BY <2>3
  <2>5. CASE x = First
    BY <2>4, <2>5, LineageIs
  <2>6. CASE x # First
    <3>1. PICK p : p = states[x].parent
      OBVIOUS
    <3>2. p \in StateIds /\ p < x
      BY <2>4, <2>6, <3>1, ParentIs
    <3>3. states[p].stored # 0
      BY <2>4, <2>6, <3>1, TrueSaveIs DEF TrueSave
    <3>4. p \notin Bad
      BY <2>3, <3>2
    <3>5. \A t \in Lineage(p) : states[t].stored # 0
      BY <3>2, <3>3, <3>4
    <3>6. Lineage(x) = Lineage(p) \union {x}
      BY <2>4, <2>6, <3>1, LineageIs
    <3> QED
      BY <2>4, <3>5, <3>6
  <2> QED
    BY <2>5, <2>6
<1>3. \A t \in Lineage(final) : states[t].stored # 0
  BY <1>1, <1>2
<1>4. \A t \in Lineage(final) : t # First => KeepsParent(t)
  BY <1>1, LineageFits, KeepsParentTruly
<1> QED
  BY <1>1, <1>3, <1>4 DEF Walk

(* An update that is apart from the saves did not end while one was stored. *)
LEMMA ApartIs ==
    ASSUME OracleInv, NEW u \in UpdateIds, updates[u].apart, updates[u].ended # 0,
           NEW s \in StateIds, states[s].scheduled < updates[u].ended
    PROVE  states[s].stored < updates[u].started /\ updates[u].started < updates[u].ended
<1>1. /\ updates[u].ended \in Nat /\ updates[u].started \in Nat
      /\ states[s].scheduled \in Nat /\ states[s].stored \in Nat
  BY Types DEF OracleInv
<1>2. \/ updates[u].ended # 0 /\ updates[u].ended < states[s].scheduled
      \/ states[s].stored < updates[u].started /\ pending # s
      \/ updates[u].ended = 0 /\ running # u
  BY DEF OracleInv, ApartInv
<1>3. updates[u].started < updates[u].ended
  BY DEF OracleInv, UpdateInv, TrainedWell
<1> QED
  BY <1>1, <1>2, <1>3

LEMMA SoundTruly ==
    ASSUME OracleInv, lies = 0, final # Nil, NEW s \in Lineage(final), s # First,
           \A u \in ToSet(content[final]) : Clean(u) /\ updates[u].apart
    PROVE  Sound(s)
<1>1. final \in StateIds /\ Walk(final) /\ s \in StateIds
  BY WalksTruly, LineageFits
<1>2. PICK p : p = states[s].parent
  OBVIOUS
<1>3. p \in StateIds /\ p < s /\ states[p].stored # 0 /\ p \in Lineage(final)
  <2>1. p \in StateIds /\ p < s
    BY <1>1, <1>2, ParentIs
  <2>2. p \in Lineage(final)
    BY <1>1, <1>2, LineageFits
  <2> QED
    BY <1>1, <2>1, <2>2 DEF Walk
<1>4. PICK l : l = SaveLoad(s)
  OBVIOUS
<1>5. PICK h : h = states[s].scheduled
  OBVIOUS
<1>6. PICK b : b = TrueBase(s, l)
  OBVIOUS
<1>7. PICK lo : lo = Lower(s)
  OBVIOUS
<1>8. l \in Loads /\ l \in Nat /\ h \in Nat /\ Under(l, h) /\ l <= lo /\ lo \in Nat /\ states[p].stored <= lo
  BY <1>1, <1>2, <1>4, <1>5, <1>7, SaveLoadIs, LowerIs DEF Parent
<1>9. /\ ToSet(content[s]) = ToSet(content[p]) \union Done(b, h) /\ b \in Nat /\ b <= lo
      /\ b < lo => p # First /\ b = states[p].scheduled /\ lo = states[p].stored
  BY <1>1, <1>2, <1>4, <1>5, <1>6, <1>7, WalkSegment DEF Segment, Parent
<1>10. TrueSave(s, l)
  BY <1>1, <1>4, TrueSaveIs
<1>11. KeepsParent(s)
  BY <1>1, KeepsParentTruly
<1>12. ASSUME NEW u \in Done(b, h)
       PROVE  /\ u \in UpdateIds /\ updates[u].ended \in Nat /\ updates[u].ended # 0 /\ updates[u].successful
              /\ updates[u].ended <= h /\ b < updates[u].ended /\ Clean(u) /\ updates[u].apart
  <2>1. u \in ToSet(content[s])
    BY <1>9
  <2>2. final \in Lineage(final) /\ ToSet(content[s]) \subseteq ToSet(content[final])
    <3>1. final \in Lineage(final)
      BY <1>1, LineageFits
    <3>2. ToSet(content[s]) = {v \in ToSet(content[final]) : updates[v].ended <= states[s].scheduled}
      BY <1>1, <3>1, CutIs
    <3> QED
      BY <3>1, <3>2
  <2>3. Clean(u) /\ updates[u].apart
    BY <2>1, <2>2
  <2>4. u \in UpdateIds /\ updates[u].ended \in Nat /\ updates[u].successful
        /\ updates[u].ended <= h /\ b < updates[u].ended
    BY <1>12, Types DEF OracleInv, Done
  <2> QED
    BY <1>9, <2>3, <2>4
<1>13. Done(b, h) = Done(lo, h)
  <2>1. ASSUME NEW u \in Done(b, h) PROVE u \in Done(lo, h)
    <3>1. CASE updates[u].ended <= lo
      <4>1. b < lo
        BY <1>8, <1>9, <1>12, <2>1, <3>1
      <4>2. b = states[p].scheduled /\ lo = states[p].stored
        BY <1>9, <4>1
      <4>3. states[p].stored < updates[u].started /\ updates[u].started < updates[u].ended
        BY <1>3, <1>12, <2>1, <4>2, ApartIs
      <4>4. updates[u].started \in Nat
        BY <1>12, <2>1, Types DEF OracleInv
      <4> QED
        BY <1>8, <1>12, <2>1, <3>1, <4>2, <4>3, <4>4
    <3>2. CASE ~(updates[u].ended <= lo)
      BY <1>8, <1>12, <2>1, <3>2 DEF Done
    <3> QED
      BY <3>1, <3>2
  <2>2. ASSUME NEW u \in Done(lo, h) PROVE u \in Done(b, h)
    <3>1. u \in UpdateIds /\ updates[u].ended \in Nat /\ lo < updates[u].ended
      BY <2>2, Types DEF OracleInv, Done
    <3> QED
      BY <1>8, <1>9, <2>2, <3>1 DEF Done
  <2> QED
    BY <2>1, <2>2
<1>14. Inc(states[s].updates) /\ ToSet(states[s].updates) = Done(b, h)
  BY <1>5, <1>6, <1>10 DEF TrueSave
<1>15. Performed(s) = states[s].updates
  <2>1. events[SaveLoad(s)].epoch = states[s].epoch
    BY <1>11 DEF KeepsParent
  <2>2. Inc(Performed(s)) /\ ToSet(Performed(s)) = Done(lo, h)
    BY <1>1, <1>5, <1>7, <2>1, PerformedIs
  <2> QED
    BY <1>13, <1>14, <2>2, IncUnique
<1>16. ASSUME NEW u \in ToSet(states[s].updates) PROVE KeepsUpdate(s, u)
  <2>1. u \in Done(b, h) /\ u \in Done(lo, h)
    BY <1>13, <1>14, <1>16
  <2>2. /\ u \in UpdateIds /\ updates[u].ended \in Nat /\ updates[u].ended # 0 /\ updates[u].successful
        /\ updates[u].ended <= h /\ lo < updates[u].ended /\ Clean(u) /\ updates[u].apart
    BY <1>12, <2>1 DEF Done
  <2>3. l < updates[u].ended
    BY <1>8, <2>2
  <2>4. Under(l, updates[u].started) /\ BeginLoad(u) = l
    BY <1>8, <2>2, <2>3, BegunUnder
  <2>5. events[l].epoch = updates[u].epoch
    BY <1>8, <2>2, <2>4 DEF OracleInv, UpdateInv, TrainedWell
  <2>6. events[l].epoch = states[s].epoch
    BY <1>4, <1>11 DEF KeepsParent
  <2>7. events[l].state = updates[u].loaded
    BY <1>8, <2>2, <2>4 DEF OracleInv, TruthInv
  <2>8. updates[u].loaded \in Ancestors(s)
    BY <1>1, <1>4, <2>7, LoadedOnLineage DEF Lineage, Ancestors
  <2>9. Authorized(u) /\ updates[u].admitted
    BY <2>2, AuthorizedIs DEF Clean
  <2>10. updates[u].started > states[p].stored
    <3>1. updates[u].started \in Nat /\ states[p].stored \in Nat /\ states[p].scheduled \in Nat
      BY <1>3, <2>2, Types DEF OracleInv
    <3>2. states[p].scheduled <= states[p].stored
      BY <1>3, <3>1 DEF OracleInv, SaveInv, SaveFits
    <3>3. states[p].scheduled < updates[u].ended
      BY <1>8, <2>2, <3>1, <3>2
    <3>4. states[p].stored < updates[u].started
      BY <1>3, <2>2, <3>3, ApartIs
    <3> QED
      BY <3>1, <3>4
  <2> QED
    BY <1>2, <1>4, <2>2, <2>4, <2>5, <2>6, <2>7, <2>8, <2>9, <2>10 DEF KeepsUpdate, Parent
<1>17. Consumes(s)
  <2>1. states[s].consumed = GroupsOf(content[s])
    BY <1>10 DEF TrueSave
  <2>2. states[p].consumed = GroupsOf(content[p])
    <3>1. CASE p = First
      <4>1. states[p].consumed = {} /\ content[p] = <<>>
        BY <1>3, <3>1 DEF OracleInv, SaveInv, SaveFits, ContentInv, Holds
      <4>2. PICK q : q = content[p]
        OBVIOUS
      <4>3. ToSet(q) = {}
        BY <4>1, <4>2 DEF ToSet
      <4> QED
        BY <4>1, <4>2, <4>3 DEF GroupsOf
    <3>2. CASE p # First
      BY <1>3, <3>2, TrueSaveIs DEF TrueSave
    <3> QED
      BY <3>1, <3>2
  <2>3. ToSet(content[s]) = ToSet(content[p]) \union ToSet(states[s].updates)
    BY <1>9, <1>14
  <2>4. GroupsOf(content[s]) = GroupsOf(content[p]) \union GroupsOf(states[s].updates)
    BY <2>3 DEF GroupsOf
  <2> QED
    BY <1>2, <2>1, <2>2, <2>4 DEF Consumes, Parent
<1> QED
  BY <1>11, <1>15, <1>16, <1>17 DEF Sound

LEMMA TruthPassed ==
    ASSUME OracleInv
    PROVE  TruthPasses
<1> SUFFICES ASSUME final # Nil, lies = 0, states[final].stored > LoadBefore(Now + 1),
                    OncePerGroup(content[final]),
                    \A u \in ToSet(content[final]) : Clean(u) /\ updates[u].apart
             PROVE  Passes
  BY DEF TruthPasses
<1>1. final \in StateIds /\ Walk(final) /\ Lineage(final) \subseteq StateIds /\ final \in Lineage(final)
  BY WalksTruly, LineageFits
<1>2. \A s \in Lineage(final) : Sound(s)
  BY SoundTruly DEF Sound
<1>3. ASSUME NEW s \in Lineage(final) PROVE Accounted(s)
  <2>1. s \in StateIds /\ states[s].stored # 0
    BY <1>1 DEF Walk
  <2>2. ASSUME s # First, NEW u \in ToSet(states[s].updates)
        PROVE  updates[u].ended # 0 /\ updates[u].ended <= states[s].scheduled
    <3>1. u \in Done(TrueBase(s, SaveLoad(s)), states[s].scheduled)
      BY <2>1, <2>2, TrueSaveIs DEF TrueSave
    <3>2. u \in UpdateIds /\ updates[u].successful /\ updates[u].ended <= states[s].scheduled
      BY <3>1 DEF Done
    <3> QED
      BY <3>2 DEF OracleInv, UpdateInv, TrainedWell
  <2> QED
    BY <2>1, <2>2 DEF Accounted
<1>4. PICK l : l = LoadBefore(Now + 1)
  OBVIOUS
<1>5. l \in Loads /\ Under(l, Now + 1) /\ l \in Nat /\ l > 0 /\ Loads \subseteq 1 .. Now /\ Now \in Nat
      /\ events[l].type = "checkpoint_loaded"
  <2>1. Typed /\ Now \in Nat /\ Now + 1 \in Nat /\ Now + 1 > 2 /\ Loads \subseteq 1 .. Now
    BY Types DEF OracleInv, Typed
  <2>2. PICK m \in Loads : Under(m, Now + 1)
    BY <2>1, LastLoad
  <2>3. LoadBefore(Now + 1) = m
    BY <2>1, <2>2, LoadBeforeIs
  <2>4. l = m
    BY <1>4, <2>3
  <2> QED
    BY <2>1, <2>2, <2>4 DEF Loads, Of
<1>6. states[final].stored \in Nat /\ states[final].scheduled \in Nat /\ l < states[final].stored
  BY <1>1, <1>4, <1>5, Types DEF OracleInv
<1>7. final # First
  <2>1. SUFFICES ASSUME final = First PROVE FALSE
    OBVIOUS
  <2>2. states[final].stored = 1
    BY <1>1, <2>1 DEF OracleInv, SaveInv, SaveFits
  <2> QED
    BY <1>5, <1>6, <2>2
<1>8. SaveLoad(final) = l
  <2>1. /\ states[final].scheduled <= Now /\ events[states[final].scheduled].type = "checkpoint_schedule"
        /\ ~(states[final].scheduled < l)
    BY <1>1, <1>5, <1>6, <1>7 DEF OracleInv, SaveInv, SaveFits
  <2>2. l # states[final].scheduled
    BY <1>5, <2>1
  <2>3. l < states[final].scheduled
    BY <1>5, <1>6, <2>1, <2>2
  <2>4. ASSUME NEW j \in Loads PROVE j <= l
    <3>1. j < Now + 1
      BY <1>5
    <3> QED
      BY <1>5, <3>1 DEF Under
  <2>5. Under(l, states[final].scheduled)
    BY <1>5, <2>3, <2>4 DEF Under
  <2> QED
    BY <1>5, <2>5, LoadBeforeIs DEF OracleInv, SaveLoad
<1>9. events[l].state \in Lineage(final)
  <2>1. events[l].state \in Lineage(states[final].parent)
    BY <1>1, <1>7, <1>8, LoadedOnLineage
  <2>2. Lineage(final) = Lineage(states[final].parent) \union {final}
    BY <1>1, <1>7, LineageIs
  <2> QED
    BY <2>1, <2>2
<1>10. Verifiable
  <2>1. l <= states[final].stored
    BY <1>5, <1>6
  <2> QED
    BY <1>3, <1>4, <1>9, <2>1 DEF Verifiable, Lineage
<1>11. Retained = content[final]
  <2>1. Inc(Retained) /\ ToSet(Retained) = {u \in ToSet(content[final]) : Seen(u)}
    BY <1>1, <1>2, RetainedFits DEF Retained
  <2>2. ASSUME NEW u \in ToSet(content[final]) PROVE Seen(u)
    <3>1. u \in UpdateIds /\ updates[u].apart /\ updates[u].ended # 0 /\ updates[u].ended \in Nat
      BY <1>1, <2>2, ContentFits DEF OracleInv, UpdateInv, TrainedWell
    <3>2. ASSUME NEW s \in Lineage(final)
          PROVE  ~(states[s].scheduled < updates[u].ended /\ updates[u].ended <= states[s].stored)
      <4>1. s \in StateIds /\ states[s].stored \in Nat /\ updates[u].started \in Nat
        BY <1>1, <3>1, Types DEF OracleInv
      <4>2. states[s].scheduled < updates[u].ended =>
               states[s].stored < updates[u].started /\ updates[u].started < updates[u].ended
        BY <3>1, <4>1, ApartIs
      <4> QED
        BY <3>1, <4>1, <4>2
    <3> QED
      BY <3>2 DEF Seen, Lineage
  <2>3. ToSet(Retained) = ToSet(content[final])
    BY <2>1, <2>2
  <2>4. Inc(content[final])
    BY <1>1, ContentFits
  <2> QED
    BY <2>1, <2>3, <2>4, IncUnique
<1> QED
  BY <1>2, <1>10, <1>11 DEF Passes, Lineage

-----------------------------------------------------------------------------
(* When the run had recovered                                                 *)

RoleLog == Of("fault_observed") \cup Of("role_down") \cup Of("role_ready")

(* The role is ready when it was the last thing that was said of it. *)
LEMMA ReadyIs ==
    ASSUME Now \in Nat, NEW i \in Nat, NEW r \in RoleLog, r <= i, \A j \in RoleLog : j <= i => j <= r
    PROVE  Ready(i) <=> r \in Of("role_ready")
<1> DEFINE T == {j \in Of("fault_observed") \cup Of("role_down") \cup Of("role_ready") : j <= i}
<1>1. r \in T /\ \A j \in T : j <= r
  BY DEF RoleLog
<1>2. T \subseteq Nat
  BY DEF Of
<1>3. Max(T) = r
  BY <1>1, <1>2, MaxIs
<1> HIDE DEF T
<1>4. Ready(i) <=> Max(T) \in Of("role_ready")
  BY DEF Ready, T
<1> QED
  BY <1>3, <1>4

LEMMA FaultIs ==
    ASSUME OracleInv, final # Nil
    PROVE  Fault0 \in Faults /\ Fault0 \in 1 .. Now /\ Fault0 \in RoleLog /\ Fault0 + 1 \in Loads
<1>1. Faults # {}
  BY DEF OracleInv, FinalInv
<1>2. Fault0 \in Faults
  BY <1>1 DEF Fault0
<1> QED
  BY <1>2 DEF OracleInv, FaultInv, RoleLog, Faults, Of

(* A state of the line is the final one, without what ended later. *)
LEMMA LineagePrefix ==
    ASSUME OracleInv, final \in StateIds, Walk(final), NEW s \in Lineage(final)
    PROVE  IsPrefix(content[s], content[final])
<1>1. s \in StateIds /\ final \in Lineage(final)
  BY LineageFits
<1>2. PICK q : q = content[s]
  OBVIOUS
<1>3. PICK c : c = content[final]
  OBVIOUS
<1>4. Inc(q) /\ Inc(c) /\ ToSet(q) = {u \in ToSet(c) : updates[u].ended <= states[s].scheduled}
  BY <1>1, <1>2, <1>3, ContentFits, CutIs
<1>5. ASSUME NEW x \in ToSet(q), NEW y \in ToSet(c), y < x PROVE y \in ToSet(q)
  <2>1. x \in UpdateIds /\ y \in UpdateIds /\ updates[x].ended <= states[s].scheduled /\ updates[x].successful
    BY <1>1, <1>2, <1>3, <1>5, ContentFits
  <2>2. /\ updates[x].started \in Nat /\ updates[x].ended \in Nat /\ updates[y].ended \in Nat
        /\ states[s].scheduled \in Nat
    BY <1>1, <2>1, Types DEF OracleInv
  <2>3. updates[y].ended < updates[x].started
    BY <1>5, <2>1 DEF OracleInv, TurnInv
  <2>4. updates[x].started < updates[x].ended
    BY <2>1 DEF OracleInv, UpdateInv, TrainedWell
  <2> QED
    BY <1>4, <2>1, <2>2, <2>3, <2>4
<1>6. IsPrefix(q, c)
  BY <1>4, <1>5, PrefixIs
<1> QED
  BY <1>2, <1>3, <1>6

(* A commit the audit counts holds what it says, trained after the fault. *)
LEMMA CommitHolds ==
    ASSUME OracleInv, final # Nil, Passes, NEW s \in Lineage(final), s # First, states[s].stored >= Fault0,
           NEW u \in ToSet(states[s].updates)
    PROVE  u \in ToSet(content[s]) /\ updates[u].ended > Fault0
<1>1. final \in StateIds /\ Walk(final) /\ Sound(s) /\ s \in StateIds
  BY PassesIs, LineageFits
<1>2. PICK l : l = SaveLoad(s)
  OBVIOUS
<1>3. PICK h : h = states[s].scheduled
  OBVIOUS
<1>4. l \in Loads /\ l \in Nat /\ h \in Nat /\ Under(l, h) /\ l <= Lower(s) /\ Lower(s) \in Nat
  BY <1>1, <1>2, <1>3, SaveLoadIs, LowerIs
<1>5. u \in Done(Lower(s), h)
  <2>1. KeepsParent(s) /\ Performed(s) = states[s].updates
    BY <1>1 DEF Sound
  <2>2. events[SaveLoad(s)].epoch = states[s].epoch
    BY <2>1 DEF KeepsParent
  <2>3. ToSet(Performed(s)) = Done(Lower(s), h)
    BY <1>1, <1>3, <2>2, PerformedIs
  <2> QED
    BY <2>1, <2>3
<1>6. u \in UpdateIds /\ updates[u].successful /\ updates[u].ended \in Nat /\ Lower(s) < updates[u].ended
      /\ updates[u].ended <= h
  BY <1>5, Types DEF OracleInv, Done
<1>7. u \in ToSet(content[s])
  <2>1. u \in Done(l, h)
    BY <1>4, <1>6 DEF Done
  <2>2. Holds(s)
    BY <1>1 DEF OracleInv, ContentInv
  <2> QED
    BY <1>3, <1>4, <2>1, <2>2 DEF Holds
<1>8. PICK f : f = Fault0
  OBVIOUS
<1>9. f \in Nat /\ f + 1 \in Loads /\ events[f].type = "fault_observed" /\ events[f + 1].type = "checkpoint_loaded"
  <2>1. f \in 1 .. Now /\ f \in Faults /\ f + 1 \in Loads /\ Now \in Nat
    BY <1>8, FaultIs, Types DEF OracleInv
  <2> QED
    BY <2>1 DEF Faults, Loads, Of
<1>10. /\ states[s].stored \in Nat /\ states[s].stored # 0 /\ h < states[s].stored
       /\ events[states[s].stored].type = "checkpoint_persisted" /\ events[h].type = "checkpoint_schedule"
       /\ ~(h < f + 1 /\ f + 1 < states[s].stored)
  <2>1. states[s].stored # 0 /\ states[s].stored \in Nat
    BY <1>1, Types DEF OracleInv, Walk
  <2> QED
    BY <1>1, <1>3, <1>9, <2>1 DEF OracleInv, SaveInv, SaveFits
<1>11. f + 1 < states[s].stored
  <2>1. states[s].stored # f /\ states[s].stored # f + 1
    BY <1>9, <1>10
  <2> QED
    BY <1>8, <1>9, <1>10, <2>1
<1>12. f + 1 < h
  <2>1. f + 1 # h
    BY <1>9, <1>10
  <2> QED
    BY <1>4, <1>9, <1>10, <1>11, <2>1
<1>13. f + 1 <= l
  BY <1>4, <1>9, <1>12 DEF Under
<1> QED
  BY <1>4, <1>6, <1>7, <1>8, <1>9, <1>13

(* In a true account what the final state holds was made by a save of its line. *)
LEMMA MadeBy ==
    ASSUME OracleInv, lies = 0, final # Nil, NEW u \in ToSet(content[final])
    PROVE  \E s \in Lineage(final) : /\ s # First /\ u \in ToSet(states[s].updates)
                                  /\ u \in Done(TrueBase(s, SaveLoad(s)), states[s].scheduled)
<1>1. final \in StateIds /\ Walk(final) /\ Lineage(final) \subseteq StateIds /\ final \in Lineage(final)
  BY WalksTruly, LineageFits
<1> DEFINE Has == {x \in Lineage(final) : u \in ToSet(content[x])}
<1>2. Has # {} /\ Has \subseteq Nat
  BY <1>1 DEF StateIds
<1>3. PICK s \in Has : \A y \in Has : ~(y < s)
  BY <1>2, NatLeast
<1>4. s \in Lineage(final) /\ s \in StateIds /\ u \in ToSet(content[s])
  BY <1>1, <1>3
<1>5. s # First
  <2>1. SUFFICES ASSUME s = First PROVE FALSE
    OBVIOUS
  <2>2. PICK q : q = content[s]
    OBVIOUS
  <2>3. q = <<>>
    BY <1>4, <2>1, <2>2 DEF OracleInv, ContentInv, Holds
  <2>4. ToSet(q) = {}
    BY <2>3 DEF ToSet
  <2> QED
    BY <1>4, <2>2, <2>4
<1>6. states[s].parent \in Lineage(final) /\ states[s].parent < s /\ Segment(s, TrueBase(s, SaveLoad(s)))
  BY <1>1, <1>4, <1>5, WalkSegment
<1>7. u \notin ToSet(content[states[s].parent])
  BY <1>3, <1>6
<1>8. u \in Done(TrueBase(s, SaveLoad(s)), states[s].scheduled)
  BY <1>4, <1>6, <1>7 DEF Segment
<1>9. ToSet(states[s].updates) = Done(TrueBase(s, SaveLoad(s)), states[s].scheduled)
  BY <1>4, <1>5, TrueSaveIs DEF TrueSave
<1> QED
  BY <1>4, <1>5, <1>8, <1>9

LEMMA PrefixHas ==
    ASSUME NEW q \in Seq(Nat), NEW c \in Seq(Nat), IsPrefix(q, c)
    PROVE  ToSet(q) \subseteq ToSet(c)
<1>1. Len(q) \in Nat /\ Len(c) \in Nat /\ Len(q) <= Len(c) /\ q = SubSeq(c, 1, Len(q))
  BY DEF IsPrefix
<1>2. DOMAIN q = 1 .. Len(q) /\ DOMAIN c = 1 .. Len(c)
  BY <1>1
<1>3. \A k \in 1 .. Len(q) : q[k] = c[k] /\ k \in 1 .. Len(c)
  BY <1>1
<1> QED
  BY <1>2, <1>3 DEF ToSet

(* The moment that is reported: a commit and the role are there, and not before. *)
LEMMA RecoveredFirst ==
    ASSUME OracleInv, lies = 0, final # Nil, NEW i \in Nat, Fault0 <= i, Recovered(i)
    PROVE  \E m \in RecoveredAt : m <= i
<1>1. PICK t \in Saved : /\ states[t].stored <= i
                         /\ IsPrefix(content[t], content[final])
                         /\ \E u \in ToSet(content[t]) : updates[u].group = Target /\ updates[u].ended > Fault0
  BY DEF Recovered
<1>2. PICK u \in ToSet(content[t]) : updates[u].group = Target /\ updates[u].ended > Fault0
  BY <1>1
<1>3. final \in StateIds /\ Walk(final) /\ t \in StateIds /\ states[t].stored # 0
  BY WalksTruly DEF Saved
<1>4. Inc(content[t]) /\ Inc(content[final]) /\ u \in UpdateIds /\ updates[u].ended <= states[t].scheduled
  BY <1>2, <1>3, ContentFits
<1>5. u \in ToSet(content[final])
  BY <1>1, <1>2, <1>4, PrefixHas DEF Inc
<1>6. PICK s \in Lineage(final) : /\ s # First /\ u \in ToSet(states[s].updates)
                               /\ u \in Done(TrueBase(s, SaveLoad(s)), states[s].scheduled)
  BY <1>5, MadeBy
<1>7. PICK b : b = TrueBase(s, SaveLoad(s))
  OBVIOUS
<1>8. PICK f : f = Fault0
  OBVIOUS
<1>9. PICK c : c = states[s].stored
  OBVIOUS
<1>10. /\ s \in StateIds /\ s \in Nat /\ t \in Nat /\ c \in Nat /\ c # 0
       /\ states[t].stored \in Nat /\ states[t].scheduled \in Nat
       /\ states[s].scheduled \in Nat /\ updates[u].ended \in Nat /\ f \in Nat
  <2>1. s \in StateIds /\ c # 0
    BY <1>3, <1>6, <1>9, LineageFits DEF Walk
  <2>2. f \in Nat
    BY <1>8, FaultIs
  <2>3. s \in Nat /\ t \in Nat
    BY <1>3, <2>1 DEF StateIds
  <2> QED
    BY <1>3, <1>4, <1>9, <2>1, <2>2, <2>3, Types DEF OracleInv
<1>11. /\ b < updates[u].ended /\ updates[u].ended <= states[s].scheduled /\ b \in Nat
       /\ \A x \in StateIds : x < s => states[x].scheduled <= b
  <2>1. TrueSave(s, SaveLoad(s))
    BY <1>6, <1>10, TrueSaveIs
  <2>2. b \in Nat
    BY <1>3, <1>6, <1>7, WalkSegment DEF Segment
  <2> QED
    BY <1>6, <1>7, <2>1, <2>2 DEF TrueSave, Done
<1>12. states[s].scheduled < c
  BY <1>6, <1>9, <1>10 DEF OracleInv, SaveInv, SaveFits
<1>13. f <= c
  BY <1>2, <1>8, <1>10, <1>11, <1>12
<1>14. c <= i
  <2>1. ~(t < s)
    <3>1. SUFFICES ASSUME t < s PROVE FALSE
      OBVIOUS
    <3>2. states[t].scheduled <= b
      BY <1>3, <1>11, <3>1
    <3> QED
      BY <1>4, <1>10, <1>11, <3>2
  <2>2. CASE s = t
    BY <1>1, <1>9, <2>2
  <2>3. CASE s < t
    <3>1. c < states[t].scheduled
      BY <1>3, <1>9, <1>10, <2>3, SaveOrder
    <3>2. t # First
      BY <1>10, <2>3 DEF First, StateIds
    <3>3. states[t].scheduled < states[t].stored
      BY <1>3, <3>2 DEF OracleInv, SaveInv, SaveFits
    <3> QED
      BY <1>1, <1>10, <3>1, <3>3
  <2> QED
    BY <1>10, <2>1, <2>2, <2>3
<1>15. c \in Commits
  <2>1. Target \in GroupsOf(states[s].updates)
    BY <1>2, <1>6 DEF GroupsOf
  <2>2. c >= Fault0
    BY <1>8, <1>10, <1>13
  <2> QED
    BY <1>6, <1>9, <2>1, <2>2 DEF Commits, Lineage
<1> DEFINE T == {j \in RoleLog : j <= i}
<1>16. f \in T /\ T \subseteq 0 .. i /\ T \subseteq Nat
  <2>1. f \in RoleLog /\ f <= i
    BY <1>8, FaultIs
  <2>2. RoleLog \subseteq Nat
    BY DEF RoleLog, Of
  <2>3. f \in T /\ T \subseteq Nat
    BY <2>1, <2>2
  <2>4. \A j \in T : j \in 0 .. i
    BY <2>2
  <2> QED
    BY <2>3, <2>4
<1>17. PICK r \in T : \A j \in T : j <= r
  BY <1>16, NatGreatest
<1>18. r \in RoleLog /\ r <= i /\ r \in Nat /\ f <= r /\ \A j \in RoleLog : j <= i => j <= r
  BY <1>16, <1>17
<1>19. Now \in Nat /\ RoleLog \subseteq Nat
  BY Types DEF OracleInv, RoleLog, Of
<1>20. r \in Of("role_ready")
  BY <1>1, <1>18, <1>19, ReadyIs DEF Recovered
<1>21. r \in RoleEvents
  BY <1>8, <1>10, <1>18, <1>20 DEF RoleEvents
<1>22. PICK m : m = IF c <= r THEN r ELSE c
  OBVIOUS
<1>23. m \in Nat /\ c <= m /\ r <= m /\ m <= i /\ m \in Commits \cup RoleEvents
  BY <1>10, <1>14, <1>15, <1>18, <1>21, <1>22
<1>24. \A j \in RoleLog : j <= m => j <= r
  BY <1>18, <1>19, <1>23
<1>25. Ready(m)
  BY <1>18, <1>19, <1>20, <1>23, <1>24, ReadyIs
<1>26. m \in RecoveredAt
  BY <1>15, <1>23, <1>25 DEF RecoveredAt
<1> QED
  BY <1>23, <1>26

LEMMA RecoveryReal ==
    ASSUME OracleInv
    PROVE  RecoveryIsReal
<1> SUFFICES ASSUME final # Nil, Judgement = "correct_recovered"
             PROVE  /\ Recovered(Min(RecoveredAt))
                    /\ lies = 0 => \A i \in Fault0 .. Min(RecoveredAt) - 1 : ~Recovered(i)
  BY DEF RecoveryIsReal
<1>1. Passes /\ RecoveredAt # {}
  BY DEF Judgement, Passes
<1>2. final \in StateIds /\ Walk(final) /\ \A s \in Lineage(final) : Sound(s)
  BY <1>1, PassesIs
<1>3. Lineage(final) \subseteq StateIds
  BY <1>2, LineageFits
<1>4. RecoveredAt \subseteq Nat
  <2>1. Commits \subseteq Nat
    BY <1>3, Types DEF OracleInv, Commits, Lineage
  <2>2. RoleEvents \subseteq Nat
    BY DEF RoleEvents, Faults, Of
  <2> QED
    BY <2>1, <2>2 DEF RecoveredAt
<1>5. PICK m : m = Min(RecoveredAt)
  OBVIOUS
<1>6. m \in RecoveredAt /\ m \in Nat /\ \A j \in RecoveredAt : m <= j
  BY <1>1, <1>4, <1>5, MinIs
<1>7. Ready(m) /\ \E c \in Commits : c <= m
  BY <1>6 DEF RecoveredAt
<1>8. PICK s \in Lineage(final) : /\ s # First /\ Target \in GroupsOf(states[s].updates)
                               /\ states[s].stored >= Fault0 /\ states[s].stored <= m
  BY <1>7 DEF Commits, Lineage
<1>9. PICK u \in ToSet(states[s].updates) : updates[u].group = Target
  BY <1>8 DEF GroupsOf
<1>10. u \in ToSet(content[s]) /\ updates[u].ended > Fault0
  BY <1>1, <1>8, <1>9, CommitHolds
<1>11. IsPrefix(content[s], content[final])
  BY <1>2, <1>8, LineagePrefix
<1>12. s \in Saved
  BY <1>2, <1>3, <1>8 DEF Saved, Walk
<1>13. Recovered(m)
  BY <1>7, <1>8, <1>9, <1>10, <1>11, <1>12 DEF Recovered
<1>14. ASSUME lies = 0, NEW i \in Fault0 .. m - 1, Recovered(i) PROVE FALSE
  <2>1. Fault0 \in Nat
    BY FaultIs
  <2>2. i \in Nat /\ Fault0 <= i /\ i < m
    BY <1>6, <1>14, <2>1
  <2>3. PICK j \in RecoveredAt : j <= i
    BY <1>14, <2>2, RecoveredFirst
  <2> QED
    BY <1>4, <1>6, <2>2, <2>3
<1> QED
  BY <1>5, <1>13, <1>14

(* A passed audit is right about the updates in the final weights, what each trained and
   that no group was trained twice, however many entries of the evidence are untrue. *)
THEOREM PassedIsTrue == OracleSpec => []PassIsTrue
BY PassTrue, OracleHolds, PTL

(* A true account of a run that did nothing wrong passes, whatever was lost, reloaded
   and authorized again, and however often.                                    *)
THEOREM TruthIsPassed == OracleSpec => []TruthPasses
BY TruthPassed, OracleHolds, PTL

(* At the recovery time of a passed audit the run had recovered, whatever the evidence
   says; by a true account it had not before.                                  *)
THEOREM RecoveryReported == OracleSpec => []RecoveryIsReal
BY RecoveryReal, OracleHolds, PTL
=============================================================================
