---------------------------- MODULE SearchProofs ----------------------------
(***************************************************************************)
(* Proofs about Search, for any number of files and any byte budget: its   *)
(* types, and what a search may answer.                                    *)
(***************************************************************************)
EXTENDS Search, FiniteSetTheorems, WellFoundedInduction, TLAPS

\* Every line that came is kept, and but for what an rg died in there are no others;
\* the selected run stops at its budget.
LinesKept ==
  /\ \A r \in Runs : /\ IsFiniteSet(lines[r])
                     /\ (code[r] # "crash" \/ rg[r] # "closed") => lines[r] = read[r]
  /\ (~ killed["selected"] /\ rg["selected"] # "closed")
       => Cardinality(lines["selected"]) < MaxBytes

\* One line at most is not of what the rg would have written, and of a grep's none
\* that names a file.
LinesOwn ==
  /\ \A r \in Runs : \A f, g \in lines[r] \ Output(r) : f = g
  /\ kind \in Greps => lines["selected"] \subseteq Output("selected") \cup {0}

\* An rg is killed at its deadline or its budget, and for nothing else; a signal
\* the driver did not send is a crash.
KilledForReason ==
  \A r \in Runs :
    /\ killed[r] => truncated[r] \/ timedOut[r]
    /\ code[r] = "signal" => killed[r]

\* What an exit code says of the output.
CodesTell ==
  \A r \in Runs :
    /\ (code[r] \in {"0", "1"} /\ ~ killed[r]) => written[r] = Output(r)
    /\ code[r] = "1" => Output(r) = {}
    /\ (rg[r] = "closed" /\ code[r] # "spawn" /\ ~ killed[r]) => read[r] = written[r]

\* A grep without globs has no universe; an answer is the selected run's, which is over.
AnswerKept ==
  /\ kind = "grep" => rg["universe"] = "idle"
  /\ result.status \in {"ok", "timeout"} =>
       /\ rg["selected"] = "closed" /\ code["selected"] \notin {"2", "spawn"}
       /\ result.truncated = truncated["selected"]
       /\ result.status = "ok" => ~ timedOut["selected"]

SearchInv ==
  /\ TypeOK /\ LinesKept /\ LinesOwn /\ KilledForReason /\ CodesTell /\ AnswerKept
  /\ OnlyWanted /\ StopIsNoFailure

LEMMA Least ==
  ASSUME NEW T, T \subseteq Nat, T # {}
  PROVE  \E x \in T : \A y \in T : x <= y
<1>1. PICK x \in T : \A y \in T : ~ (<<y, x>> \in OpToRel(<, Nat))
  BY NatLessThanWellFounded, WFMin, Zenon
<1>2. \A y \in T : ~ (y < x)
  BY <1>1 DEF OpToRel
<1> QED
  BY <1>2

LEMMA LowestIsIn ==
  ASSUME NEW T, T \subseteq Files, T # {}
  PROVE  Lowest(T) \in T
<1>1. T \subseteq Nat
  BY ConstantsAssumption, FS_CardinalityType
<1>2. \E f \in T : \A g \in T : f <= g
  BY <1>1, Least
<1> QED
  BY <1>2 DEF Lowest

LEMMA OutputType ==
  ASSUME TypeOK
  PROVE  \A r \in Runs : Output(r) \subseteq Files
BY DEF TypeOK, Output

LEMMA InitInv == Init => SearchInv
<1> SUFFICES ASSUME Init PROVE SearchInv
  OBVIOUS
<1>1. IsFiniteSet({}) /\ Cardinality({}) = 0
  BY FS_EmptySet
<1>2. TypeOK
  BY <1>1, ConstantsAssumption DEF Init, TypeOK, Pending, Runs, FirstRuns
<1>3. LinesKept
  BY <1>1, ConstantsAssumption DEF Init, LinesKept, Runs
<1>4. KilledForReason /\ CodesTell /\ LinesOwn
  BY DEF Init, KilledForReason, CodesTell, LinesOwn, Runs
<1>5. AnswerKept
  BY DEF Init, AnswerKept, Pending, FirstRuns, Runs, Globs
<1>6. OnlyWanted /\ StopIsNoFailure
  BY DEF Init, OnlyWanted, Spared, StopIsNoFailure, Pending, Thrown
<1> QED
  BY <1>2, <1>3, <1>4, <1>5, <1>6 DEF SearchInv

(* Steps of an rg and its pipe leave the question and the answer as they are, and
   no code and no line is taken back. *)
LEMMA AnswerUntouched ==
  ASSUME SearchInv, UNCHANGED <<environment, result>>,
         \A r \in Runs : code[r] # "none" => code'[r] = code[r],
         \A r \in Runs : lines[r] \subseteq lines'[r]
  PROVE  OnlyWanted' /\ StopIsNoFailure'
<1>1. OnlyWanted'
  <2>1. ASSUME NEW r \in Runs, NEW paths, Spared(r, paths)
        PROVE  IF code'[r] = "crash" THEN \A f, g \in paths : f = g ELSE paths = {}
    <3>1. CASE code[r] = "none"
      BY <2>1, <3>1 DEF Spared
    <3>2. CASE code[r] # "none"
      BY <2>1, <3>2 DEF Spared
    <3> QED
      BY <3>1, <3>2
  <2>2. /\ kind # "globIgnored" =>
             IF code'["universe"] = "crash"
             THEN \A f, g \in result.paths \cap ignored : f = g ELSE result.paths \cap ignored = {}
        /\ IF code'["selected"] = "crash"
           THEN \A f, g \in result.paths \ hits : f = g ELSE result.paths \ hits = {}
    BY <2>1 DEF SearchInv, OnlyWanted, Runs
  <2> QED
    BY <2>2 DEF OnlyWanted, Spared, environment
<1>2. StopIsNoFailure'
  <2>1. Output("universe")' = Output("universe")
    BY DEF Output, environment
  <2>2. (lines["selected"] # {}) => (lines'["selected"] # {})
    BY DEF Runs
  <2>3. \A r \in Runs : code[r] \in {"2", "spawn"} => code'[r] \in {"2", "spawn"}
    OBVIOUS
  <2> QED
    BY <2>1, <2>2, <2>3 DEF SearchInv, StopIsNoFailure, environment
<1> QED
  BY <1>1, <1>2

LEMMA LinesOwnStays == ASSUME LinesOwn, UNCHANGED <<environment, lines>> PROVE LinesOwn'
<1>1. \A r \in Runs : Output(r)' = Output(r)
  BY DEF Output, environment
<1> QED
  BY <1>1 DEF LinesOwn, environment, Runs

LEMMA RgWritesStep ==
  ASSUME SearchInv, NEW r \in Runs, RgWrites(r)
  PROVE  SearchInv'
<1>1. TypeOK /\ LinesKept /\ LinesOwn /\ KilledForReason /\ CodesTell /\ AnswerKept
  BY DEF SearchInv
<1>2. Output(r) \ written[r] # {} /\ Output(r) \ written[r] \subseteq Files
  BY <1>1, OutputType DEF RgWrites, TypeOK
<1>3. Lowest(Output(r) \ written[r]) \in Output(r)
  BY <1>2, LowestIsIn
<1>4. \A q \in Runs : Output(q)' = Output(q)
  BY DEF RgWrites, Output, environment
<1>5. TypeOK'
  <2> DEFINE w == Lowest(Output(r) \ written[r])
  <2>1. \A q \in Runs : written'[q] \subseteq Output(q) /\ written[q] \subseteq written'[q]
    <3>1. written' = [written EXCEPT ![r] = @ \cup {w}]
      BY DEF RgWrites
    <3>2. w \in Output(r)
      BY <1>3
    <3> HIDE DEF w
    <3> QED
      BY <1>1, <3>1, <3>2 DEF TypeOK
  <2>2. UNCHANGED <<environment, rg, read, collected, killed, code, result>>
    BY DEF RgWrites
  <2>3. written' \in [Runs -> SUBSET Files]
    <3>1. w \in Files
      BY <1>1, <1>3, OutputType
    <3>2. written' = [written EXCEPT ![r] = @ \cup {w}]
      BY DEF RgWrites
    <3> HIDE DEF w
    <3> QED
      BY <1>1, <3>1, <3>2 DEF TypeOK
  <2> QED
    BY <1>1, <1>4, <2>1, <2>2, <2>3 DEF TypeOK, environment, collected
<1>6. LinesKept' /\ KilledForReason'
  BY <1>1 DEF RgWrites, LinesKept, KilledForReason, collected
<1>7. CodesTell'
  BY <1>1, <1>4 DEF RgWrites, TypeOK, CodesTell
<1>8. AnswerKept'
  BY <1>1 DEF RgWrites, AnswerKept, environment, collected
<1>9. OnlyWanted' /\ StopIsNoFailure'
  BY AnswerUntouched DEF RgWrites, collected
<1>10. LinesOwn'
  BY <1>1, LinesOwnStays DEF RgWrites, collected
<1> QED
  BY <1>5, <1>6, <1>7, <1>8, <1>9, <1>10 DEF SearchInv

LEMMA RgExitsStep ==
  ASSUME SearchInv, NEW r \in Runs, RgExits(r)
  PROVE  SearchInv'
<1>1. TypeOK /\ LinesKept /\ LinesOwn /\ KilledForReason /\ CodesTell /\ AnswerKept
  BY DEF SearchInv
<1>2. \A q \in Runs : Output(q)' = Output(q)
  BY DEF RgExits, Output, environment
<1>3. TypeOK'
  BY <1>1, <1>2 DEF RgExits, TypeOK, environment, collected, Kill
<1>4. LinesKept'
  BY <1>1 DEF RgExits, LinesKept, collected, Kill, TypeOK
<1>5. KilledForReason'
  BY <1>1 DEF RgExits, KilledForReason, collected, Kill, TypeOK
<1>6. CodesTell'
  <2>1. PICK c \in {"0", "1", "2", "signal", "crash"} :
          /\ \/ c = "0" /\ written[r] = Output(r) /\ Output(r) # {}
             \/ c = "1" /\ Output(r) = {}
             \/ c \in {"2", "crash"}
             \/ c \in {"0", "signal"} /\ killed[r]
          /\ code' = [code EXCEPT ![r] = c]
    BY DEF RgExits
  <2>2. UNCHANGED <<written, read, killed>> /\ rg' = [rg EXCEPT ![r] = "exited"]
    BY DEF RgExits
  <2>3. c = "1" => written[r] = Output(r)
    BY <1>1, <2>1 DEF TypeOK
  <2>4. \A q \in Runs : q # r => code'[q] = code[q] /\ rg'[q] = rg[q]
    BY <1>1, <2>1, <2>2 DEF TypeOK
  <2>5. code'[r] = c /\ rg'[r] = "exited"
    BY <1>1, <2>1, <2>2 DEF TypeOK
  <2>6. (c \in {"0", "1"} /\ ~ killed[r]) => written[r] = Output(r)
    BY <2>1, <2>3
  <2>7. c = "1" => Output(r) = {}
    BY <2>1
  <2> QED
    BY <1>1, <1>2, <2>2, <2>4, <2>5, <2>6, <2>7 DEF CodesTell
<1>7. AnswerKept'
  BY <1>1 DEF RgExits, AnswerKept, TypeOK, environment, collected
<1>8. OnlyWanted' /\ StopIsNoFailure'
  BY <1>1, AnswerUntouched DEF RgExits, TypeOK, collected
<1>9. LinesOwn'
  BY <1>1, LinesOwnStays DEF RgExits, collected
<1> QED
  BY <1>3, <1>4, <1>5, <1>6, <1>7, <1>8, <1>9 DEF SearchInv

LEMMA SpawnFailsStep ==
  ASSUME SearchInv, NEW r \in Runs, SpawnFails(r)
  PROVE  SearchInv'
<1>1. TypeOK /\ LinesKept /\ LinesOwn /\ KilledForReason /\ CodesTell /\ AnswerKept
  BY DEF SearchInv
<1>2. \A q \in Runs : Output(q)' = Output(q)
  BY DEF SpawnFails, Output, environment
<1>3. TypeOK'
  BY <1>1, <1>2 DEF SpawnFails, TypeOK, environment, collected, Kill
<1>4. LinesKept'
  BY <1>1 DEF SpawnFails, LinesKept, collected, Kill, TypeOK
<1>5. KilledForReason'
  BY <1>1 DEF SpawnFails, KilledForReason, collected, Kill, TypeOK
<1>6. CodesTell'
  BY <1>1, <1>2 DEF SpawnFails, TypeOK, CodesTell, Kill
<1>7. AnswerKept'
  BY <1>1 DEF SpawnFails, AnswerKept, TypeOK, environment, collected
<1>8. OnlyWanted' /\ StopIsNoFailure'
  BY <1>1, AnswerUntouched DEF SpawnFails, TypeOK, collected
<1>9. LinesOwn'
  BY <1>1, LinesOwnStays DEF SpawnFails, collected
<1> QED
  BY <1>3, <1>4, <1>5, <1>6, <1>7, <1>8, <1>9 DEF SearchInv

(* Of an rg that died by itself in the middle of a line, Close keeps that line. *)
LEMMA CloseStep ==
  ASSUME SearchInv, NEW r \in Runs, Close(r)
  PROVE  SearchInv'
<1>1. /\ TypeOK /\ LinesKept /\ LinesOwn /\ KilledForReason /\ CodesTell /\ AnswerKept
      /\ DOMAIN lines = Runs /\ DOMAIN truncated = Runs /\ DOMAIN rg = Runs
  BY DEF SearchInv, TypeOK
<1>2. \A q \in Runs : Output(q)' = Output(q)
  BY DEF Close, Output, environment
<1>3. PICK more \in SUBSET (Files \cup {0}), cut \in BOOLEAN :
        /\ lines' = [lines EXCEPT ![r] = @ \cup more]
        /\ truncated' = [truncated EXCEPT ![r] = @ \/ cut]
        /\ \A f, g \in more : f = g
        /\ more = {} \/ (code[r] = "crash" /\ ~ truncated[r] /\ ~ timedOut[r])
        /\ (r = "selected" /\ kind \in Greps) => more \subseteq Output(r) \cup {0}
        /\ IsFiniteSet(more) /\ (more = {} \/ \E line \in Files \cup {0} : more = {line})
  <2>1. CASE UNCHANGED <<lines, truncated>>
    <3>1. /\ lines' = [lines EXCEPT ![r] = @ \cup {}]
          /\ truncated' = [truncated EXCEPT ![r] = @ \/ FALSE]
      BY <1>1, <2>1 DEF TypeOK
    <3>2. IsFiniteSet({})
      BY FS_EmptySet
    <3> QED
      BY <3>1, <3>2
  <2>2. CASE Remainder(r)
    <3> DEFINE next == Lowest(Output(r) \ written[r])
    <3>1. /\ code[r] = "crash" /\ ~ truncated[r] /\ ~ timedOut[r] /\ written[r] # Output(r)
          /\ \E line \in IF r = "selected" /\ kind \in Greps THEN {0, next} ELSE 0 .. next :
               lines' = [lines EXCEPT ![r] = @ \cup {line}]
          /\ UNCHANGED truncated \/ truncated' = [truncated EXCEPT ![r] = TRUE]
      BY <2>2 DEF Remainder
    <3>2. next \in Output(r) /\ next \in Files
      <4>1. Output(r) \ written[r] # {} /\ Output(r) \ written[r] \subseteq Files
        BY <1>1, <3>1, OutputType DEF TypeOK
      <4> QED
        BY <4>1, LowestIsIn
    <3>3. 0 .. next \subseteq Files \cup {0}
      <4>1. Files = 1 .. Cardinality(Files) /\ Cardinality(Files) \in Nat
        BY ConstantsAssumption, FS_CardinalityType
      <4> HIDE DEF next
      <4> QED
        BY <3>2, <4>1
    <3> HIDE DEF next
    <3>4. PICK line \in Files \cup {0} :
            /\ lines' = [lines EXCEPT ![r] = @ \cup {line}]
            /\ (r = "selected" /\ kind \in Greps) => line \in Output(r) \cup {0}
      BY <3>1, <3>2, <3>3
    <3>5. \E cut \in BOOLEAN : truncated' = [truncated EXCEPT ![r] = @ \/ cut]
      <4>1. CASE UNCHANGED truncated
        <5>1. truncated' = [truncated EXCEPT ![r] = @ \/ FALSE]
          BY <1>1, <4>1 DEF TypeOK
        <5> QED
          BY <5>1
      <4>2. CASE truncated' = [truncated EXCEPT ![r] = TRUE]
        <5>1. truncated' = [truncated EXCEPT ![r] = @ \/ TRUE]
          BY <1>1, <4>2 DEF TypeOK
        <5> QED
          BY <5>1
      <4> QED
        BY <3>1, <4>1, <4>2
    <3>6. IsFiniteSet({line})
      BY FS_Singleton
    <3> QED
      BY <3>1, <3>4, <3>5, <3>6
  <2> QED
    BY <2>1, <2>2 DEF Close
<1>4. /\ lines'[r] = lines[r] \cup more /\ truncated'[r] = (truncated[r] \/ cut)
      /\ \A q \in Runs : q # r => lines'[q] = lines[q] /\ truncated'[q] = truncated[q]
                                                    /\ rg'[q] = rg[q]
      /\ rg[r] = "exited" /\ rg'[r] = "closed" /\ (killed[r] \/ read[r] = written[r])
      /\ UNCHANGED <<environment, written, read, timedOut, killed, code, result>>
      /\ lines' \in [Runs -> SUBSET (Files \cup {0})] /\ truncated' \in [Runs -> BOOLEAN]
      /\ rg' \in [Runs -> {"idle", "running", "exited", "closed"}]
  BY <1>1, <1>3 DEF Close, TypeOK
<1>5. /\ lines[r] = read[r] /\ lines[r] \subseteq Output(r)
      /\ \A q \in Runs : lines[q] \subseteq lines'[q]
  BY <1>1, <1>4 DEF LinesKept, TypeOK
<1>6. TypeOK'
  <2>1. \A q \in Runs : code[q] # "crash" => lines'[q] \subseteq read[q]
    BY <1>1, <1>3, <1>4 DEF TypeOK
  <2>2. \A q \in Runs : (code[q] = "none") = (rg'[q] \in {"idle", "running"})
    <3>1. \A q \in Runs : rg'[q] \in {"idle", "running"} <=> rg[q] \in {"idle", "running"}
      BY <1>4
    <3> QED
      BY <1>1, <3>1 DEF TypeOK
  <2>3. Cardinality(lines'["selected"]) <= MaxBytes
    <3>1. CASE r = "selected" /\ more # {}
      <4>1. Cardinality(lines[r]) < MaxBytes /\ IsFiniteSet(lines[r])
        BY <1>1, <1>3, <1>4, <3>1 DEF LinesKept, KilledForReason
      <4>2. PICK line \in Files \cup {0} : more = {line}
        BY <1>3, <3>1
      <4>3. Cardinality(lines[r] \cup {line}) \in {Cardinality(lines[r]), Cardinality(lines[r]) + 1}
            /\ Cardinality(lines[r]) \in Nat
        BY <4>1, FS_AddElement, FS_CardinalityType
      <4>4. lines'["selected"] = lines[r] \cup {line}
        BY <1>4, <3>1, <4>2
      <4> QED
        BY <4>1, <4>3, <4>4, ConstantsAssumption
    <3>2. CASE r # "selected" \/ more = {}
      <4>1. lines'["selected"] = lines["selected"]
        BY <1>4, <3>2 DEF Runs
      <4> QED
        BY <1>1, <4>1 DEF TypeOK
    <3> QED
      BY <3>1, <3>2
  <2> QED
    BY <1>1, <1>2, <1>4, <2>1, <2>2, <2>3 DEF TypeOK, environment
<1>7. LinesKept'
  <2>1. \A q \in Runs : IsFiniteSet(lines'[q])
    BY <1>1, <1>3, <1>4, FS_Union DEF LinesKept
  <2>2. ASSUME NEW q \in Runs, code'[q] # "crash" \/ rg'[q] # "closed"
        PROVE  lines'[q] = read'[q]
    <3>1. CASE q = r
      <4>1. more = {}
        BY <1>3, <1>4, <2>2, <3>1
      <4> QED
        BY <1>4, <1>5, <3>1, <4>1
    <3>2. CASE q # r
      BY <1>1, <1>4, <2>2, <3>2 DEF LinesKept
    <3> QED
      BY <3>1, <3>2
  <2>3. (~ killed'["selected"] /\ rg'["selected"] # "closed")
           => Cardinality(lines'["selected"]) < MaxBytes
    BY <1>1, <1>4 DEF LinesKept, Runs
  <2> QED
    BY <2>1, <2>2, <2>3 DEF LinesKept
<1>8. LinesOwn'
  <2>1. \A q \in Runs : \A f, g \in lines'[q] \ Output(q) : f = g
    BY <1>1, <1>3, <1>4, <1>5 DEF LinesOwn
  <2>2. kind \in Greps => lines'["selected"] \subseteq Output("selected") \cup {0}
    BY <1>1, <1>3, <1>4, <1>5 DEF LinesOwn, Runs
  <2> QED
    BY <1>2, <1>4, <2>1, <2>2 DEF LinesOwn, environment, Runs
<1>9. KilledForReason'
  BY <1>1, <1>4 DEF KilledForReason
<1>10. CodesTell'
  BY <1>1, <1>2, <1>4 DEF CodesTell
<1>11. AnswerKept'
  <2>1. rg["selected"] = "closed" => truncated'["selected"] = truncated["selected"]
                                     /\ rg'["selected"] = "closed"
    BY <1>4 DEF Runs
  <2>2. kind = "grep" => rg'["universe"] = "idle"
    BY <1>1, <1>4 DEF AnswerKept, Runs
  <2> QED
    BY <1>1, <1>4, <2>1, <2>2 DEF AnswerKept, environment
<1>12. OnlyWanted' /\ StopIsNoFailure'
  BY <1>4, <1>5, AnswerUntouched
<1> QED
  BY <1>6, <1>7, <1>8, <1>9, <1>10, <1>11, <1>12 DEF SearchInv

LEMMA AbortStep ==
  ASSUME SearchInv, NEW r \in Runs, Abort(r)
  PROVE  SearchInv'
<1>1. TypeOK /\ LinesKept /\ LinesOwn /\ KilledForReason /\ CodesTell /\ AnswerKept
  BY DEF SearchInv
<1>2. \A q \in Runs : Output(q)' = Output(q)
  BY DEF Abort, Output, environment
<1>3. TypeOK'
  BY <1>1, <1>2 DEF Abort, TypeOK, environment, collected, Kill
<1>4. LinesKept'
  BY <1>1 DEF Abort, LinesKept, collected, Kill, TypeOK
<1>5. KilledForReason'
  BY <1>1 DEF Abort, KilledForReason, collected, Kill, TypeOK
<1>6. CodesTell'
  BY <1>1, <1>2 DEF Abort, TypeOK, CodesTell, Kill
<1>7. AnswerKept'
  BY <1>1 DEF Abort, AnswerKept, TypeOK, environment, collected
<1>8. OnlyWanted' /\ StopIsNoFailure'
  BY <1>1, AnswerUntouched DEF Abort, TypeOK, collected
<1>9. LinesOwn'
  BY <1>1, LinesOwnStays DEF Abort, collected
<1> QED
  BY <1>3, <1>4, <1>5, <1>6, <1>7, <1>8, <1>9 DEF SearchInv

LEMMA GraceStep ==
  ASSUME SearchInv, NEW r \in Runs, Grace(r)
  PROVE  SearchInv'
<1>1. TypeOK /\ LinesKept /\ LinesOwn /\ KilledForReason /\ CodesTell /\ AnswerKept
  BY DEF SearchInv
<1>2. \A q \in Runs : Output(q)' = Output(q)
  BY DEF Grace, Output, environment
<1>3. TypeOK'
  BY <1>1, <1>2 DEF Grace, TypeOK, environment, collected, Kill
<1>4. LinesKept'
  BY <1>1 DEF Grace, LinesKept, collected, Kill, TypeOK
<1>5. KilledForReason'
  BY <1>1 DEF Grace, KilledForReason, collected, Kill, TypeOK
<1>6. CodesTell'
  BY <1>1, <1>2 DEF Grace, TypeOK, CodesTell, Kill
<1>7. AnswerKept'
  BY <1>1 DEF Grace, AnswerKept, TypeOK, environment, collected
<1>8. OnlyWanted' /\ StopIsNoFailure'
  BY <1>1, AnswerUntouched DEF Grace, TypeOK, collected
<1>9. LinesOwn'
  BY <1>1, LinesOwnStays DEF Grace, collected
<1> QED
  BY <1>3, <1>4, <1>5, <1>6, <1>7, <1>8, <1>9 DEF SearchInv

LEMMA DataStep ==
  ASSUME SearchInv, NEW r \in Runs, Data(r)
  PROVE  SearchInv'
<1> DEFINE l         == Lowest(written[r] \ read[r])
           exhausted == r = "selected" /\ Cardinality(lines[r]) + 1 >= MaxBytes
<1>1. TypeOK /\ LinesKept /\ LinesOwn /\ KilledForReason /\ CodesTell /\ AnswerKept
  BY DEF SearchInv
<1>2. /\ rg[r] \in {"running", "exited"} /\ ~ killed[r] /\ read[r] # written[r]
      /\ read' = [read EXCEPT ![r] = @ \cup {l}]
      /\ lines' = [lines EXCEPT ![r] = @ \cup {l}]
      /\ truncated' = [truncated EXCEPT ![r] = exhausted]
      /\ IF exhausted THEN killed' = [killed EXCEPT ![r] = TRUE] ELSE UNCHANGED killed
      /\ UNCHANGED <<environment, rg, written, timedOut, code, result>>
  BY DEF Data, Kill
<1>3. l \in written[r] \ read[r]
  <2>1. written[r] \ read[r] # {} /\ written[r] \ read[r] \subseteq Files
    BY <1>1, <1>2, OutputType DEF TypeOK
  <2> QED
    BY <2>1, LowestIsIn
<1>4. exhausted \in BOOLEAN
  OBVIOUS
<1>5. \A q \in Runs : Output(q)' = Output(q)
  BY <1>2 DEF Output, environment
<1>6. /\ IsFiniteSet(lines[r] \cup {l})
      /\ Cardinality(lines[r] \cup {l}) = Cardinality(lines[r]) + 1
      /\ Cardinality(lines[r]) \in Nat
  <2>1. IsFiniteSet(lines[r]) /\ l \notin lines[r]
    BY <1>1, <1>2, <1>3 DEF LinesKept
  <2> QED
    BY <2>1, FS_AddElement, FS_CardinalityType
<1>7. /\ lines'[r] = lines[r] \cup {l} /\ read'[r] = read[r] \cup {l}
      /\ truncated'[r] = exhausted /\ killed'[r] = exhausted
      /\ \A q \in Runs : q # r => /\ lines'[q] = lines[q] /\ read'[q] = read[q]
                                /\ truncated'[q] = truncated[q] /\ killed'[q] = killed[q]
  <2> HIDE DEF l, exhausted
  <2>1. /\ DOMAIN lines = Runs /\ DOMAIN read = Runs
        /\ truncated \in [Runs -> BOOLEAN] /\ killed \in [Runs -> BOOLEAN]
    BY <1>1 DEF TypeOK, LinesKept
  <2> QED
    BY <1>2, <1>4, <2>1
<1>8. LinesKept'
  <2>1. \A q \in Runs : /\ IsFiniteSet(lines'[q])
                        /\ (code[q] # "crash" \/ rg[q] # "closed") => lines'[q] = read'[q]
    BY <1>1, <1>2, <1>6, <1>7 DEF LinesKept
  <2>2. (~ killed'["selected"] /\ rg["selected"] # "closed")
           => Cardinality(lines'["selected"]) < MaxBytes
    <3>1. CASE r = "selected"
      <4>1. killed'["selected"] = exhausted /\ lines'["selected"] = lines[r] \cup {l}
        BY <1>7, <3>1
      <4>2. ~ exhausted => Cardinality(lines[r]) + 1 < MaxBytes
        BY <1>6, <3>1, ConstantsAssumption
      <4> HIDE DEF exhausted, l
      <4> QED
        BY <1>6, <4>1, <4>2
    <3>2. CASE r # "selected"
      BY <1>1, <1>7, <3>2 DEF LinesKept, Runs
    <3> QED
      BY <3>1, <3>2
  <2> QED
    BY <1>2, <2>1, <2>2 DEF LinesKept
<1>9. TypeOK'
  <2>1. \A q \in Runs : /\ code[q] # "crash" => lines'[q] \subseteq read'[q]
                        /\ read'[q] \subseteq written[q]
    BY <1>1, <1>3, <1>7 DEF TypeOK
  <2>2. Cardinality(lines'["selected"]) <= MaxBytes
    <3>1. CASE r = "selected"
      <4>1. Cardinality(lines[r]) < MaxBytes
        BY <1>1, <1>2, <3>1 DEF LinesKept
      <4>2. lines'["selected"] = lines[r] \cup {l}
        BY <1>7, <3>1
      <4> HIDE DEF exhausted, l
      <4> QED
        BY <1>6, <4>1, <4>2, ConstantsAssumption
    <3>2. CASE r # "selected"
      BY <1>1, <1>7, <3>2 DEF TypeOK, Runs
    <3> QED
      BY <3>1, <3>2
  <2>3. truncated' \in [Runs -> BOOLEAN] /\ killed' \in [Runs -> BOOLEAN]
    <3> HIDE DEF exhausted, l
    <3> QED
      BY <1>1, <1>2, <1>4 DEF TypeOK
  <2> HIDE DEF exhausted, l
  <2> QED
    BY <1>1, <1>2, <1>5, <2>1, <2>2, <2>3 DEF TypeOK, environment
<1>10. KilledForReason'
  <2> HIDE DEF exhausted, l
  <2> QED
    BY <1>1, <1>2, <1>7 DEF KilledForReason
<1>11. CodesTell'
  <2> HIDE DEF exhausted, l
  <2> QED
    BY <1>1, <1>2, <1>5, <1>7 DEF CodesTell
<1>12. AnswerKept'
  <2> HIDE DEF exhausted, l
  <2> QED
    BY <1>1, <1>2, <1>7 DEF AnswerKept, environment, Runs
<1>13. OnlyWanted' /\ StopIsNoFailure'
  <2>1. \A q \in Runs : lines[q] \subseteq lines'[q]
    BY <1>7
  <2> QED
    BY <1>2, <2>1, AnswerUntouched
<1>14. LinesOwn'
  <2>1. l \in Output(r)
    BY <1>1, <1>3 DEF TypeOK
  <2>2. \A q \in Runs : lines'[q] \ Output(q) = lines[q] \ Output(q)
    BY <1>7, <2>1
  <2>3. kind \in Greps => lines'["selected"] \subseteq Output("selected") \cup {0}
    BY <1>1, <1>7, <2>1 DEF LinesOwn, Runs
  <2>4. kind' = kind /\ \A q \in Runs : \A f, g \in lines'[q] \ Output(q) : f = g
    BY <1>1, <1>2, <2>2 DEF LinesOwn, environment
  <2> QED
    BY <1>5, <2>3, <2>4 DEF LinesOwn, Runs
<1> QED
  BY <1>8, <1>9, <1>10, <1>11, <1>12, <1>13, <1>14 DEF SearchInv

(* A failure names its cause. *)
LEMMA FailureStep ==
  ASSUME SearchInv, UniverseFails \/ SelectedFails \/ GrepMalformed
  PROVE  SearchInv'
<1>1. TypeOK /\ LinesKept /\ LinesOwn /\ KilledForReason /\ CodesTell /\ AnswerKept
  BY DEF SearchInv
<1>2. /\ UNCHANGED <<environment, rg, written, read, collected, killed, code>>
      /\ result' = Thrown
  BY DEF UniverseFails, SelectedFails, GrepMalformed
<1>3. \A q \in Runs : Output(q)' = Output(q)
  BY <1>2 DEF Output, environment
<1>4. TypeOK'
  BY <1>1, <1>2, <1>3 DEF TypeOK, Thrown, environment, collected
<1>5. LinesKept' /\ KilledForReason'
  BY <1>1, <1>2 DEF LinesKept, KilledForReason, collected
<1>6. CodesTell'
  BY <1>1, <1>2, <1>3 DEF CodesTell
<1>7. AnswerKept'
  BY <1>1, <1>2 DEF AnswerKept, Thrown, environment
<1>8. OnlyWanted'
  BY <1>2 DEF OnlyWanted, Spared, Thrown
<1>9. StopIsNoFailure'
  <2>1. CASE UniverseFails
    <3>1. code["universe"] \in {"1", "2", "spawn"} /\ rg["universe"] = "closed"
      BY <1>1, <2>1 DEF UniverseFails, Closed, Listed, TypeOK, Runs
    <3>2. kind # "grep"
      BY <1>1, <3>1 DEF AnswerKept
    <3>3. code["universe"] = "1" => Output("universe") = {}
      BY <1>1 DEF CodesTell, Runs
    <3> QED
      BY <1>2, <1>3, <3>1, <3>2, <3>3 DEF StopIsNoFailure, environment, Runs
  <2>2. CASE SelectedFails
    BY <1>2, <2>2 DEF SelectedFails, StopIsNoFailure, Runs
  <2>3. CASE GrepMalformed
    BY <1>2, <2>3 DEF GrepMalformed, StopIsNoFailure, collected, environment
  <2> QED
    BY <2>1, <2>2, <2>3
<1>10. LinesOwn'
  BY <1>1, LinesOwnStays DEF UniverseFails, SelectedFails, GrepMalformed, collected
<1> QED
  BY <1>4, <1>5, <1>6, <1>7, <1>8, <1>9, <1>10 DEF SearchInv

LEMMA StartSelectedStep ==
  ASSUME SearchInv, StartSelected
  PROVE  SearchInv'
<1>1. TypeOK /\ LinesKept /\ LinesOwn /\ KilledForReason /\ CodesTell /\ AnswerKept
  BY DEF SearchInv
<1>2. \A q \in Runs : Output(q)' = Output(q)
  BY DEF StartSelected, Output, environment
<1>3. TypeOK'
  <2>1. rg' \in [Runs -> {"idle", "running", "exited", "closed"}]
    BY <1>1 DEF StartSelected, TypeOK
  <2>2. \A q \in Runs : (code'[q] = "none") = (rg'[q] \in {"idle", "running"})
    <3>1. \A q \in Runs : rg'[q] \in {"idle", "running"} <=> rg[q] \in {"idle", "running"}
      BY <1>1 DEF StartSelected, TypeOK
    <3> QED
      BY <1>1, <3>1 DEF StartSelected, TypeOK
  <2>3. UNCHANGED <<environment, written, read, collected, killed, code, result>>
    BY DEF StartSelected
  <2> QED
    BY <1>1, <1>2, <2>1, <2>2, <2>3 DEF TypeOK, environment, collected
<1>4. LinesKept' /\ KilledForReason'
  BY <1>1 DEF StartSelected, LinesKept, KilledForReason, collected
<1>5. CodesTell'
  BY <1>1, <1>2 DEF StartSelected, CodesTell, TypeOK
<1>6. AnswerKept'
  BY <1>1 DEF StartSelected, AnswerKept, Pending, environment
<1>7. OnlyWanted' /\ StopIsNoFailure'
  BY AnswerUntouched DEF StartSelected, collected
<1>8. LinesOwn'
  BY <1>1, LinesOwnStays DEF StartSelected, collected
<1> QED
  BY <1>3, <1>4, <1>5, <1>6, <1>7, <1>8 DEF SearchInv

(* What a search answers is what both runs have, or what the one grep has. *)
LEMMA AnswerStep ==
  ASSUME SearchInv, GlobAnswers \/ GrepAnswers
  PROVE  SearchInv'
<1>1. TypeOK /\ LinesKept /\ LinesOwn /\ KilledForReason /\ CodesTell /\ AnswerKept
  BY DEF SearchInv
<1>2. /\ UNCHANGED <<environment, rg, written, read, collected, killed, code>>
      /\ rg["selected"] = "closed" /\ code["selected"] # "spawn"
  BY DEF GlobAnswers, GrepAnswers, Selected, Closed
<1>3. \A q \in Runs : Output(q)' = Output(q)
  BY <1>2 DEF Output, environment
<1>4. /\ \A q \in Runs : code[q] # "crash" => lines[q] \subseteq Output(q)
      /\ \A q \in Runs : \A f, g \in lines[q] \ Output(q) : f = g
      /\ hits \subseteq Files /\ ignored \subseteq Files /\ 0 \notin Files
      /\ lines["universe"] \subseteq Files \cup {0} /\ lines["selected"] \subseteq Files \cup {0}
  BY <1>1, ConstantsAssumption, FS_CardinalityType DEF TypeOK, LinesOwn, Runs
<1>5. \/ Failed /\ result' = Thrown
      \/ /\ ~ Failed
         /\ kind # "globIgnored" => Spared("universe", result'.paths \cap ignored)
         /\ Spared("selected", result'.paths \ hits)
         /\ result'.status = (IF timedOut["selected"] THEN "timeout" ELSE "ok")
         /\ result'.truncated = truncated["selected"]
  <2>1. ASSUME NEW paths, paths \subseteq lines["selected"] PROVE Spared("selected", paths \ hits)
    <3>1. Output("selected") \subseteq hits
      BY DEF Output
    <3>2. paths \ hits \subseteq lines["selected"] \ Output("selected")
      BY <2>1, <3>1
    <3> QED
      BY <1>4, <3>2 DEF Spared, Runs
  <2>2. ASSUME NEW paths, paths \subseteq Intersection, kind # "globIgnored"
        PROVE  Spared("universe", paths \cap ignored)
    <3>1. Output("universe") = Files \ ignored
      BY <2>2 DEF Output
    <3>2. paths \cap ignored \subseteq lines["universe"] \ Output("universe")
      BY <2>2, <3>1 DEF Intersection
    <3> QED
      BY <1>4, <3>2 DEF Spared, Runs
  <2>3. CASE GlobAnswers
    <3>1. \/ Failed /\ result' = Thrown
          \/ ~ Failed /\ \E paths \in {Intersection, Intersection \ {0}} : Told(paths)
      BY <2>3 DEF GlobAnswers
    <3>2. ASSUME NEW paths \in {Intersection, Intersection \ {0}}
          PROVE  paths \subseteq Intersection /\ paths \subseteq lines["selected"]
      BY DEF Intersection
    <3> QED
      BY <2>1, <2>2, <3>1, <3>2 DEF Told
  <2>4. CASE GrepAnswers /\ kind # "grep"
    <3>1. Intersection \subseteq lines["selected"]
      BY DEF Intersection
    <3> QED
      BY <2>1, <2>2, <2>4, <3>1 DEF GrepAnswers, Told
  <2>5. CASE GrepAnswers /\ kind = "grep"
    <3>1. Output("selected") = hits \ ignored
      BY <2>5 DEF Output
    <3>2. lines["selected"] \subseteq hits \ ignored
      BY <1>1, <2>5, <3>1 DEF GrepAnswers, LinesOwn
    <3>3. lines["selected"] \cap ignored = {}
      BY <3>2
    <3>4. Spared("universe", lines["selected"] \cap ignored)
      BY <3>3 DEF Spared
    <3> QED
      BY <2>1, <2>5, <3>4 DEF GrepAnswers, Told
  <2> QED
    BY <2>3, <2>4, <2>5
<1>6. result' = Thrown => \E q \in Runs : code[q] \in {"2", "spawn"}
  BY <1>5 DEF Failed, Thrown, Runs
<1>7. TypeOK'
  <2>1. result'.status \in {"none", "thrown", "ok", "timeout"}
    BY <1>5 DEF Thrown
  <2>2. UNCHANGED <<environment, rg, written, read, collected, killed, code>>
    BY <1>2
  <2> QED
    BY <1>1, <1>3, <2>1, <2>2 DEF TypeOK, environment, collected
<1>8. LinesKept' /\ KilledForReason'
  BY <1>1, <1>2 DEF LinesKept, KilledForReason, collected
<1>9. CodesTell'
  BY <1>1, <1>2, <1>3 DEF CodesTell
<1>10. AnswerKept'
  BY <1>1, <1>2, <1>5 DEF AnswerKept, Failed, Thrown, environment, collected
<1>11. OnlyWanted'
  BY <1>2, <1>5 DEF OnlyWanted, Spared, Thrown, environment, collected
<1>12. StopIsNoFailure'
  BY <1>2, <1>6 DEF StopIsNoFailure
<1>13. LinesOwn'
  BY <1>1, LinesOwnStays DEF GlobAnswers, GrepAnswers, collected
<1> QED
  BY <1>7, <1>8, <1>9, <1>10, <1>11, <1>12, <1>13 DEF SearchInv

LEMMA NextInv == SearchInv /\ [Next]_vars => SearchInv'
<1> SUFFICES ASSUME SearchInv, [Next]_vars PROVE SearchInv'
  OBVIOUS
<1>1. ASSUME NEW r \in Runs,
             RgWrites(r) \/ RgExits(r) \/ SpawnFails(r) \/ RunStep(r) \/ Abort(r)
      PROVE  SearchInv'
  BY <1>1, RgWritesStep, RgExitsStep, SpawnFailsStep, DataStep, CloseStep, GraceStep, AbortStep
     DEF RunStep
<1>2. CASE SearchStep
  BY <1>2, FailureStep, StartSelectedStep, AnswerStep DEF SearchStep
<1>3. CASE UNCHANGED vars
  <2>1. UNCHANGED <<environment, result, rg, written, read, collected, killed, code>>
    BY <1>3 DEF vars
  <2>2. \A r \in Runs : Output(r)' = Output(r)
    BY <2>1 DEF Output, environment
  <2>3. TypeOK' /\ CodesTell'
    BY <2>1, <2>2 DEF SearchInv, TypeOK, CodesTell, environment, collected
  <2>4. LinesKept' /\ KilledForReason' /\ AnswerKept'
    BY <2>1 DEF SearchInv, LinesKept, KilledForReason, AnswerKept, environment, collected
  <2>5. OnlyWanted' /\ StopIsNoFailure'
    BY <2>1, AnswerUntouched DEF collected
  <2>6. LinesOwn'
    BY <2>1, LinesOwnStays DEF SearchInv, collected
  <2> QED
    BY <2>3, <2>4, <2>5, <2>6 DEF SearchInv
<1> QED
  BY <1>1, <1>2, <1>3 DEF Next

(* An answer that is not truncated is of a run nobody stopped. *)
LEMMA InvImpliesTold == SearchInv => SelectedTold
<1> SUFFICES ASSUME SearchInv, result.status = "ok", ~ result.truncated, code["selected"] # "crash"
             PROVE  lines["selected"] = Output("selected")
  BY DEF SelectedTold
<1>1. "selected" \in Runs
  BY DEF Runs
<1>2. rg["selected"] = "closed" /\ ~ timedOut["selected"] /\ ~ truncated["selected"]
      /\ code["selected"] \notin {"2", "spawn"}
  BY DEF SearchInv, AnswerKept
<1>3. ~ killed["selected"] /\ code["selected"] # "signal"
  BY <1>1, <1>2 DEF SearchInv, KilledForReason
<1>4. code["selected"] \in {"0", "1"}
  BY <1>1, <1>2, <1>3 DEF SearchInv, TypeOK
<1> QED
  BY <1>1, <1>2, <1>3, <1>4 DEF SearchInv, CodesTell, LinesKept

THEOREM SearchIsInv == Spec => []SearchInv
BY InitInv, NextInv, PTL DEF Spec

(* Types; the lines of the selected run are within the budget. *)
THEOREM SearchTypeCorrect == Spec => []TypeOK
<1>1. SearchInv => TypeOK
  BY DEF SearchInv
<1> QED
  BY <1>1, SearchIsInv, PTL

(* No answer holds an ignored file that was not asked for, or one the pattern does
   not select, however the two runs of ripgrep end (search.ts 160-167); of an rg
   that died by itself in the middle of a line, one (search.ts 146-151). *)
THEOREM OnlyWantedFound == Spec => []OnlyWanted
<1>1. SearchInv => OnlyWanted
  BY DEF SearchInv
<1> QED
  BY <1>1, SearchIsInv, PTL

(* An answer that says ok and not truncated has the whole selection to choose from. *)
THEOREM SelectionTold == Spec => []SelectedTold
BY InvImpliesTold, SearchIsInv, PTL

(* A search that was stopped does not throw for that. *)
THEOREM StoppedIsNotFailed == Spec => []StopIsNoFailure
<1>1. SearchInv => StopIsNoFailure
  BY DEF SearchInv
<1> QED
  BY <1>1, SearchIsInv, PTL
=============================================================================
