-------------------------- MODULE RepositoryProofs --------------------------
(***************************************************************************)
(* For any number of requests and pushes.  The policy file of a            *)
(* repository: it keeps its type, the settings a request is not about      *)
(* survive it, and an unchecked push was let through only for one of the   *)
(* three reasons UncheckedExplained names.  Its directories and links:     *)
(* what git serves has the hook, and a name can always be used again.  Its *)
(* appframes.toml: what a request that ran alone may lose of it.  Its pull *)
(* requests at the forge: where a notification is written, and what it may *)
(* say it has told.                                                        *)
(***************************************************************************)
EXTENDS GatePolicy, FramesFile, RepoFiles, StickyComment, FiniteSetTheorems,
        SequenceTheorems, WellFoundedInduction, TLAPS

-----------------------------------------------------------------------------
(* The policy file.                                                        *)


\* While nothing is spoilt at most one request is under way; what it will write differs
\* from the settings asked for in its own field only; the file is those settings, or
\* empty between the truncation and the write.
OneRequest ==
    /\ \A s, t \in Busy : s = t
    /\ Busy = {} => toml = Whole(asked)
    /\ \A s \in Busy :
          /\ saver[s].copy = Request(s)
          /\ saver[s].at = "loaded" => toml = Whole(asked)
          /\ saver[s].at = "truncated" => toml = Empty

Serial == ~spoilt => OneRequest

\* A push let through unchecked is explained from the moment it was gated.
Explained ==
    \A p \in GatePushes :
        gate[p].at \in {"accepted", "relayed"} /\ ~gate[p].checked
            => gate[p].off \/ gate[p].gap \/ spoilt

PolicyInv == GatePolicyTypeOK /\ Serial /\ Explained

-----------------------------------------------------------------------------
\* What With returns is a policy, and says of its own field what it was told.
LEMMA WithIsPolicy ==
    ASSUME NEW policy \in Policies, NEW f \in Fields, NEW v \in BOOLEAN
    PROVE  With(policy, f, v) \in Policies /\ (f \in With(policy, f, v) <=> v)
  BY DEF With, Policies

\* The setting a well-typed request asks for makes a policy.
LEMMA RequestIsPolicy ==
    ASSUME GatePolicyTypeOK, NEW s \in Savers
    PROVE  Request(s) \in Policies
<1>1. saver[s].field \in Fields /\ (saver[s].field \in saver[s].copy) \in BOOLEAN
  BY DEF GatePolicyTypeOK
<1> QED BY <1>1, WithIsPolicy DEF GatePolicyTypeOK, Request

\* The invariant holds when the dashboard starts.
LEMMA PolicyInitInv == GatePolicyInit => PolicyInv
<1> SUFFICES ASSUME GatePolicyInit PROVE PolicyInv OBVIOUS
<1> USE DEF GatePolicyInit
<1>1. GatePolicyTypeOK
  <2>1. Registered \in Policies
    BY DEF Registered, Policies, Fields
  <2>2. toml \in Contents /\ asked \in Policies
    BY <2>1 DEF Contents
  <2>3. IdleSaver \in [at : {"idle", "loaded", "truncated"}, field : Fields, copy : Policies]
    BY DEF IdleSaver, Policies, Fields
  <2>4. saver \in [Savers -> [at : {"idle", "loaded", "truncated"}, field : Fields,
                              copy : Policies]]
    BY <2>3
  <2>5. saveCount \in 0 .. MaxSaves /\ saveFaults \in 0 .. MaxSaveFaults
    BY GatePolicyAssumption
  <2> QED BY <2>2, <2>4, <2>5 DEF GatePolicyTypeOK
<1>2. Serial
  BY DEF Serial, OneRequest, Busy, IdleSaver
<1>3. Explained
  BY DEF Explained
<1> QED BY <1>1, <1>2, <1>3 DEF PolicyInv

\* Every request step preserves the invariant.
LEMMA LoadInv ==
    ASSUME PolicyInv, NEW s \in Savers, NEW f \in Forms, NEW v \in BOOLEAN,
           LoadPolicy(s, f, v)
    PROVE  PolicyInv'
<1> USE DEF PolicyInv, LoadPolicy
<1>0. f \in Fields /\ toml.on \in Policies
  BY GatePolicyAssumption
  DEF GatePolicyTypeOK, Contents, Whole, Empty, Garbled, Policies
<1>1. With(toml.on, f, v) \in Policies /\ (f \in With(toml.on, f, v) <=> v)
  BY <1>0, WithIsPolicy
<1>2. GatePolicyTypeOK'
  BY <1>0, <1>1, GatePolicyAssumption DEF GatePolicyTypeOK
<1>3. Serial'
  <2> SUFFICES ASSUME ~spoilt' PROVE OneRequest' BY DEF Serial
  <2>1. ~spoilt /\ Busy = {} OBVIOUS
  <2>2. toml = Whole(asked) /\ toml' = toml /\ asked' = asked
    BY <2>1 DEF Serial, OneRequest
  <2>3. \A t \in Savers : saver[t].at = "idle"
    BY <2>1 DEF Busy
  <2>4. saver'[s] = [at |-> "loaded", field |-> f, copy |-> With(asked, f, v)]
    BY <2>2 DEF GatePolicyTypeOK, Whole
  <2>5. \A t \in Savers : t # s => saver'[t] = saver[t]
    BY DEF GatePolicyTypeOK
  <2>6. Busy' = {s}
    BY <2>3, <2>4, <2>5 DEF Busy
  <2>7. saver'[s].copy = With(asked, f, f \in With(asked, f, v))
    BY <2>4, <1>1, <2>2 DEF Whole, With
  <2>8. Request(s)' = With(asked, f, f \in With(asked, f, v))
    BY <2>2, <2>4 DEF Request
  <2> QED BY <2>2, <2>4, <2>6, <2>7, <2>8 DEF OneRequest
<1>4. Explained'
  BY DEF Explained
<1> QED BY <1>2, <1>3, <1>4

LEMMA TruncateInv ==
    ASSUME PolicyInv, NEW s \in Savers, Truncate(s)
    PROVE  PolicyInv'
<1> USE DEF PolicyInv, Truncate
<1>1. GatePolicyTypeOK'
  BY DEF GatePolicyTypeOK, Contents
<1>2. Serial'
  <2> SUFFICES ASSUME ~spoilt' PROVE OneRequest' BY DEF Serial
  <2>1. saver'[s] = [saver[s] EXCEPT !.at = "truncated"]
        /\ \A t \in Savers : t # s => saver'[t] = saver[t]
    BY DEF GatePolicyTypeOK
  <2>2. s \in Busy /\ Busy = {s} /\ Busy' = {s}
    BY <2>1 DEF Busy, Serial, OneRequest, GatePolicyTypeOK
  <2>3. Request(s)' = Request(s) /\ saver'[s].copy = saver[s].copy
    BY <2>1 DEF Request, GatePolicyTypeOK
  <2> QED BY <2>1, <2>2, <2>3 DEF Serial, OneRequest, GatePolicyTypeOK
<1>3. Explained'
  BY DEF Explained
<1> QED BY <1>1, <1>2, <1>3

\* The two ways a request ends: it wrote its copy, and what was asked for is its setting.
LEMMA WrittenInv ==
    ASSUME PolicyInv, NEW s \in Savers, saver[s].at # "idle",
           toml' \in {Whole(saver[s].copy), Garbled},
           toml' = Garbled => saver[s].at = "truncated" /\ toml # Empty,
           asked' = Request(s), saver' = [saver EXCEPT ![s] = IdleSaver],
           UNCHANGED <<spoilt, gate, saveCount, saveFaults>>
    PROVE  PolicyInv'
<1> USE DEF PolicyInv
<1>1. GatePolicyTypeOK'
  BY RequestIsPolicy DEF GatePolicyTypeOK, Contents, IdleSaver, Policies, Fields
<1>2. Serial'
  <2> SUFFICES ASSUME ~spoilt' PROVE OneRequest' BY DEF Serial
  <2>1. saver'[s] = IdleSaver /\ \A t \in Savers : t # s => saver'[t] = saver[t]
    BY DEF GatePolicyTypeOK
  <2>2. s \in Busy /\ Busy = {s}
    BY DEF Busy, Serial, OneRequest, GatePolicyTypeOK
  <2>3. Busy' = {}
    BY <2>1, <2>2 DEF Busy, IdleSaver
  <2>4. saver[s].copy = Request(s) /\ toml' = Whole(saver[s].copy)
    BY <2>2 DEF Serial, OneRequest
  <2> QED BY <2>3, <2>4 DEF OneRequest
<1>3. Explained'
  BY DEF Explained
<1> QED BY <1>1, <1>2, <1>3

LEMMA StopsInv ==
    ASSUME PolicyInv, NEW s \in Savers, SaverStops(s)
    PROVE  PolicyInv'
<1> USE DEF PolicyInv, SaverStops
<1>1. GatePolicyTypeOK'
  BY GatePolicyAssumption DEF GatePolicyTypeOK, IdleSaver, Policies, Fields
<1>2. Serial'
  <2> SUFFICES ASSUME ~spoilt' PROVE OneRequest' BY DEF Serial
  <2>1. saver'[s] = IdleSaver /\ \A t \in Savers : t # s => saver'[t] = saver[t]
    BY DEF GatePolicyTypeOK
  <2>2. s \in Busy /\ Busy = {s}
    BY DEF Busy, Serial, OneRequest, GatePolicyTypeOK
  <2>4. saver[s].at = "loaded"
    BY DEF GatePolicyTypeOK
  <2>3. Busy' = {}
    BY <2>1, <2>2 DEF Busy, IdleSaver
  <2> QED BY <2>2, <2>3, <2>4 DEF Serial, OneRequest
<1>3. Explained'
  BY DEF Explained
<1> QED BY <1>1, <1>2, <1>3

\* Every step of a push preserves the invariant.
LEMMA GatePushInv ==
    ASSUME PolicyInv, NEW p \in GatePushes, NEW dirty \in BOOLEAN, GatePush(p, dirty)
    PROVE  PolicyInv'
<1> USE DEF PolicyInv, GatePush
<1>1. GatePolicyTypeOK'
  BY DEF GatePolicyTypeOK
<1>2. Serial'
  BY DEF Serial, OneRequest, Busy, Request
<1>3. Explained'
  <2> SUFFICES ASSUME gate'[p].at \in {"accepted", "relayed"}, ~gate'[p].checked,
                      ~gate'[p].off, ~gate'[p].gap, ~spoilt
               PROVE  FALSE
    BY DEF Explained, GatePolicyTypeOK
  <2>1. toml # Garbled /\ toml # Empty /\ {"enabled", "refs"} \subseteq asked
        /\ ~({"enabled", "refs"} \subseteq toml.on)
    BY DEF GatePolicyTypeOK
  <2>2. toml # Whole(asked)
    BY <2>1 DEF Whole
  <2>3. PICK s \in Busy : TRUE
    BY <2>2 DEF Serial, OneRequest
  <2>4. saver[s].at \in {"loaded", "truncated"}
    BY <2>3 DEF Busy, GatePolicyTypeOK
  <2> QED BY <2>1, <2>2, <2>3, <2>4 DEF Serial, OneRequest
<1> QED BY <1>1, <1>2, <1>3

LEMMA RelayPushInv ==
    ASSUME PolicyInv, NEW p \in GatePushes, RelayPush(p)
    PROVE  PolicyInv'
<1> USE DEF PolicyInv, RelayPush
<1>1. GatePolicyTypeOK'
  BY DEF GatePolicyTypeOK
<1>2. Serial'
  BY DEF Serial, OneRequest, Busy, Request
<1>3. Explained'
  BY DEF Explained, GatePolicyTypeOK
<1> QED BY <1>1, <1>2, <1>3

\* Every step of the module preserves the invariant.
LEMMA PolicyStepInv == PolicyInv /\ [GatePolicyNext]_gatePolicyVars => PolicyInv'
<1> SUFFICES ASSUME PolicyInv, [GatePolicyNext]_gatePolicyVars PROVE PolicyInv' OBVIOUS
<1>1. ASSUME NEW s \in Savers, NEW f \in Forms, NEW v \in BOOLEAN, LoadPolicy(s, f, v)
      PROVE  PolicyInv'
  BY <1>1, LoadInv
<1>2. ASSUME NEW s \in Savers, Truncate(s) PROVE PolicyInv'
  BY <1>2, TruncateInv
<1>3. ASSUME NEW s \in Savers, WritePolicy(s) PROVE PolicyInv'
  <2>1. Garbled # Whole(saver[s].copy)
    BY DEF Garbled, Whole
  <2> QED BY <1>3, <2>1, WrittenInv DEF WritePolicy
<1>4. ASSUME NEW s \in Savers, RenamePolicy(s) PROVE PolicyInv'
  <2>1. Garbled # Whole(saver[s].copy)
    BY DEF Garbled, Whole
  <2> QED BY <1>4, <2>1, WrittenInv DEF RenamePolicy
<1>5. ASSUME NEW s \in Savers, SaverStops(s) PROVE PolicyInv'
  BY <1>5, StopsInv
<1>6. ASSUME NEW p \in GatePushes, NEW dirty \in BOOLEAN, GatePush(p, dirty)
      PROVE  PolicyInv'
  BY <1>6, GatePushInv
<1>7. ASSUME NEW p \in GatePushes, RelayPush(p) PROVE PolicyInv'
  BY <1>7, RelayPushInv
<1>8. CASE UNCHANGED gatePolicyVars
  BY <1>8 DEF gatePolicyVars, PolicyInv, GatePolicyTypeOK, Serial, OneRequest, Explained, Busy, Request
<1> QED BY <1>1, <1>2, <1>3, <1>4, <1>5, <1>6, <1>7, <1>8 DEF GatePolicyNext

LEMMA PolicyInvariant == GatePolicySpec => []PolicyInv
  BY PolicyInitInv, PolicyStepInv, PTL DEF GatePolicySpec

-----------------------------------------------------------------------------
\* gateway.toml, the requests and the pushes keep their types.
THEOREM PolicyTypeCorrect == GatePolicySpec => []GatePolicyTypeOK
  BY PolicyInvariant, PTL DEF PolicyInv

\* A request preserves the settings it is not about, unless requests overlapped or one
\* stopped in its write: however many requests there are.
THEOREM PreservesTheRest == GatePolicySpec => []RestPreserved
<1>1. PolicyInv => RestPreserved
  BY DEF PolicyInv, Serial, OneRequest, RestPreserved
<1> QED BY <1>1, PolicyInvariant, PTL

\* The gate opens only when it is off, when the file is truncated or after a spoilt request.
THEOREM OpensForThreeReasons == GatePolicySpec => []UncheckedExplained
<1>1. PolicyInv => UncheckedExplained
  BY DEF PolicyInv, Explained, UncheckedExplained
<1> QED BY <1>1, PolicyInvariant, PTL

-----------------------------------------------------------------------------
(* The directories and links of a name: the file operations.               *)

\* What each file operation leaves, and when the file system lets it happen.
LEMMA MakeDone ==
    ASSUME NEW x \in {"libPolicy", "libBare", "toml", "frames", "capped", "preHook", "postHook"}
    PROVE  /\ Possible(Make(x)) <=> x \in Places \/ LibOf(x) \in disk
           /\ Result(Make(x)) = disk \cup {x}
  BY DEF Possible, Result, Make

LEMMA LinkDone ==
    ASSUME NEW x \in {"linkPolicy", "linkBare"}
    PROVE  /\ Possible(Link(x)) <=> x \notin disk /\ DirOf(x) \notin disk
           /\ Result(Link(x)) = disk \cup {x}
  BY DEF Possible, Result, Link

LEMMA DropDone ==
    ASSUME NEW x \in {"linkPolicy", "linkBare"}
    PROVE  /\ Possible(Drop(x)) <=> x \in disk
           /\ Result(Drop(x)) = disk \ {x}
  BY DEF Possible, Result, Drop

LEMMA TryLinkDone ==
    ASSUME NEW x \in {"linkPolicy", "linkBare"}
    PROVE  /\ Possible(Try(x)) 
           /\ Result(Try(x)) = disk \ {x}
  BY DEF Possible, Result, Try

LEMMA TryPolicyDone ==
    /\ Possible(Try("libPolicy"))
    /\ \A x \in Places \cup {"preHook"} :
           x \in Result(Try("libPolicy")) <=> x \in disk /\ x # "libPolicy"
  BY DEF Possible, Result, Try, ContentsOf, PolicyFiles, Places

LEMMA TryBareDone ==
    /\ Possible(Try("libBare"))
    /\ \A x \in Places :
           x \in Result(Try("libBare")) <=> x \in disk /\ x # "libBare"
    /\ "preHook" \in Result(Try("libBare")) <=> "preHook" \in disk /\ "libBare" \notin disk
  BY DEF Possible, Result, Try, ContentsOf, BareParts, Places

LEMMA WriteDone ==
    ASSUME NEW x \in {"frames", "credential"}
    PROVE  /\ Possible(Write(x)) <=> ("linkPolicy" \in disk => "libPolicy" \in disk)
           /\ "linkPolicy" \in disk => Result(Write(x)) = disk \cup {x}
  BY DEF Possible, Result, Write

LEMMA MoveDone ==
    ASSUME NEW x \in {"dirPolicy", "dirBare"}
    PROVE  /\ Possible(Move(x)) <=> x \in disk /\ LibOf(x) \notin disk
           /\ Result(Move(x)) = (disk \ {x}) \cup {LibOf(x)}
  BY DEF Possible, Result, Move

LEMMA SeedDone ==
    /\ Possible(Seed)
    /\ \A x \in Places \cup {"preHook"} : x \in Result(Seed) <=> x \in disk
  BY DEF Possible, Result, Seed, Places

\* What is done when an operation cannot be: what is left to do, for each list.
LEMMA UndoTry == \A op, x, rest : Undo(op, Try(x), rest) = rest
  BY DEF Undo, Try, Make, Link, Drop

LEMMA UndoAdd ==
    ASSUME NEW rest
    PROVE  /\ \A x \in {"libPolicy", "libBare"} : Undo("add", Make(x), rest) = <<Try("libPolicy")>>
           /\ \A x \in {"toml", "frames", "capped", "preHook", "postHook"} :
                  Undo("add", Make(x), rest) = <<Try("libPolicy"), Try("libBare")>>
           /\ Undo("add", Link("linkPolicy"), rest) = <<Try("libPolicy"), Try("libBare")>>
           /\ Undo("add", Link("linkBare"), rest) =
                  <<Try("linkPolicy"), Try("libPolicy"), Try("libBare")>>
           /\ \A x : Undo("add", Write(x), rest) = <<>>
           /\ Undo("add", Seed, rest) = <<>>
  BY DEF Undo, Try, Make, Link, Write, Seed, Places

LEMMA UndoArchive ==
    ASSUME NEW rest, NEW step \in {Drop("linkPolicy"), Drop("linkBare"), Link("linkPolicy")}
    PROVE  Undo("archive", step, rest) \in {<<>>, <<Link("linkPolicy")>>}
  BY DEF Undo, Try, Make, Link, Drop

LEMMA UndoRestore ==
    ASSUME NEW rest, NEW step \in {Link("linkPolicy"), Link("linkBare"), Try("linkPolicy")}
    PROVE  Undo("restore", step, rest) \in {<<>>, <<Try("linkPolicy")>>, rest}
  BY DEF Undo, Try, Make, Link, Drop

LEMMA NothingUndone ==
    ASSUME NEW rest, NEW op \in {"migrate", "credential", "regen", "sync"}, NEW step, step.do # "try"
    PROVE  Undo(op, step, rest) = <<>>
  BY DEF Undo

\* The list of a registration, operation by operation.
LEMMA ConcatOfTwelve ==
    ASSUME NEW S, NEW s \in Seq(S), NEW t \in Seq(S), Len(s) = 9, Len(t) = 3
    PROVE  /\ s \o t \in Seq(S) /\ Len(s \o t) = 12
           /\ \A i \in 1 .. 12 : (s \o t)[i] = IF i <= 9 THEN s[i] ELSE t[i - 9]
<1>1. /\ s \o t \in Seq(S)
      /\ Len(s \o t) = Len(s) + Len(t)
      /\ \A i \in 1 .. Len(s) + Len(t) :
             (s \o t)[i] = IF i <= Len(s) THEN s[i] ELSE t[i - Len(s)]
  BY ConcatProperties, Zenon
<1>2. Len(s) + Len(t) = 12
  OBVIOUS
<1>3. Len(s \o t) = 12
  BY <1>1, <1>2
<1>4. ASSUME NEW i \in 1 .. 12
      PROVE  (s \o t)[i] = IF i <= 9 THEN s[i] ELSE t[i - 9]
  <2>1. i \in 1 .. Len(s) + Len(t)
    OBVIOUS
  <2>2. (s \o t)[i] = IF i <= Len(s) THEN s[i] ELSE t[i - Len(s)]
    BY <1>1, <2>1, Zenon
  <2> QED BY <2>2
<1> QED BY <1>1, <1>3, <1>4

LEMMA AddListItems ==
    /\ \E S : AddList \in Seq(S)
    /\ Len(AddList) = 12
    /\ AddList[1] = Make("libPolicy") /\ AddList[2] = Make("libBare") /\ AddList[3] = Make("capped")
    /\ AddList[4] = Make("toml") /\ AddList[5] = Make("frames") /\ AddList[6] = Make("preHook")
    /\ AddList[7] = Make("postHook") /\ AddList[8] = Link("linkPolicy")
    /\ AddList[9] = Link("linkBare")
    /\ AddList[10] = Write("frames") /\ AddList[11] = Write("credential") /\ AddList[12] = Seed
<1> DEFINE S == {Make("libPolicy"), Make("libBare"), Make("capped"), Make("toml"),
              Make("frames"), Make("preHook"), Make("postHook"),
              Link("linkPolicy"), Link("linkBare"), Write("frames"), Write("credential"), Seed}
<1>1. /\ AddSteps \in Seq(S) /\ Len(AddSteps) = 9
      /\ AddSteps[1] = Make("libPolicy") /\ AddSteps[2] = Make("libBare")
      /\ AddSteps[3] = Make("capped") /\ AddSteps[4] = Make("toml")
      /\ AddSteps[5] = Make("frames") /\ AddSteps[6] = Make("preHook")
      /\ AddSteps[7] = Make("postHook") /\ AddSteps[8] = Link("linkPolicy")
      /\ AddSteps[9] = Link("linkBare")
  BY DEF AddSteps
<1>2. /\ AfterAdd \in Seq(S) /\ Len(AfterAdd) = 3
      /\ AfterAdd[1] = Write("frames") /\ AfterAdd[2] = Write("credential") /\ AfterAdd[3] = Seed
  BY DEF AfterAdd
<1> HIDE DEF S
<1>4. /\ AddList \in Seq(S) /\ Len(AddList) = 12
      /\ \A i \in 1 .. 12 : AddList[i] = IF i <= 9 THEN AddSteps[i] ELSE AfterAdd[i - 9]
  BY <1>1, <1>2, ConcatOfTwelve, Zenon DEF AddList
<1>5. /\ \A i \in 1 .. 9 : AddList[i] = AddSteps[i]
      /\ \A i \in 1 .. 3 : AddList[i + 9] = AfterAdd[i]
  BY <1>4
<1>6. AddList[10] = AfterAdd[1] /\ AddList[11] = AfterAdd[2] /\ AddList[12] = AfterAdd[3]
  BY <1>5
<1> QED BY <1>1, <1>2, <1>4, <1>5, <1>6

\* Short lists, and the first operation of one.
LEMMA OneStep ==
    ASSUME NEW S, NEW x \in S
    PROVE  <<>> \in Seq(S) /\ <<x>> \in Seq(S)
  OBVIOUS

LEMMA TwoSteps ==
    ASSUME NEW S, NEW x \in S, NEW y \in S
    PROVE  <<>> \in Seq(S) /\ <<x, y>> \in Seq(S)
  OBVIOUS

LEMMA SeqStep ==
    ASSUME NEW S, NEW t \in Seq(S), t # <<>>
    PROVE  Head(t) \in S /\ Tail(t) \in Seq(S)
  BY HeadTailProperties

-----------------------------------------------------------------------------
(* What each request finds at every operation of its list, as long as it   *)
(* is alone at the name.                                                   *)

\* What is in place whatever request runs.
Footing ==
    /\ "dirBare" \in disk => "libBare" \notin disk /\ "linkBare" \notin disk
    /\ "dirPolicy" \in disk =>
           /\ "dirBare" \in disk
           /\ "libPolicy" \notin disk /\ "linkPolicy" \notin disk
    /\ "linkPolicy" \in disk \/ "linkBare" \in disk
         => \/ "libPolicy" \in disk \/ "libBare" \in disk \/ "dirBare" \in disk
            \/ halfDone
    /\ Served => cutShort \/ "preHook" \in disk

\* What a registration finds before its k-th operation, when nobody else is at the name.
AddPlaces(k) ==
    /\ k >= 2 => "libPolicy" \in disk
    /\ k >= 3 <=> "libBare" \in disk
    /\ k >= 9 <=> "linkPolicy" \in disk
    /\ k >= 10 <=> "linkBare" \in disk
    /\ k >= 7 => cutShort \/ "preHook" \in disk

\* A registration that is not undone.
Registering(todo) == \E k \in 1 .. 12 : todo = SubSeq(AddList, k, 12) /\ AddPlaces(k)

\* The undoing of one: a link that a failed removal left is halfDone, and so is a directory.
Undoing(todo) ==
    /\ "linkBare" \notin disk
    /\ \/ todo = <<Try("linkPolicy"), Try("libPolicy"), Try("libBare")>>
       \/ /\ "linkPolicy" \notin disk \/ halfDone
          /\ \/ todo = <<Try("libPolicy"), Try("libBare")>>
             \/ /\ todo = <<Try("libPolicy")>>
                /\ cutShort \/ halfDone \/ "libBare" \notin disk
             \/ /\ todo = <<Try("libBare")>>
                /\ cutShort \/ halfDone \/ "libPolicy" \notin disk

\* A deletion, each place gone that it has passed unless its removal failed.
Deleting(todo) ==
    \E k \in 1 .. 4 :
        /\ todo = SubSeq(DeleteSteps, k, 4)
        /\ k <= 2 => "libPolicy" \in disk \/ "libBare" \in disk
        /\ k >= 2 => "linkPolicy" \notin disk \/ halfDone
        /\ k >= 3 => "linkBare" \notin disk \/ halfDone
        /\ k >= 4 => "libPolicy" \notin disk \/ halfDone

\* An archiving, with its undoing.
Archiving(todo) ==
    /\ todo \in Seq({Drop("linkPolicy"), Drop("linkBare"), Link("linkPolicy")})
    /\ "libPolicy" \in disk \/ "libBare" \in disk \/ halfDone

\* A restoration, with its undoing.
Restoring(todo) ==
    /\ todo \in Seq({Link("linkPolicy"), Link("linkBare"), Try("linkPolicy")})
    /\ "libPolicy" \in disk /\ "libBare" \in disk
    /\ "dirPolicy" \notin disk /\ "dirBare" \notin disk

\* A migration: while the policy is a directory, moving it is what comes next.
Migrating(todo) ==
    /\ todo \in Seq({Move("dirPolicy"), Link("linkPolicy"), Move("dirBare"), Link("linkBare")})
    /\ "libPolicy" \in disk \/ "libBare" \in disk \/ "dirBare" \in disk
    /\ "dirPolicy" \in disk => Head(todo) = Move("dirPolicy")
    /\ "libBare" \in disk => cutShort \/ "preHook" \in disk

\* What a request still has to do, and what it finds.
Course(op, todo) ==
    \/ /\ op = "add" /\ "dirPolicy" \notin disk /\ "dirBare" \notin disk
       /\ Registering(todo) \/ Undoing(todo)
    \/ op = "archive" /\ Archiving(todo)
    \/ op = "restore" /\ Restoring(todo)
    \/ op = "delete" /\ Deleting(todo)
    \/ op = "migrate" /\ Migrating(todo)
    \/ /\ op = "credential" /\ todo \in Seq({Write("credential")})
       /\ "linkPolicy" \in disk /\ "libPolicy" \in disk
    \/ op = "regen" /\ todo \in Seq({Make("frames")})
    \/ op = "sync" /\ todo \in Seq({Seed})

\* What stands while a request has this to do: the two directories of a repository that is not
\* being registered have the hook.
Sound(op, todo) ==
    /\ Footing
    /\ op # "add" \/ todo = <<>> =>
           \/ cutShort \/ "preHook" \in disk
           \/ "libPolicy" \notin disk \/ "libBare" \notin disk
    /\ todo # <<>> => Course(op, todo)

\* The next operation, as AdminStep has it when it can happen,
Goes(todo, rest) ==
    /\ Possible(Head(todo)) /\ disk' = Result(Head(todo)) /\ rest = Tail(todo)
    /\ cutShort' <=> cutShort
    /\ halfDone' <=> halfDone

\* as AdminStepFails has it,
Fails(op, todo, rest) ==
    /\ rest = Undo(op, Head(todo), Tail(todo))
    /\ \/ disk' \in HalfRemoved(Head(todo))
       \/ Head(todo) = Make("libBare") /\ disk' = disk \cup {"libBare"}
       \/ Head(todo) = Seed /\ disk' = disk \cup {"pending"}
    /\ halfDone' <=> halfDone \/ op \in {"delete", "migrate"}
                    \/ Head(todo) = Make("libBare") \/ Head(todo).do = "try"
    /\ cutShort' <=> cutShort \/ (halfDone /\ Head(todo).do = "try")

\* when it cannot,
Blocked(op, todo, rest) ==
    /\ ~Possible(Head(todo)) /\ disk' = disk /\ rest = Undo(op, Head(todo), Tail(todo))
    /\ cutShort' <=> cutShort
    /\ halfDone' <=> halfDone

\* and as AdminStops has it.
Stopped(op, todo) ==
    /\ disk' \in HalfRemoved(Head(todo))
    /\ halfDone' <=> halfDone
    /\ cutShort' <=> cutShort \/ op = "add" \/ (halfDone /\ Head(todo).do = "try")

\* What is left of a list after its first operations.
LEMMA RestOfList ==
    ASSUME NEW S, NEW s \in Seq(S), NEW n \in Nat, Len(s) = n, NEW k \in 1 .. n
    PROVE  /\ Head(SubSeq(s, k, n)) = s[k]
           /\ Tail(SubSeq(s, k, n)) = SubSeq(s, k + 1, n)
           /\ SubSeq(s, k, n) # <<>>
<1>1. k \in 1 .. Len(s) /\ n \in k .. Len(s)
  OBVIOUS
<1>2. Head(SubSeq(s, k, n)) = s[k] /\ Tail(SubSeq(s, k, n)) = SubSeq(s, k + 1, n)
  BY <1>1, HeadTailOfSubSeq, Zenon
<1>3. \A i \in k .. n : s[i] \in S
  <2>1. \A i \in 1 .. Len(s) : s[i] \in S  BY ElementOfSeq, Zenon
  <2> QED BY <2>1
<1>4. Len(SubSeq(s, k, n)) = n - k + 1
  <2>1. Len(SubSeq(s, k, n)) = IF k <= n THEN n - k + 1 ELSE 0
    <3>1. k \in Int /\ n \in Int  OBVIOUS
    <3>2. /\ SubSeq(s, k, n) \in Seq(S)
          /\ Len(SubSeq(s, k, n)) = IF k <= n THEN n - k + 1 ELSE 0
          /\ \A i \in 1 .. n - k + 1 : SubSeq(s, k, n)[i] = s[k + i - 1]
      BY <3>1, <1>3, SubSeqProperties
    <3> QED BY <3>2
  <2> QED BY <2>1
<1> QED BY <1>2, <1>4

LEMMA RestOfAdd ==
    /\ \A k \in 1 .. 12 : /\ Head(SubSeq(AddList, k, 12)) = AddList[k]
                          /\ Tail(SubSeq(AddList, k, 12)) = SubSeq(AddList, k + 1, 12)
                          /\ SubSeq(AddList, k, 12) # <<>>
    /\ SubSeq(AddList, 13, 12) = <<>>
<1>1. PICK S : AddList \in Seq(S)  BY AddListItems, Zenon
<1>2. Len(AddList) = 12 /\ 12 \in Nat  BY AddListItems
<1>3. SubSeq(AddList, 13, 12) = <<>>  BY SubSeqEmpty
<1> QED BY <1>1, <1>2, <1>3, RestOfList, Zenon

LEMMA RestOfDelete ==
    /\ Head(SubSeq(DeleteSteps, 1, 4)) = Try("linkPolicy")
    /\ Head(SubSeq(DeleteSteps, 2, 4)) = Try("linkBare")
    /\ Head(SubSeq(DeleteSteps, 3, 4)) = Try("libPolicy")
    /\ Head(SubSeq(DeleteSteps, 4, 4)) = Try("libBare")
    /\ \A k \in 1 .. 4 : /\ Tail(SubSeq(DeleteSteps, k, 4)) = SubSeq(DeleteSteps, k + 1, 4)
                         /\ SubSeq(DeleteSteps, k, 4) # <<>>
    /\ SubSeq(DeleteSteps, 5, 4) = <<>>
<1> DEFINE S == {Try("linkPolicy"), Try("linkBare"), Try("libPolicy"), Try("libBare")}
<1>1. /\ DeleteSteps \in Seq(S) /\ Len(DeleteSteps) = 4
      /\ DeleteSteps[1] = Try("linkPolicy") /\ DeleteSteps[2] = Try("linkBare")
      /\ DeleteSteps[3] = Try("libPolicy") /\ DeleteSteps[4] = Try("libBare")
  BY DEF DeleteSteps
<1> HIDE DEF S
<1>2. 4 \in Nat  OBVIOUS
<1>3. ASSUME NEW k \in 1 .. 4
      PROVE  /\ Head(SubSeq(DeleteSteps, k, 4)) = DeleteSteps[k]
             /\ Tail(SubSeq(DeleteSteps, k, 4)) = SubSeq(DeleteSteps, k + 1, 4)
             /\ SubSeq(DeleteSteps, k, 4) # <<>>
  BY <1>1, <1>2, RestOfList, Zenon
<1>4. SubSeq(DeleteSteps, 5, 4) = <<>>  BY SubSeqEmpty
<1> QED BY <1>1, <1>3, <1>4

\* What a removal that fails, or is stopped, leaves.
LEMMA HalfRemovedKeeps ==
    ASSUME NEW x, NEW d \in HalfRemoved(Try(x))
    PROVE  /\ \A y \in Places : y \in d <=> y \in disk
           /\ "preHook" \in d => "preHook" \in disk
           /\ "preHook" \in disk /\ "preHook" \notin d => x = "libBare" /\ "libBare" \in disk
  BY DEF HalfRemoved, Try, ContentsOf, PolicyFiles, BareParts, Places

LEMMA NothingRemoved ==
    ASSUME NEW x
    PROVE  /\ HalfRemoved(Make(x)) = {disk} /\ HalfRemoved(Link(x)) = {disk}
           /\ HalfRemoved(Drop(x)) = {disk} /\ HalfRemoved(Write(x)) = {disk}
           /\ HalfRemoved(Move(x)) = {disk} /\ HalfRemoved(Seed) = {disk}
  BY DEF HalfRemoved, Make, Link, Drop, Write, Move, Seed

\* A registration that goes on leaves what its next operation needs.
LEMMA RegisteringGoes ==
    ASSUME NEW todo, NEW rest, Sound("add", todo), Registering(todo),
           "dirPolicy" \notin disk, "dirBare" \notin disk, Goes(todo, rest)
    PROVE  Sound("add", rest)'
<1>1. PICK k \in 1 .. 12 : todo = SubSeq(AddList, k, 12) /\ AddPlaces(k)
  BY DEF Registering
<1>2. Head(todo) = AddList[k] /\ rest = SubSeq(AddList, k + 1, 12)
  BY <1>1, RestOfAdd DEF Goes
<1>3. disk' = Result(AddList[k]) /\ (cutShort' <=> cutShort) /\ (halfDone' <=> halfDone)
  BY <1>2 DEF Goes
<1>4. Footing
  BY DEF Sound
<1>5. /\ \A x \in Places \cup {"preHook"} :
              x \in disk' <=>
                  \/ x \in disk
                  \/ k = 1 /\ x = "libPolicy"
                  \/ k = 2 /\ x = "libBare"
                  \/ k = 6 /\ x = "preHook"
                  \/ k = 8 /\ x = "linkPolicy"
                  \/ k = 9 /\ x = "linkBare"
  <2>1. CASE k = 1
    <3>1. AddList[k] = Make("libPolicy")  BY <2>1, AddListItems
    <3>2. Result(Make("libPolicy")) = disk \cup {"libPolicy"}  BY MakeDone
    <3>3. disk' = disk \cup {"libPolicy"}  BY <1>3, <3>1, <3>2, Zenon
    <3> QED BY <3>3, <2>1
  <2>2. CASE k = 2
    <3>1. AddList[k] = Make("libBare")  BY <2>2, AddListItems
    <3>2. Result(Make("libBare")) = disk \cup {"libBare"}  BY MakeDone
    <3>3. disk' = disk \cup {"libBare"}  BY <1>3, <3>1, <3>2, Zenon
    <3> QED BY <3>3, <2>2
  <2>3. CASE k = 6
    <3>1. AddList[k] = Make("preHook")  BY <2>3, AddListItems
    <3>2. Result(Make("preHook")) = disk \cup {"preHook"}  BY MakeDone
    <3>3. disk' = disk \cup {"preHook"}  BY <1>3, <3>1, <3>2, Zenon
    <3> QED BY <3>3, <2>3
  <2>4. CASE k = 8
    <3>1. AddList[k] = Link("linkPolicy")  BY <2>4, AddListItems
    <3>2. Result(Link("linkPolicy")) = disk \cup {"linkPolicy"}  BY LinkDone
    <3>3. disk' = disk \cup {"linkPolicy"}  BY <1>3, <3>1, <3>2, Zenon
    <3> QED BY <3>3, <2>4
  <2>5. CASE k = 9
    <3>1. AddList[k] = Link("linkBare")  BY <2>5, AddListItems
    <3>2. Result(Link("linkBare")) = disk \cup {"linkBare"}  BY LinkDone
    <3>3. disk' = disk \cup {"linkBare"}  BY <1>3, <3>1, <3>2, Zenon
    <3> QED BY <3>3, <2>5
  <2>6. CASE k \in {3, 4, 5, 7}
    <3>1. \E x \in {"capped", "toml", "frames", "postHook"} : disk' = disk \cup {x}
      <4>1. \E x \in {"capped", "toml", "frames", "postHook"} : AddList[k] = Make(x)
        BY <2>6, AddListItems
      <4> QED BY <1>3, <4>1, MakeDone
    <3> QED BY <3>1, <2>6 DEF Places
  <2>7. CASE k \in {10, 11}
    <3>1. \E x \in {"frames", "credential"} : disk' = disk \cup {x}
      <4>1. \E x \in {"frames", "credential"} : AddList[k] = Write(x)
        BY <2>7, AddListItems
      <4>2. "linkPolicy" \in disk
        BY <1>1, <2>7 DEF AddPlaces
      <4> QED BY <1>3, <4>1, <4>2, WriteDone
    <3> QED BY <3>1, <2>7 DEF Places
  <2>8. CASE k = 12
    BY <1>3, <2>8, AddListItems, SeedDone
  <2> QED BY <2>1, <2>2, <2>3, <2>4, <2>5, <2>6, <2>7, <2>8
<1> HIDE DEF Places
<1>6. /\ "dirPolicy" \notin disk' /\ "dirBare" \notin disk'
      /\ "libPolicy" \in disk' <=> "libPolicy" \in disk \/ k = 1
      /\ "libBare" \in disk' <=> "libBare" \in disk \/ k = 2
      /\ "linkPolicy" \in disk' <=> "linkPolicy" \in disk \/ k = 8
      /\ "linkBare" \in disk' <=> "linkBare" \in disk \/ k = 9
      /\ "preHook" \in disk' <=> "preHook" \in disk \/ k = 6
  BY <1>5 DEF Places
<1>7. (k < 12 => AddPlaces(k + 1)') /\ (k = 12 => cutShort' \/ "preHook" \in disk')
  BY <1>1, <1>3, <1>6 DEF AddPlaces
<1>8. Footing'
  BY <1>1, <1>3, <1>4, <1>6 DEF AddPlaces, Footing, Served
<1>9. CASE k = 12
  <2>1. rest = <<>>  BY <1>2, <1>9, RestOfAdd
  <2> QED BY <1>7, <1>8, <1>9, <2>1 DEF Sound
<1>10. CASE k < 12
  <2>1. k + 1 \in 1 .. 12  BY <1>10
  <2>2. Registering(rest)'  BY <1>2, <1>7, <1>10, <2>1 DEF Registering
  <2>3. rest # <<>>  BY <1>2, <2>1, RestOfAdd
  <2> QED BY <1>6, <1>8, <2>2, <2>3 DEF Sound, Course
<1> QED BY <1>9, <1>10

\* The undoing of a registration is a list of up to three removals.
LEMMA ShortLists ==
    ASSUME NEW a, NEW b, NEW c
    PROVE  /\ Head(<<a>>) = a /\ Tail(<<a>>) = <<>> /\ <<a>> # <<>>
           /\ Head(<<a, b>>) = a /\ Tail(<<a, b>>) = <<b>> /\ <<a, b>> # <<>>
           /\ Head(<<a, b, c>>) = a /\ Tail(<<a, b, c>>) = <<b, c>> /\ <<a, b, c>> # <<>>
  OBVIOUS

\* A registration that fails is undone, or its links stand and so does its hook.
LEMMA RegisteringFails ==
    ASSUME NEW todo, NEW rest, Sound("add", todo), Registering(todo),
           "dirPolicy" \notin disk, "dirBare" \notin disk, Fails("add", todo, rest)
    PROVE  Sound("add", rest)'
<1>1. PICK k \in 1 .. 12 : todo = SubSeq(AddList, k, 12) /\ AddPlaces(k)
  BY DEF Registering
<1>2. Head(todo) = AddList[k] /\ rest = Undo("add", AddList[k], SubSeq(AddList, k + 1, 12))
  BY <1>1, RestOfAdd DEF Fails
<1>3. Footing
  BY DEF Sound
<1>4. AddList[k].do # "try" /\ HalfRemoved(AddList[k]) = {disk}
  <2>1. \/ \E x : AddList[k] = Make(x)
        \/ \E x : AddList[k] = Link(x)
        \/ \E x : AddList[k] = Write(x)
        \/ AddList[k] = Seed
    BY AddListItems
  <2>2. AddList[k].do # "try"
    <3>1. \A x : Make(x).do # "try" /\ Link(x).do # "try" /\ Write(x).do # "try"
      BY DEF Make, Link, Write
    <3>2. Seed.do # "try"
      BY DEF Seed
    <3> QED BY <2>1, <3>1, <3>2
  <2> QED BY <2>1, <2>2, NothingRemoved
<1>5. (AddList[k] = Make("libBare") <=> k = 2) /\ (AddList[k] = Seed <=> k = 12)
  <2>1. \A x : Make("libBare") # Link(x) /\ Make("libBare") # Write(x) /\ Make("libBare") # Seed
    BY DEF Make, Link, Write, Seed
  <2>2. \A x : Seed # Link(x) /\ Seed # Write(x) /\ Seed # Make(x)
    BY DEF Make, Link, Write, Seed
  <2>3. \A x : Make("libBare") = Make(x) => x = "libBare"
    BY DEF Make
  <2> QED BY <2>1, <2>2, <2>3, AddListItems
<1>6. /\ cutShort' <=> cutShort
      /\ halfDone' <=> halfDone \/ k = 2
      /\ \/ disk' = disk
         \/ k = 2 /\ disk' = disk \cup {"libBare"}
         \/ k = 12 /\ disk' = disk \cup {"pending"}
  BY <1>2, <1>4, <1>5 DEF Fails
<1>7. /\ "dirPolicy" \notin disk' /\ "dirBare" \notin disk'
      /\ "libPolicy" \in disk' <=> "libPolicy" \in disk
      /\ k # 2 => ("libBare" \in disk' <=> "libBare" \in disk)
      /\ "linkPolicy" \in disk' <=> "linkPolicy" \in disk
      /\ "linkBare" \in disk' <=> "linkBare" \in disk
      /\ "preHook" \in disk' <=> "preHook" \in disk
  BY <1>6
<1>8. Footing'
  BY <1>1, <1>3, <1>6, <1>7 DEF AddPlaces, Footing, Served
<1>9. CASE k \in 1 .. 9
  <2>1. rest # <<>> /\ Undoing(rest)'
    <3>1. CASE k \in {1, 2}
      <4>1. rest = <<Try("libPolicy")>>
        BY <1>2, <3>1, AddListItems, UndoAdd
      <4>2. rest # <<>>
        BY <4>1, ShortLists
      <4> QED BY <1>1, <1>6, <1>7, <3>1, <4>1, <4>2 DEF Undoing, AddPlaces
    <3>2. CASE k \in 3 .. 8
      <4>1. rest = <<Try("libPolicy"), Try("libBare")>>
        BY <1>2, <3>2, AddListItems, UndoAdd
      <4>2. rest # <<>>
        BY <4>1, ShortLists
      <4> QED BY <1>1, <1>6, <1>7, <3>2, <4>1, <4>2 DEF Undoing, AddPlaces
    <3>3. CASE k = 9
      <4>1. rest = <<Try("linkPolicy"), Try("libPolicy"), Try("libBare")>>
        BY <1>2, <3>3, AddListItems, UndoAdd
      <4>2. rest # <<>>
        BY <4>1, ShortLists
      <4> QED BY <1>1, <1>6, <1>7, <3>3, <4>1, <4>2 DEF Undoing, AddPlaces
    <3> QED BY <1>9, <3>1, <3>2, <3>3
  <2> QED BY <1>7, <1>8, <2>1 DEF Sound, Course
<1>10. CASE k \in 10 .. 12
  <2>1. rest = <<>>
    <3>1. AddList[k] = Seed \/ \E x : AddList[k] = Write(x)
      BY <1>10, AddListItems
    <3> QED BY <1>2, <3>1, UndoAdd
  <2> QED BY <1>1, <1>6, <1>7, <1>8, <1>10, <2>1 DEF Sound, AddPlaces
<1> QED BY <1>9, <1>10

\* An undoing that goes on.
LEMMA UndoingGoes ==
    ASSUME NEW todo, NEW rest, Sound("add", todo), Undoing(todo),
           "dirPolicy" \notin disk, "dirBare" \notin disk, Goes(todo, rest)
    PROVE  Sound("add", rest)'
<1>1. Footing /\ (cutShort' <=> cutShort) /\ (halfDone' <=> halfDone)
  BY DEF Sound, Goes
<1>2. ASSUME NEW x \in {"linkPolicy", "libPolicy", "libBare"},
             Head(todo) = Try(x)
      PROVE  /\ \A y \in Places : y \in disk' <=> y \in disk /\ y # x
             /\ "preHook" \in disk' => "preHook" \in disk
  <2>1. disk' = Result(Try(x))
    BY <1>2 DEF Goes
  <2>2. CASE x = "linkPolicy"
    BY <2>1, <2>2, TryLinkDone
  <2>3. CASE x = "libPolicy"
    BY <2>1, <2>3, TryPolicyDone
  <2>4. CASE x = "libBare"
    BY <2>1, <2>4, TryBareDone
  <2> QED BY <2>2, <2>3, <2>4
<1>3. rest = Tail(todo)
  BY DEF Goes
<1>4. CASE todo = <<Try("linkPolicy"), Try("libPolicy"), Try("libBare")>>
  <2>1. rest = <<Try("libPolicy"), Try("libBare")>> /\ rest # <<>> /\ Head(todo) = Try("linkPolicy")
    BY <1>3, <1>4, ShortLists
  <2>2. \A y \in Places : y \in disk' <=> y \in disk /\ y # "linkPolicy"
    BY <1>2, <2>1
  <2> QED BY <1>1, <2>1, <2>2 DEF Sound, Course, Undoing, Footing, Served, Places
<1>5. CASE todo = <<Try("libPolicy"), Try("libBare")>>
  <2>1. rest = <<Try("libBare")>> /\ rest # <<>> /\ Head(todo) = Try("libPolicy")
    BY <1>3, <1>5, ShortLists
  <2>2. \A y \in Places : y \in disk' <=> y \in disk /\ y # "libPolicy"
    BY <1>2, <2>1
  <2>3. "linkPolicy" \notin disk \/ halfDone
    <3>1. todo # <<Try("linkPolicy"), Try("libPolicy"), Try("libBare")>>
      BY <1>5
    <3> QED BY <3>1 DEF Undoing
  <2> QED BY <1>1, <2>1, <2>2, <2>3 DEF Sound, Course, Undoing, Footing, Served, Places
<1>6. CASE todo = <<Try("libPolicy")>> \/ todo = <<Try("libBare")>>
  <2>1. PICK x \in {"libPolicy", "libBare"} : rest = <<>> /\ Head(todo) = Try(x)
    BY <1>3, <1>6, ShortLists
  <2>2. \A y \in Places : y \in disk' <=> y \in disk /\ y # x
    BY <1>2, <2>1
  <2>3. "linkPolicy" \notin disk \/ halfDone
    <3>1. todo # <<Try("linkPolicy"), Try("libPolicy"), Try("libBare")>>
      BY <1>6
    <3> QED BY <3>1 DEF Undoing
  <2> QED BY <1>1, <2>1, <2>2, <2>3 DEF Sound, Undoing, Footing, Served, Places
<1> QED BY <1>4, <1>5, <1>6 DEF Undoing

\* A removal of the undoing that fails leaves its directory, and says so.
LEMMA UndoingFails ==
    ASSUME NEW todo, NEW rest, Sound("add", todo), Undoing(todo),
           "dirPolicy" \notin disk, "dirBare" \notin disk, Fails("add", todo, rest)
    PROVE  Sound("add", rest)'
<1>1. PICK x \in {"linkPolicy", "libPolicy", "libBare"} : Head(todo) = Try(x)
  BY ShortLists DEF Undoing
<1>2. Head(todo).do = "try" /\ Head(todo) # Make("libBare") /\ Head(todo) # Seed
  BY <1>1 DEF Try, Make, Seed
<1>3. rest = Tail(todo)
  <2> DEFINE r == Tail(todo)
  <2> HIDE DEF r
  <2>1. Undo("add", Try(x), r) = r
    BY UndoTry
  <2> QED BY <1>1, <2>1 DEF Fails, r
<1>4. /\ \A y \in Places : y \in disk' <=> y \in disk
      /\ halfDone'
      /\ cutShort' <=> cutShort \/ halfDone
  <2>1. disk' \in HalfRemoved(Try(x))
    BY <1>1, <1>2 DEF Fails
  <2> QED BY <1>2, <2>1, HalfRemovedKeeps DEF Fails
<1>5. CASE todo = <<Try("linkPolicy"), Try("libPolicy"), Try("libBare")>>
  <2>1. rest = <<Try("libPolicy"), Try("libBare")>> /\ rest # <<>>
    BY <1>3, <1>5, ShortLists
  <2> QED BY <1>4, <2>1 DEF Sound, Course, Undoing, Footing, Served, Places
<1>6. CASE todo = <<Try("libPolicy"), Try("libBare")>>
  <2>1. rest = <<Try("libBare")>> /\ rest # <<>>
    BY <1>3, <1>6, ShortLists
  <2> QED BY <1>4, <2>1 DEF Sound, Course, Undoing, Footing, Served, Places
<1>7. CASE todo = <<Try("libPolicy")>> \/ todo = <<Try("libBare")>>
  <2>1. rest = <<>>
    BY <1>3, <1>7, ShortLists
  <2>2. "libPolicy" \notin disk \/ "libBare" \notin disk \/ cutShort \/ halfDone
    <3>1. /\ todo # <<Try("linkPolicy"), Try("libPolicy"), Try("libBare")>>
          /\ todo # <<Try("libPolicy"), Try("libBare")>>
      BY <1>7
    <3> QED BY <3>1 DEF Undoing
  <2> QED BY <1>4, <2>1, <2>2 DEF Sound, Undoing, Footing, Served, Places
<1> QED BY <1>5, <1>6, <1>7 DEF Undoing

\* With nobody else at the name, no operation of a registration is impossible.
LEMMA AddNeverBlocked ==
    ASSUME NEW todo, Sound("add", todo), todo # <<>>
    PROVE  Possible(Head(todo))
<1>1. /\ Registering(todo) \/ Undoing(todo)
      /\ "dirPolicy" \notin disk /\ "dirBare" \notin disk
  BY DEF Sound, Course
<1>2. CASE Registering(todo)
  <2>1. PICK k \in 1 .. 12 : todo = SubSeq(AddList, k, 12) /\ AddPlaces(k)
    BY <1>2 DEF Registering
  <2>2. Head(todo) = AddList[k]
    BY <2>1, RestOfAdd
  <2>3. CASE k \in {1, 2}
    <3>1. PICK x \in {"libPolicy", "libBare"} : AddList[k] = Make(x)
      BY <2>3, AddListItems
    <3> QED BY <2>2, <3>1, MakeDone DEF Places
  <2>4. CASE k \in {4, 5}
    <3>1. PICK x \in {"toml", "frames"} : AddList[k] = Make(x)
      BY <2>4, AddListItems
    <3>2. LibOf(x) = "libPolicy"
      BY <3>1 DEF LibOf, PolicyFiles
    <3> QED BY <2>1, <2>2, <2>4, <3>1, <3>2, MakeDone DEF AddPlaces
  <2>5. CASE k \in {3, 6, 7}
    <3>1. PICK x \in {"capped", "preHook", "postHook"} : AddList[k] = Make(x)
      BY <2>5, AddListItems
    <3>2. LibOf(x) = "libBare"
      BY <3>1 DEF LibOf, PolicyFiles
    <3> QED BY <2>1, <2>2, <2>5, <3>1, <3>2, MakeDone DEF AddPlaces
  <2>6. CASE k = 8
    <3>1. AddList[k] = Link("linkPolicy")
      BY <2>6, AddListItems
    <3> QED BY <1>1, <2>1, <2>2, <2>6, <3>1, LinkDone DEF AddPlaces, DirOf
  <2>7. CASE k = 9
    <3>1. AddList[k] = Link("linkBare")
      BY <2>7, AddListItems
    <3> QED BY <1>1, <2>1, <2>2, <2>7, <3>1, LinkDone DEF AddPlaces, DirOf
  <2>8. CASE k \in {10, 11}
    <3>1. PICK x \in {"frames", "credential"} : AddList[k] = Write(x)
      BY <2>8, AddListItems
    <3> QED BY <2>1, <2>2, <2>8, <3>1, WriteDone DEF AddPlaces
  <2>9. CASE k = 12
    BY <2>2, <2>9, AddListItems, SeedDone
  <2> QED BY <2>3, <2>4, <2>5, <2>6, <2>7, <2>8, <2>9
<1>3. CASE Undoing(todo)
  <2>1. PICK x \in {"linkPolicy", "libPolicy", "libBare"} : Head(todo) = Try(x)
    BY <1>3, ShortLists DEF Undoing
  <2> QED BY <2>1, TryLinkDone, TryPolicyDone, TryBareDone
<1> QED BY <1>1, <1>2, <1>3

\* An archiving and its undoing move links, over directories that stay.
LEMMA Archives ==
    ASSUME NEW todo, NEW rest, Sound("archive", todo), todo # <<>>,
           Goes(todo, rest) \/ Blocked("archive", todo, rest) \/ Fails("archive", todo, rest)
    PROVE  Sound("archive", rest)'
<1> DEFINE S == {Drop("linkPolicy"), Drop("linkBare"), Link("linkPolicy")}
<1>1. /\ todo \in Seq(S)
      /\ "libPolicy" \in disk \/ "libBare" \in disk \/ halfDone
      /\ Footing
      /\ \/ cutShort \/ "preHook" \in disk
         \/ "libPolicy" \notin disk \/ "libBare" \notin disk
  BY DEF Sound, Course, Archiving
<1>2. Head(todo) \in S /\ Tail(todo) \in Seq(S)
  BY <1>1, SeqStep
<1>3. /\ Head(todo).do # "try" /\ Head(todo) # Make("libBare") /\ Head(todo) # Seed
      /\ HalfRemoved(Head(todo)) = {disk}
  <2>1. \A x : /\ Drop(x).do # "try" /\ Link(x).do # "try"
               /\ Drop(x) # Make("libBare") /\ Link(x) # Make("libBare")
               /\ Drop(x) # Seed /\ Link(x) # Seed
    BY DEF Drop, Link, Make, Seed
  <2> QED BY <1>2, <2>1, NothingRemoved
<1>4. /\ cutShort' <=> cutShort
      /\ halfDone' <=> halfDone
  BY <1>3 DEF Goes, Blocked, Fails
<1>5. /\ \A y \in Places \ {"linkPolicy", "linkBare"} : y \in disk' <=> y \in disk
      /\ "preHook" \in disk' <=> "preHook" \in disk
      /\ "linkBare" \in disk' => "linkBare" \in disk
      /\ "linkPolicy" \in disk' => "linkPolicy" \in disk \/ "dirPolicy" \notin disk
  <2>1. CASE Goes(todo, rest)
    <3>1. CASE Head(todo) = Link("linkPolicy")
      BY <2>1, <3>1, LinkDone DEF Goes, DirOf
    <3>2. CASE Head(todo) = Drop("linkPolicy")
      BY <2>1, <3>2, DropDone DEF Goes
    <3>3. CASE Head(todo) = Drop("linkBare")
      BY <2>1, <3>3, DropDone DEF Goes
    <3> QED BY <1>2, <3>1, <3>2, <3>3
  <2>2. CASE Blocked("archive", todo, rest) \/ Fails("archive", todo, rest)
    <3>1. disk' = disk
      BY <1>3, <2>2 DEF Blocked, Fails
    <3> QED BY <3>1
  <2> QED BY <2>1, <2>2
<1>6. Footing'
  BY <1>1, <1>4, <1>5 DEF Footing, Served, Places
<1>7. rest \in Seq(S)
  <2>1. CASE Goes(todo, rest)
    BY <1>2, <2>1 DEF Goes
  <2>2. CASE Blocked("archive", todo, rest) \/ Fails("archive", todo, rest)
    <3> DEFINE r == Tail(todo)
    <3> HIDE DEF r
    <3> DEFINE h == Head(todo)
    <3> HIDE DEF h
    <3>1. rest = Undo("archive", h, r) /\ h \in S
      BY <1>2, <2>2 DEF Blocked, Fails, r, h
    <3>2. rest = <<>> \/ rest = <<Link("linkPolicy")>>
      BY <3>1, UndoArchive
    <3>3. Link("linkPolicy") \in S
      OBVIOUS
    <3> QED BY <3>2, <3>3, OneStep, Zenon
  <2> QED BY <2>1, <2>2
<1>8. rest # <<>> => Course("archive", rest)'
  BY <1>1, <1>4, <1>5, <1>7 DEF Course, Archiving, Places
<1> QED BY <1>1, <1>4, <1>5, <1>6, <1>8 DEF Sound, Places

\* A restoration and its undoing move links, over both directories of the library.
LEMMA Restores ==
    ASSUME NEW todo, NEW rest, Sound("restore", todo), todo # <<>>,
           Goes(todo, rest) \/ Blocked("restore", todo, rest) \/ Fails("restore", todo, rest)
    PROVE  Sound("restore", rest)'
<1> DEFINE S == {Link("linkPolicy"), Link("linkBare"), Try("linkPolicy")}
<1>1. /\ todo \in Seq(S)
      /\ "libPolicy" \in disk /\ "libBare" \in disk
      /\ "dirPolicy" \notin disk /\ "dirBare" \notin disk
      /\ Footing
      /\ cutShort \/ "preHook" \in disk
  BY DEF Sound, Course, Restoring
<1>2. Head(todo) \in S /\ Tail(todo) \in Seq(S)
  BY <1>1, SeqStep
<1>3. /\ Head(todo) # Make("libBare") /\ Head(todo) # Seed
      /\ \A d \in HalfRemoved(Head(todo)) : d = disk
  <2>1. \A x : /\ Try(x) # Make("libBare") /\ Link(x) # Make("libBare")
               /\ Try(x) # Seed /\ Link(x) # Seed
    BY DEF Try, Link, Make, Seed
  <2>2. HalfRemoved(Try("linkPolicy")) = {disk}
    BY DEF HalfRemoved, Try
  <2> QED BY <1>2, <2>1, <2>2, NothingRemoved
<1>4. /\ cutShort => cutShort'
      /\ halfDone => halfDone'
  BY <1>3 DEF Goes, Blocked, Fails
<1>5. /\ \A y \in Places \ {"linkPolicy", "linkBare"} : y \in disk' <=> y \in disk
      /\ "preHook" \in disk' <=> "preHook" \in disk
  <2>1. CASE Goes(todo, rest)
    <3>1. CASE Head(todo) = Link("linkPolicy")
      BY <2>1, <3>1, LinkDone DEF Goes
    <3>2. CASE Head(todo) = Link("linkBare")
      BY <2>1, <3>2, LinkDone DEF Goes
    <3>3. CASE Head(todo) = Try("linkPolicy")
      BY <2>1, <3>3, TryLinkDone DEF Goes
    <3> QED BY <1>2, <3>1, <3>2, <3>3
  <2>2. CASE Blocked("restore", todo, rest) \/ Fails("restore", todo, rest)
    <3>1. disk' = disk
      BY <1>3, <2>2 DEF Blocked, Fails
    <3> QED BY <3>1
  <2> QED BY <2>1, <2>2
<1>6. Footing'
  BY <1>1, <1>4, <1>5 DEF Footing, Served, Places
<1>7. rest \in Seq(S)
  <2>1. CASE Goes(todo, rest)
    BY <1>2, <2>1 DEF Goes
  <2>2. CASE Blocked("restore", todo, rest) \/ Fails("restore", todo, rest)
    <3> DEFINE r == Tail(todo)
    <3> HIDE DEF r
    <3> DEFINE h == Head(todo)
    <3> HIDE DEF h
    <3>1. rest = Undo("restore", h, r) /\ h \in S
      BY <1>2, <2>2 DEF Blocked, Fails, r, h
    <3>3. rest = <<>> \/ rest = <<Try("linkPolicy")>> \/ rest = r
      BY <3>1, UndoRestore
    <3>4. Try("linkPolicy") \in S
      OBVIOUS
    <3>5. r \in Seq(S)
      BY <1>2 DEF r
    <3> QED BY <3>3, <3>4, <3>5, OneStep, Zenon
  <2> QED BY <2>1, <2>2
<1>8. rest # <<>> => Course("restore", rest)'
  BY <1>1, <1>4, <1>5, <1>7 DEF Course, Restoring, Places
<1> QED BY <1>1, <1>4, <1>5, <1>6, <1>8 DEF Sound, Places

\* A deletion takes the links before what they lead to.
LEMMA Deletes ==
    ASSUME NEW todo, NEW rest, Sound("delete", todo), todo # <<>>,
           Goes(todo, rest) \/ Blocked("delete", todo, rest) \/ Fails("delete", todo, rest)
    PROVE  Sound("delete", rest)'
<1>1. /\ Footing
      /\ \/ cutShort \/ "preHook" \in disk
         \/ "libPolicy" \notin disk \/ "libBare" \notin disk
      /\ Deleting(todo)
  BY DEF Sound, Course
<1>2. PICK k \in 1 .. 4 :
        /\ todo = SubSeq(DeleteSteps, k, 4)
        /\ k <= 2 => "libPolicy" \in disk \/ "libBare" \in disk
        /\ k >= 2 => "linkPolicy" \notin disk \/ halfDone
        /\ k >= 3 => "linkBare" \notin disk \/ halfDone
        /\ k >= 4 => "libPolicy" \notin disk \/ halfDone
  BY <1>1 DEF Deleting
<1>3. PICK x \in {"linkPolicy", "linkBare", "libPolicy", "libBare"} :
        /\ Head(todo) = Try(x)
        /\ k = 1 => x = "linkPolicy"
        /\ k = 2 => x = "linkBare"
        /\ k = 3 => x = "libPolicy"
        /\ k = 4 => x = "libBare"
  <2>1. CASE k = 1  BY <1>2, <2>1, RestOfDelete
  <2>2. CASE k = 2  BY <1>2, <2>2, RestOfDelete
  <2>3. CASE k = 3  BY <1>2, <2>3, RestOfDelete
  <2>4. CASE k = 4  BY <1>2, <2>4, RestOfDelete
  <2> QED BY <2>1, <2>2, <2>3, <2>4
<1>4. rest = SubSeq(DeleteSteps, k + 1, 4)
  <2>1. Tail(todo) = SubSeq(DeleteSteps, k + 1, 4)
    BY <1>2, RestOfDelete
  <2> DEFINE r == Tail(todo)
  <2> HIDE DEF r
  <2>2. Undo("delete", Try(x), r) = r
    BY UndoTry
  <2>3. rest = Tail(todo)
    BY <1>3, <2>2 DEF Goes, Blocked, Fails, r
  <2> QED BY <2>1, <2>3
<1>5. Possible(Head(todo))
  BY <1>3, TryLinkDone, TryPolicyDone, TryBareDone
<1>6. CASE Goes(todo, rest)
  <2>1. /\ cutShort' <=> cutShort
        /\ halfDone' <=> halfDone
        /\ disk' = Result(Try(x))
    BY <1>3, <1>6 DEF Goes
  <2>2. \A y \in Places : y \in disk' <=> y \in disk /\ y # x
    <3>1. CASE x \in {"linkPolicy", "linkBare"}
      BY <2>1, <3>1, TryLinkDone
    <3>2. CASE x = "libPolicy"
      BY <2>1, <3>2, TryPolicyDone
    <3>3. CASE x = "libBare"
      BY <2>1, <3>3, TryBareDone
    <3> QED BY <3>1, <3>2, <3>3
  <2>3. x # "libBare" \/ "libBare" \notin disk => ("preHook" \in disk' <=> "preHook" \in disk)
    <3>1. CASE x \in {"linkPolicy", "linkBare"}
      BY <2>1, <3>1, TryLinkDone
    <3>2. CASE x = "libPolicy"
      BY <2>1, <3>2, TryPolicyDone
    <3>3. CASE x = "libBare"
      BY <2>1, <3>3, TryBareDone
    <3> QED BY <3>1, <3>2, <3>3
  <2>4. Footing'
    BY <1>1, <1>2, <1>3, <2>1, <2>2, <2>3 DEF Footing, Served, Places
  <2>5. \/ cutShort' \/ "preHook" \in disk'
        \/ "libPolicy" \notin disk' \/ "libBare" \notin disk'
    BY <1>1, <2>1, <2>2, <2>3 DEF Places
  <2>6. rest # <<>> => Deleting(rest)'
    <3>1. CASE k = 4
      BY <1>4, <3>1, RestOfDelete
    <3>2. CASE k < 4
      <4>1. k + 1 \in 1 .. 4
        BY <3>2
      <4>2. /\ k + 1 <= 2 => "libPolicy" \in disk' \/ "libBare" \in disk'
            /\ k + 1 >= 2 => "linkPolicy" \notin disk' \/ halfDone'
            /\ k + 1 >= 3 => "linkBare" \notin disk' \/ halfDone'
            /\ k + 1 >= 4 => "libPolicy" \notin disk' \/ halfDone'
        BY <1>2, <1>3, <2>1, <2>2, <3>2 DEF Places
      <4> QED BY <1>4, <4>1, <4>2 DEF Deleting
    <3> QED BY <3>1, <3>2
  <2> QED BY <2>4, <2>5, <2>6 DEF Sound, Course
<1>7. CASE Fails("delete", todo, rest)
  <2>1. Head(todo).do = "try" /\ Head(todo) # Make("libBare") /\ Head(todo) # Seed
    BY <1>3 DEF Try, Make, Seed
  <2>2. /\ halfDone'
        /\ cutShort' <=> cutShort \/ halfDone
        /\ disk' \in HalfRemoved(Try(x))
    BY <1>3, <1>7, <2>1 DEF Fails
  <2>3. /\ \A y \in Places : y \in disk' <=> y \in disk
        /\ "preHook" \in disk /\ "preHook" \notin disk' => x = "libBare" /\ "libBare" \in disk
    BY <2>2, HalfRemovedKeeps
  <2>4. x = "libBare" => k = 4
    BY <1>3
  <2>5. Footing'
    BY <1>1, <1>2, <2>2, <2>3, <2>4 DEF Footing, Served, Places
  <2>6. \/ cutShort' \/ "preHook" \in disk'
        \/ "libPolicy" \notin disk' \/ "libBare" \notin disk'
    BY <1>1, <1>2, <2>2, <2>3, <2>4 DEF Places
  <2>7. rest # <<>> => Deleting(rest)'
    <3>1. CASE k = 4
      BY <1>4, <3>1, RestOfDelete
    <3>2. CASE k < 4
      <4>1. k + 1 \in 1 .. 4
        BY <3>2
      <4>2. k + 1 <= 2 => "libPolicy" \in disk' \/ "libBare" \in disk'
        BY <1>2, <2>3, <3>2 DEF Places
      <4> QED BY <1>4, <2>2, <4>1, <4>2 DEF Deleting
    <3> QED BY <3>1, <3>2
  <2> QED BY <2>5, <2>6, <2>7 DEF Sound, Course
<1> QED BY <1>5, <1>6, <1>7 DEF Blocked

\* A migration takes the policy first, and links what it moved.
LEMMA Migrates ==
    ASSUME NEW todo, NEW rest, Sound("migrate", todo), todo # <<>>,
           Goes(todo, rest) \/ Blocked("migrate", todo, rest) \/ Fails("migrate", todo, rest)
    PROVE  Sound("migrate", rest)'
<1> DEFINE S == {Move("dirPolicy"), Link("linkPolicy"), Move("dirBare"), Link("linkBare")}
<1>1. /\ todo \in Seq(S)
      /\ "libPolicy" \in disk \/ "libBare" \in disk \/ "dirBare" \in disk
      /\ "dirPolicy" \in disk => Head(todo) = Move("dirPolicy")
      /\ "libBare" \in disk => cutShort \/ "preHook" \in disk
      /\ Footing
  BY DEF Sound, Course, Migrating
<1>2. Head(todo) \in S /\ Tail(todo) \in Seq(S)
  BY <1>1, SeqStep
<1>3. /\ Head(todo).do # "try" /\ Head(todo) # Make("libBare") /\ Head(todo) # Seed
      /\ HalfRemoved(Head(todo)) = {disk}
  <2>1. \A x : /\ Move(x).do # "try" /\ Link(x).do # "try"
               /\ Move(x) # Make("libBare") /\ Link(x) # Make("libBare")
               /\ Move(x) # Seed /\ Link(x) # Seed
    BY DEF Move, Link, Make, Seed
  <2> QED BY <1>2, <2>1, NothingRemoved
<1>4. CASE Goes(todo, rest)
  <2>1. /\ cutShort' <=> cutShort
        /\ halfDone' <=> halfDone
        /\ rest \in Seq(S)
        /\ disk' = Result(Head(todo))
        /\ Possible(Head(todo))
    BY <1>2, <1>4 DEF Goes
  <2>2. CASE Head(todo) = Move("dirPolicy")
    <3>1. /\ disk' = (disk \ {"dirPolicy"}) \cup {"libPolicy"}
          /\ "dirPolicy" \in disk
      BY <2>1, <2>2, MoveDone DEF LibOf
    <3>2. "dirBare" \in disk /\ "libBare" \notin disk
      BY <1>1, <3>1 DEF Footing
    <3>3. Footing'
      BY <1>1, <2>1, <3>1, <3>2 DEF Footing, Served
    <3> QED BY <1>1, <2>1, <3>1, <3>2, <3>3 DEF Sound, Course, Migrating
  <2>3. CASE Head(todo) = Move("dirBare")
    <3>1. /\ disk' = (disk \ {"dirBare"}) \cup {"libBare"}
          /\ "dirBare" \in disk
      BY <2>1, <2>3, MoveDone DEF LibOf, PolicyFiles
    <3>2. "dirPolicy" \notin disk
      <4>1. Head(todo) # Move("dirPolicy")
        BY <2>3 DEF Move
      <4> QED BY <1>1, <4>1
    <3>3. Footing'
      BY <1>1, <2>1, <3>1, <3>2 DEF Footing, Served
    <3> QED BY <1>1, <2>1, <3>1, <3>2, <3>3 DEF Sound, Course, Migrating, Footing, Served
  <2>4. CASE Head(todo) \in {Link("linkPolicy"), Link("linkBare")}
    <3>1. PICK x \in {"linkPolicy", "linkBare"} : Head(todo) = Link(x)
      BY <2>4
    <3>2. disk' = disk \cup {x} /\ x \notin disk /\ DirOf(x) \notin disk
      BY <2>1, <3>1, LinkDone
    <3>3. "dirPolicy" \notin disk
      <4>1. Head(todo) # Move("dirPolicy")
        BY <3>1 DEF Move, Link
      <4> QED BY <1>1, <4>1
    <3>4. x = "linkBare" => "dirBare" \notin disk
      BY <3>2 DEF DirOf
    <3>5. Footing'
      BY <1>1, <2>1, <3>2, <3>3, <3>4 DEF Footing, Served
    <3> QED BY <1>1, <2>1, <3>2, <3>3, <3>5 DEF Sound, Course, Migrating
  <2> QED BY <1>2, <2>2, <2>3, <2>4
<1>5. CASE Blocked("migrate", todo, rest) \/ Fails("migrate", todo, rest)
  <2> DEFINE h == Head(todo)
  <2> DEFINE r == Tail(todo)
  <2> HIDE DEF h, r
  <2>1. rest = Undo("migrate", h, r) /\ h.do # "try"
    BY <1>3, <1>5 DEF Blocked, Fails, h, r
  <2>2. rest = <<>>
    BY <2>1, NothingUndone
  <2>3. disk' = disk /\ (cutShort' <=> cutShort) /\ (halfDone => halfDone')
    BY <1>3, <1>5 DEF Blocked, Fails
  <2> QED BY <1>1, <2>2, <2>3 DEF Sound, Footing, Served
<1> QED BY <1>4, <1>5

\* Writing a credential, a missing frames file or the history moves nothing.
LEMMA EditsSound ==
    ASSUME NEW op \in {"credential", "regen", "sync"}, NEW todo, NEW rest,
           Sound(op, todo), todo # <<>>,
           Goes(todo, rest) \/ Blocked(op, todo, rest) \/ Fails(op, todo, rest)
    PROVE  Sound(op, rest)'
<1> DEFINE S == IF op = "credential" THEN {Write("credential")}
                ELSE IF op = "regen" THEN {Make("frames")} ELSE {Seed}
<1>1. /\ todo \in Seq(S)
      /\ op = "credential" => "linkPolicy" \in disk /\ "libPolicy" \in disk
      /\ Footing
      /\ \/ cutShort \/ "preHook" \in disk
         \/ "libPolicy" \notin disk \/ "libBare" \notin disk
  BY DEF Sound, Course
<1>2. Head(todo) \in S /\ Tail(todo) \in Seq(S)
  BY <1>1, SeqStep
<1>3. /\ Head(todo).do # "try" /\ Head(todo) # Make("libBare")
      /\ HalfRemoved(Head(todo)) = {disk}
  <2>1. /\ Write("credential").do # "try" /\ Make("frames").do # "try" /\ Seed.do # "try"
        /\ Write("credential") # Make("libBare") /\ Make("frames") # Make("libBare")
        /\ Seed # Make("libBare")
    BY DEF Write, Make, Seed
  <2> QED BY <1>2, <2>1, NothingRemoved
<1>4. /\ cutShort' <=> cutShort
      /\ halfDone' <=> halfDone
      /\ \A x \in Places \cup {"preHook"} : x \in disk' <=> x \in disk
      /\ rest \in Seq(S)
  <2>1. CASE Goes(todo, rest)
    <3>1. \A x \in Places \cup {"preHook"} : x \in Result(Head(todo)) <=> x \in disk
      <4>1. CASE op = "credential"
        BY <1>1, <1>2, <4>1, WriteDone DEF Places
      <4>2. CASE op = "regen"
        BY <1>2, <4>2, MakeDone DEF Places
      <4>3. CASE op = "sync"
        BY <1>2, <4>3, SeedDone
      <4> QED BY <4>1, <4>2, <4>3
    <3> QED BY <1>2, <2>1, <3>1 DEF Goes
  <2>2. CASE Blocked(op, todo, rest) \/ Fails(op, todo, rest)
    <3> DEFINE h == Head(todo)
    <3> DEFINE r == Tail(todo)
    <3> HIDE DEF h, r
    <3>1. rest = Undo(op, h, r) /\ h.do # "try"
      BY <1>3, <2>2 DEF Blocked, Fails, h, r
    <3>2. rest = <<>>
      BY <3>1, NothingUndone
    <3>3. rest \in Seq(S)
      BY <3>2
    <3>4. disk' = disk \/ disk' = disk \cup {"pending"}
      BY <1>3, <2>2 DEF Blocked, Fails
    <3>5. \A x \in Places \cup {"preHook"} : x \in disk' <=> x \in disk
      BY <3>4 DEF Places
    <3> QED BY <1>3, <2>2, <3>3, <3>5 DEF Blocked, Fails
  <2> QED BY <2>1, <2>2
<1>5. Footing'
  BY <1>1, <1>4 DEF Footing, Served, Places
<1>6. rest # <<>> => Course(op, rest)'
  BY <1>1, <1>4 DEF Course, Places
<1> QED BY <1>1, <1>4, <1>5, <1>6 DEF Sound, Places

\* What any request finds when it stops.
LEMMA StopsSafely ==
    ASSUME NEW op, NEW todo, Sound(op, todo), todo # <<>>, Stopped(op, todo)
    PROVE  Sound("none", <<>>)'
<1>1. Footing /\ Course(op, todo) /\ (halfDone' <=> halfDone)
  BY DEF Sound, Stopped
<1>2. CASE disk' = disk
  <2>1. cutShort => cutShort'
    BY DEF Stopped
  <2>2. Footing'
    BY <1>1, <1>2, <2>1 DEF Footing, Served
  <2>3. op = "add" => cutShort'
    BY DEF Stopped
  <2> QED BY <1>2, <2>1, <2>2, <2>3 DEF Sound
<1>3. CASE disk' # disk
  <2>1. /\ Head(todo).do = "try" /\ Head(todo).item \in {"libPolicy", "libBare"}
        /\ Head(todo).item \in disk
        /\ disk' = disk \ ContentsOf(Head(todo).item)
    BY <1>3 DEF Stopped, HalfRemoved
  <2> DEFINE x == Head(todo).item
  <2>2. /\ \A y \in Places : y \in disk' <=> y \in disk
        /\ x = "libPolicy" => ("preHook" \in disk' <=> "preHook" \in disk)
    BY <2>1 DEF ContentsOf, PolicyFiles, BareParts, Places
  <2>3. cutShort' <=> cutShort \/ op = "add" \/ halfDone
    BY <2>1 DEF Stopped
  <2>4. CASE op = "add"
    <3>1. Footing'
      BY <1>1, <2>2, <2>3, <2>4 DEF Footing, Served, Places
    <3> QED BY <2>3, <2>4, <3>1 DEF Sound
  <2>5. CASE op = "delete"
    <3>1. PICK k \in 1 .. 4 :
            /\ todo = SubSeq(DeleteSteps, k, 4)
            /\ k >= 2 => "linkPolicy" \notin disk \/ halfDone
            /\ k >= 3 => "linkBare" \notin disk \/ halfDone
            /\ k >= 4 => "libPolicy" \notin disk \/ halfDone
      BY <1>1, <2>5 DEF Course, Deleting
    <3>2. (k = 3 /\ x = "libPolicy") \/ (k = 4 /\ x = "libBare")
      <4>1. \A y : Try(y).item = y
        BY DEF Try
      <4>2. /\ k = 1 => x = "linkPolicy"
            /\ k = 2 => x = "linkBare"
            /\ k = 3 => x = "libPolicy"
            /\ k = 4 => x = "libBare"
        BY <3>1, <4>1, RestOfDelete
      <4> QED BY <2>1, <4>2
    <3>3. x \in disk
      BY <2>1
    <3> HIDE DEF x
    <3>4. Footing'
      BY <1>1, <2>2, <2>3, <3>1, <3>2, <3>3 DEF Footing, Served, Places
    <3> QED BY <2>2, <2>3, <2>5, <3>1, <3>2, <3>4 DEF Sound, Places
  <2>6. CASE op \notin {"add", "delete"}
    <3>1. CASE op \in {"archive", "restore", "migrate", "credential", "regen", "sync"}
      <4>1. \E S \in {{Drop("linkPolicy"), Drop("linkBare"), Link("linkPolicy")},
                      {Link("linkPolicy"), Link("linkBare"), Try("linkPolicy")},
                      {Move("dirPolicy"), Link("linkPolicy"), Move("dirBare"), Link("linkBare")},
                      {Write("credential")}, {Make("frames")}, {Seed}} : todo \in Seq(S)
        BY <1>1, <3>1 DEF Course, Archiving, Restoring, Migrating
      <4>2. Head(todo) \in {Drop("linkPolicy"), Drop("linkBare"), Link("linkPolicy"),
                            Link("linkBare"), Try("linkPolicy"), Move("dirPolicy"), Move("dirBare"),
                            Write("credential"), Make("frames"), Seed}
        BY <4>1, SeqStep
      <4>3. \A y : /\ Drop(y).do # "try" /\ Link(y).do # "try" /\ Move(y).do # "try"
                   /\ Write(y).do # "try" /\ Make(y).do # "try"
        BY DEF Drop, Link, Move, Write, Make
      <4>4. Seed.do # "try" /\ Try("linkPolicy").item = "linkPolicy"
        BY DEF Seed, Try
      <4> QED BY <2>1, <4>2, <4>3, <4>4
    <3> QED BY <1>1, <2>6, <3>1 DEF Course
  <2> QED BY <2>4, <2>5, <2>6
<1> QED BY <1>2, <1>3

\* One operation of a request, whatever becomes of it.
LEMMA RequestGoesOn ==
    ASSUME NEW op, NEW todo, NEW rest, Sound(op, todo), todo # <<>>,
           Goes(todo, rest) \/ Blocked(op, todo, rest) \/ Fails(op, todo, rest)
    PROVE  Sound(op, rest)'
<1>1. op \in Requests
  BY DEF Sound, Course, Requests
<1>2. CASE op = "add"
  <2>1. /\ Registering(todo) \/ Undoing(todo)
        /\ "dirPolicy" \notin disk /\ "dirBare" \notin disk
    BY <1>2 DEF Sound, Course
  <2>2. Goes(todo, rest) \/ Fails(op, todo, rest)
    BY <1>2, AddNeverBlocked DEF Blocked
  <2> QED BY <1>2, <2>1, <2>2, RegisteringGoes, RegisteringFails, UndoingGoes, UndoingFails
<1>3. CASE op = "archive"
  BY <1>3, Archives
<1>4. CASE op = "restore"
  BY <1>4, Restores
<1>5. CASE op = "delete"
  BY <1>5, Deletes
<1>6. CASE op = "migrate"
  BY <1>6, Migrates
<1>7. CASE op \in {"credential", "regen", "sync"}
  BY <1>7, EditsSound
<1> QED BY <1>1, <1>2, <1>3, <1>4, <1>5, <1>6, <1>7 DEF Requests

\* What the handlers let begin.
LEMMA RequestBegins ==
    ASSUME NEW op \in Requests, Sound("none", <<>>), Admitted(op)
    PROVE  Sound(op, StepsOf(op))
<1>1. /\ Footing
      /\ \/ cutShort \/ "preHook" \in disk
         \/ "libPolicy" \notin disk \/ "libBare" \notin disk
  BY DEF Sound
<1>2. CASE op = "add"
  <2>1. /\ StepsOf(op) = AddList
        /\ \A x \in Places : x \notin disk
    BY <1>2 DEF StepsOf, Admitted, Taken
  <2>2. AddList = SubSeq(AddList, 1, 12) /\ AddList # <<>>
    <3>1. PICK S : AddList \in Seq(S)
      BY AddListItems
    <3> QED BY <3>1, AddListItems, SubSeqFull
  <2>3. AddPlaces(1)
    BY <2>1 DEF AddPlaces, Places
  <2>4. Registering(AddList)
    BY <2>2, <2>3 DEF Registering
  <2> QED BY <1>1, <1>2, <2>1, <2>2, <2>4 DEF Sound, Course, Places
<1>3. CASE op = "archive"
  <2>1. StepsOf(op) = <<Drop("linkPolicy"), Drop("linkBare")>>
    BY <1>3 DEF StepsOf, ArchiveSteps
  <2>2. "linkPolicy" \in disk /\ "linkBare" \in disk
    BY <1>3 DEF Admitted
  <2>3. StepsOf(op) \in Seq({Drop("linkPolicy"), Drop("linkBare"), Link("linkPolicy")})
    BY <2>1, TwoSteps
  <2>4. "libPolicy" \in disk \/ "libBare" \in disk \/ halfDone
    BY <1>1, <2>2 DEF Footing
  <2> QED BY <1>1, <1>3, <2>3, <2>4 DEF Sound, Course, Archiving
<1>4. CASE op = "restore"
  <2>1. StepsOf(op) = <<Link("linkPolicy"), Link("linkBare")>>
    BY <1>4 DEF StepsOf, RestoreSteps
  <2>2. /\ "libPolicy" \in disk /\ "libBare" \in disk
        /\ "dirPolicy" \notin disk /\ "dirBare" \notin disk
    BY <1>4 DEF Admitted
  <2>3. StepsOf(op) \in Seq({Link("linkPolicy"), Link("linkBare"), Try("linkPolicy")})
    BY <2>1, TwoSteps
  <2> QED BY <1>1, <1>4, <2>2, <2>3 DEF Sound, Course, Restoring
<1>5. CASE op = "delete"
  <2>1. StepsOf(op) = DeleteSteps
    BY <1>5 DEF StepsOf
  <2>2. "libPolicy" \in disk \/ "libBare" \in disk
    BY <1>5 DEF Admitted
  <2>3. DeleteSteps = SubSeq(DeleteSteps, 1, 4)
    <3> DEFINE S == {Try("linkPolicy"), Try("linkBare"), Try("libPolicy"), Try("libBare")}
    <3>1. DeleteSteps \in Seq(S) /\ Len(DeleteSteps) = 4
      BY DEF DeleteSteps
    <3> HIDE DEF S
    <3> QED BY <3>1, SubSeqFull
  <2>4. Deleting(DeleteSteps)
    BY <2>2, <2>3 DEF Deleting
  <2> QED BY <1>1, <1>5, <2>1, <2>4 DEF Sound, Course
<1>6. CASE op = "migrate"
  <2> DEFINE S == {Move("dirPolicy"), Link("linkPolicy"), Move("dirBare"), Link("linkBare")}
  <2> DEFINE p == MigrateSteps("dirPolicy", "linkPolicy")
  <2> DEFINE b == MigrateSteps("dirBare", "linkBare")
  <2>1. StepsOf(op) = p \o b
    BY <1>6 DEF StepsOf
  <2>2. p \in Seq(S) /\ b \in Seq(S)
    BY TwoSteps DEF MigrateSteps
  <2>3. p \o b \in Seq(S)
    BY <2>2, ConcatProperties
  <2>4. "dirBare" \in disk /\ "libBare" \notin disk
    BY <1>1, <1>6 DEF Admitted, Footing
  <2>5. "dirPolicy" \in disk => Head(p \o b) = Move("dirPolicy")
    <3> SUFFICES ASSUME "dirPolicy" \in disk PROVE Head(p \o b) = Move("dirPolicy")
      OBVIOUS
    <3>1. "libPolicy" \notin disk
      BY <1>1 DEF Footing
    <3>2. p = <<Move("dirPolicy"), Link("linkPolicy")>>
      BY <3>1 DEF MigrateSteps, LibOf
    <3>3. Len(p) = 2 /\ p[1] = Move("dirPolicy")
      BY <3>2
    <3> HIDE DEF p, b, S
    <3>4. (p \o b)[1] = p[1]
      <4>1. \A i \in 1 .. Len(p) + Len(b) : (p \o b)[i] = IF i <= Len(p) THEN p[i] ELSE b[i - Len(p)]
        BY <2>2, ConcatProperties
      <4> QED BY <2>2, <3>3, <4>1
    <3> QED BY <2>3, <3>3, <3>4
  <2> QED BY <1>1, <1>6, <2>1, <2>3, <2>4, <2>5 DEF Sound, Course, Migrating
<1>7. CASE op \in {"credential", "regen", "sync"}
  <2>1. CASE op = "credential"
    <3>1. StepsOf(op) \in Seq({Write("credential")})
      BY <2>1, OneStep DEF StepsOf
    <3>2. "linkPolicy" \in disk /\ "libPolicy" \in disk
      BY <2>1 DEF Admitted
    <3> QED BY <1>1, <2>1, <3>1, <3>2 DEF Sound, Course
  <2>2. CASE op = "regen"
    <3>1. StepsOf(op) \in Seq({Make("frames")})
      BY <2>2, OneStep DEF StepsOf
    <3> QED BY <1>1, <2>2, <3>1 DEF Sound, Course
  <2>3. CASE op = "sync"
    <3>1. StepsOf(op) \in Seq({Seed})
      BY <2>3, OneStep DEF StepsOf
    <3> QED BY <1>1, <2>3, <3>1 DEF Sound, Course
  <2> QED BY <1>7, <2>1, <2>2, <2>3
<1> QED BY <1>2, <1>3, <1>4, <1>5, <1>6, <1>7 DEF Requests

-----------------------------------------------------------------------------
\* As long as no two requests overlapped, at most one is under way and finds what it needs.
OneAtATime ==
    /\ \A a, b \in Admins : ~Idle(a) /\ ~Idle(b) => a = b
    /\ \A a \in Admins : \A op, todo :
           admin[a].op = op /\ admin[a].todo = todo /\ todo # <<>> => Sound(op, todo)
    /\ AtRest => Sound("none", <<>>)

RequestsShape ==
    admin = [a \in Admins |-> [op |-> admin[a].op, todo |-> admin[a].todo]]

RepoInv == RequestsShape /\ (~met => OneAtATime)

LEMMA RepoInitInv == RepoFilesInit => RepoInv
<1> SUFFICES ASSUME RepoFilesInit PROVE RepoInv
  OBVIOUS
<1>1. \A a \in Admins : admin[a].op = "none" /\ admin[a].todo = <<>>
  BY DEF RepoFilesInit, NoRequest
<1>2. RequestsShape
  BY DEF RepoFilesInit, NoRequest, RequestsShape
<1>3. Sound("none", <<>>)
  BY DEF RepoFilesInit, Sound, Footing, Served
<1> QED BY <1>1, <1>2, <1>3 DEF RepoInv, OneAtATime, Idle

LEMMA RepoNextInv == RepoInv /\ [RepoFilesNext]_repoVars => RepoInv'
<1> SUFFICES ASSUME RepoInv, [RepoFilesNext]_repoVars PROVE RepoInv'
  OBVIOUS
<1>1. ASSUME NEW a \in Admins, NEW op \in Requests, StartAdmin(a, op)
      PROVE  RepoInv'
  <2>0. PICK todo : todo = StepsOf(op)
    OBVIOUS
  <2>1. admin' = [admin EXCEPT ![a] = [op |-> op, todo |-> todo]]
    BY <1>1, <2>0 DEF StartAdmin
  <2>2. /\ admin'[a] = [op |-> op, todo |-> todo]
        /\ \A b \in Admins \ {a} : admin'[b] = admin[b]
        /\ RequestsShape'
    BY <2>1 DEF RepoInv, RequestsShape
  <2>3. ASSUME ~met' PROVE OneAtATime'
    <3>1. ~met /\ \A b \in Admins : Idle(b)
      BY <1>1, <2>3 DEF StartAdmin
    <3>2. Sound("none", <<>>)
      BY <3>1 DEF RepoInv, OneAtATime, AtRest
    <3>3. Sound(op, todo) /\ UNCHANGED <<disk, cutShort, halfDone>>
      BY <1>1, <2>0, <3>2, RequestBegins DEF StartAdmin
    <3>4. Sound(op, todo)'
      BY <3>3 DEF Sound, Footing, Served, Course, Registering, AddPlaces, Undoing, Archiving,
                  Restoring, Deleting, Migrating
    <3>5. \A b \in Admins \ {a} : admin'[b].todo = <<>>
      BY <2>2, <3>1 DEF Idle
    <3>6. todo = <<>> => Sound("none", <<>>)'
      BY <3>4 DEF Sound
    <3> QED BY <2>2, <3>4, <3>5, <3>6 DEF OneAtATime, Idle, AtRest
  <2> QED BY <2>2, <2>3 DEF RepoInv
<1>2. ASSUME NEW a \in Admins, ~Idle(a), NEW rest, met' = met,
             admin' = [admin EXCEPT ![a].todo = rest],
             NEW op, op = admin[a].op, NEW todo, todo = admin[a].todo,
             ~met => \/ Goes(todo, rest) \/ Blocked(op, todo, rest) \/ Fails(op, todo, rest)
                     \/ rest = <<>> /\ Stopped(op, todo)
      PROVE  RepoInv'
  <2>1. /\ admin'[a].op = op /\ admin'[a].todo = rest
        /\ \A b \in Admins \ {a} : admin'[b] = admin[b]
        /\ RequestsShape'
    BY <1>2 DEF RepoInv, RequestsShape
  <2>2. ASSUME ~met' PROVE OneAtATime'
    <3>1. /\ ~met /\ todo # <<>>
          /\ \A b \in Admins \ {a} : admin[b].todo = <<>>
      BY <1>2, <2>2 DEF RepoInv, OneAtATime, Idle
    <3>2. Sound(op, todo)
      BY <1>2, <3>1 DEF RepoInv, OneAtATime
    <3>3. Sound(op, rest)' \/ (rest = <<>> /\ Sound("none", <<>>)')
      BY <1>2, <3>1, <3>2, RequestGoesOn, StopsSafely
    <3>4. rest = <<>> => Sound("none", <<>>)'
      BY <3>3 DEF Sound
    <3> QED BY <2>1, <3>1, <3>3, <3>4 DEF OneAtATime, Idle, AtRest
  <2> QED BY <2>1, <2>2 DEF RepoInv
<1>3. ASSUME NEW a \in Admins, AdminStep(a)
      PROVE  RepoInv'
  <2>1. PICK op, todo : op = admin[a].op /\ todo = admin[a].todo
    OBVIOUS
  <2>2. PICK rest : /\ admin' = [admin EXCEPT ![a].todo = rest]
                    /\ Goes(todo, rest) \/ Blocked(op, todo, rest)
    <3>1. CASE Possible(Head(todo))
      BY <1>3, <2>1, <3>1 DEF AdminStep, Goes
    <3>2. CASE ~Possible(Head(todo))
      BY <1>3, <2>1, <3>2 DEF AdminStep, Blocked
    <3> QED BY <3>1, <3>2
  <2> QED BY <1>2, <1>3, <2>1, <2>2 DEF AdminStep
<1>4. ASSUME NEW a \in Admins, AdminStepFails(a)
      PROVE  RepoInv'
  <2>1. PICK op, todo : op = admin[a].op /\ todo = admin[a].todo
    OBVIOUS
  <2>2. PICK rest : rest = Undo(op, Head(todo), Tail(todo))
    OBVIOUS
  <2>3. /\ admin' = [admin EXCEPT ![a].todo = rest]
        /\ disk' \in HalfRemoved(Head(todo))
                        \cup (IF Head(todo) = Make("libBare") THEN {disk \cup {"libBare"}}
                              ELSE IF Head(todo) = Seed /\ Active THEN {disk \cup {"pending"}}
                              ELSE {})
        /\ halfDone' <=> (halfDone \/ op \in {"delete", "migrate"}
                                  \/ Head(todo) = Make("libBare") \/ Head(todo).do = "try")
        /\ cutShort' <=> (cutShort \/ (halfDone /\ Head(todo).do = "try"))
    BY <1>4, <2>1, <2>2, Zenon DEF AdminStepFails
  <2>4. Fails(op, todo, rest)
    BY <2>2, <2>3 DEF Fails
  <2> QED BY <1>2, <1>4, <2>1, <2>3, <2>4 DEF AdminStepFails
<1>5. ASSUME NEW a \in Admins, AdminStops(a)
      PROVE  RepoInv'
  <2>1. PICK op, todo : op = admin[a].op /\ todo = admin[a].todo
    OBVIOUS
  <2>2. /\ admin' = [admin EXCEPT ![a].todo = <<>>]
        /\ disk' \in HalfRemoved(Head(todo))
        /\ halfDone' <=> halfDone
        /\ cutShort' <=> (cutShort \/ op = "add" \/ (halfDone /\ Head(todo).do = "try"))
    BY <1>5, <2>1, Zenon DEF AdminStops
  <2>3. Stopped(op, todo)
    BY <2>2 DEF Stopped
  <2> QED BY <1>2, <1>5, <2>1, <2>2, <2>3 DEF AdminStops
<1>6. CASE UNCHANGED repoVars
  BY <1>6 DEF repoVars, RepoInv, RequestsShape, OneAtATime, AtRest, Idle, Sound, Footing, Served,
              Course, Registering, AddPlaces, Undoing, Archiving, Restoring, Deleting, Migrating
<1> QED BY <1>1, <1>3, <1>4, <1>5, <1>6 DEF RepoFilesNext

\* What git serves under a name is gated.
THEOREM ServedIsGatedCorrect == RepoFilesSpec => []ServedIsGated
<1>1. RepoInv => ServedIsGated
  <2> SUFFICES ASSUME RepoInv, ~met, ~cutShort, Served PROVE "preHook" \in disk
    BY DEF ServedIsGated
  <2>1. Footing
    <3>1. CASE AtRest
      BY <3>1 DEF RepoInv, OneAtATime, Sound
    <3>2. CASE ~AtRest
      <4>1. PICK a \in Admins : admin[a].todo # <<>>
        BY <3>2 DEF AtRest, Idle
      <4>2. PICK op, todo : admin[a].op = op /\ admin[a].todo = todo
        OBVIOUS
      <4> QED BY <4>1, <4>2 DEF RepoInv, OneAtATime, Sound
    <3> QED BY <3>1, <3>2
  <2> QED BY <2>1 DEF Footing
<1> QED BY <1>1, RepoInitInv, RepoNextInv, PTL DEF RepoFilesSpec

\* Whatever requests did to a name, it can be used again.
THEOREM SomeWayOutCorrect == RepoFilesSpec => []SomeWayOut
<1>1. RepoInv => SomeWayOut
  <2> SUFFICES ASSUME RepoInv, AtRest, ~met
               PROVE  \/ Admitted("add") \/ Admitted("delete") \/ Admitted("migrate")
                      \/ halfDone /\ Taken \subseteq {"linkPolicy", "linkBare"}
    BY DEF SomeWayOut
  <2>1. Footing
    BY DEF RepoInv, OneAtATime, Sound
  <2>2. /\ Admitted("add") <=> Taken = {}
        /\ Admitted("delete") <=> "libPolicy" \in disk \/ "libBare" \in disk
        /\ Admitted("migrate") <=> "dirPolicy" \in disk \/ "dirBare" \in disk
    BY DEF Admitted
  <2>3. CASE "linkPolicy" \in disk \/ "linkBare" \in disk
    BY <2>1, <2>2, <2>3 DEF Footing, Taken, Places
  <2>4. CASE "linkPolicy" \notin disk /\ "linkBare" \notin disk
    BY <2>2, <2>4 DEF Taken, Places
  <2> QED BY <2>3, <2>4
<1> QED BY <1>1, RepoInitInv, RepoNextInv, PTL DEF RepoFilesSpec

-----------------------------------------------------------------------------
(* The type of the directories and of the requests.                        *)

RepoItems == Places \cup PolicyFiles \cup BareParts
FileSteps == [do : {"make", "link", "drop", "try", "write", "move", "seed"}, item : RepoItems]

\* The lists a request goes through are lists of file operations, never longer than that of a
\* registration.
StepLists == {todo \in Seq(FileSteps) : Len(todo) <= 12}

RepoTypes ==
    /\ disk \subseteq RepoItems
    /\ admin \in [Admins -> [op : Requests \cup {"none"}, todo : StepLists]]
    /\ met \in BOOLEAN /\ cutShort \in BOOLEAN /\ halfDone \in BOOLEAN
    /\ adminCount \in 0 .. MaxAdminRequests
    /\ adminFaults \in 0 .. MaxAdminFaults

LEMMA StepKinds ==
    ASSUME NEW x \in RepoItems
    PROVE  {Make(x), Link(x), Drop(x), Try(x), Write(x), Move(x)} \subseteq FileSteps
  BY DEF FileSteps, Make, Link, Drop, Try, Write, Move

LEMMA SeedIsStep == Seed \in FileSteps
  BY DEF FileSteps, Seed, RepoItems, BareParts

LEMMA KnownItems ==
    /\ {"libPolicy", "libBare", "linkPolicy", "linkBare", "dirPolicy", "dirBare"} \subseteq RepoItems
    /\ {"toml", "frames", "credential", "pending"} \subseteq RepoItems
    /\ {"capped", "preHook", "postHook", "history"} \subseteq RepoItems
    /\ \A x \in RepoItems : LibOf(x) \in RepoItems
  BY DEF RepoItems, Places, PolicyFiles, BareParts, LibOf

\* Lists of up to four operations.
LEMMA ShortStepLists ==
    ASSUME NEW x \in FileSteps, NEW y \in FileSteps, NEW z \in FileSteps, NEW w \in FileSteps
    PROVE  {<<>>, <<x>>, <<x, y>>, <<x, y, z>>, <<x, y, z, w>>} \subseteq StepLists
<1>1. <<>> \in StepLists /\ <<x>> \in StepLists
  BY DEF StepLists
<1>2. <<x, y>> \in StepLists
  BY DEF StepLists
<1>3. <<x, y, z>> \in StepLists
  BY DEF StepLists
<1>4. <<x, y, z, w>> \in StepLists
  BY DEF StepLists
<1> QED BY <1>1, <1>2, <1>3, <1>4

LEMMA AddListTyped == AddList \in StepLists
<1>1. PICK S : AddList \in Seq(S)
  BY AddListItems
<1>2. \A i \in 1 .. 12 : AddList[i] \in FileSteps
  <2>1. \A i \in 1 .. 7 : AddList[i] \in FileSteps
    BY AddListItems, StepKinds, KnownItems
  <2>2. \A i \in 8 .. 12 : AddList[i] \in FileSteps
    BY AddListItems, StepKinds, SeedIsStep, KnownItems
  <2> QED BY <2>1, <2>2
<1>3. AddList = [i \in 1 .. 12 |-> AddList[i]]
  BY <1>1, AddListItems
<1>4. AddList \in [1 .. 12 -> FileSteps]
  BY <1>2, <1>3
<1>5. AddList \in Seq(FileSteps)
  BY <1>4, SeqDef, 12 \in Nat
<1>6. Len(AddList) <= 12
  BY AddListItems
<1> QED BY <1>5, <1>6, Zenon DEF StepLists

LEMMA StepsOfTyped ==
    ASSUME NEW op \in Requests
    PROVE  StepsOf(op) \in StepLists
<1>1. CASE op = "add"
  BY <1>1, AddListTyped DEF StepsOf
<1>2. CASE op = "migrate"
  <2>1. PICK s : s = MigrateSteps("dirPolicy", "linkPolicy")
    OBVIOUS
  <2>2. PICK t : t = MigrateSteps("dirBare", "linkBare")
    OBVIOUS
  <2>3. s \in Seq(FileSteps) /\ Len(s) <= 2
    BY <2>1, StepKinds, KnownItems DEF MigrateSteps
  <2>4. t \in Seq(FileSteps) /\ Len(t) <= 2
    BY <2>2, StepKinds, KnownItems DEF MigrateSteps
  <2>5. s \o t \in Seq(FileSteps) /\ Len(s \o t) = Len(s) + Len(t)
    BY <2>3, <2>4, ConcatProperties
  <2>6. StepsOf(op) = s \o t
    BY <1>2, <2>1, <2>2 DEF StepsOf
  <2>7. Len(s) \in Nat /\ Len(t) \in Nat
    BY <2>3, <2>4
  <2> QED BY <2>3, <2>4, <2>5, <2>6, <2>7 DEF StepLists
<1>3. CASE op \in {"archive", "restore", "delete"}
  <2>1. /\ ArchiveSteps \in StepLists /\ RestoreSteps \in StepLists
        /\ DeleteSteps \in StepLists
    BY ShortStepLists, StepKinds, KnownItems DEF ArchiveSteps, RestoreSteps, DeleteSteps
  <2> QED BY <1>3, <2>1 DEF StepsOf
<1>4. CASE op \in {"credential", "regen", "sync"}
  BY <1>4, ShortStepLists, StepKinds, SeedIsStep, KnownItems DEF StepsOf
<1> QED BY <1>1, <1>2, <1>3, <1>4 DEF Requests

LEMMA UndoTyped ==
    ASSUME NEW op, NEW step \in FileSteps, NEW rest \in StepLists
    PROVE  Undo(op, step, rest) \in StepLists
<1>1. /\ <<>> \in StepLists
      /\ <<Try("libPolicy")>> \in StepLists
      /\ <<Try("libPolicy"), Try("libBare")>> \in StepLists
      /\ <<Try("linkPolicy"), Try("libPolicy"), Try("libBare")>> \in StepLists
      /\ <<Link("linkPolicy")>> \in StepLists
      /\ <<Try("linkPolicy")>> \in StepLists
  BY ShortStepLists, StepKinds, KnownItems
<1> QED BY <1>1 DEF Undo

LEMMA ResultTyped ==
    ASSUME disk \subseteq RepoItems, NEW step \in FileSteps
    PROVE  Result(step) \subseteq RepoItems
<1>1. step.item \in RepoItems /\ LibOf(step.item) \in RepoItems
  BY KnownItems DEF FileSteps
<1>2. step.do \in {"make", "link", "drop", "try", "write", "move", "seed"}
  BY DEF FileSteps
<1>3. CASE step.do \in {"make", "link"}
  BY <1>1, <1>3 DEF Result
<1>4. CASE step.do \in {"drop", "try"}
  BY <1>4 DEF Result
<1>5. CASE step.do = "write"
  BY <1>1, <1>5, KnownItems DEF Result
<1>6. CASE step.do = "move"
  BY <1>1, <1>6 DEF Result
<1>7. CASE step.do = "seed"
  BY <1>7, KnownItems DEF Result
<1> QED BY <1>2, <1>3, <1>4, <1>5, <1>6, <1>7

LEMMA HalfRemovedTyped ==
    ASSUME disk \subseteq RepoItems, NEW step, NEW left \in HalfRemoved(step)
    PROVE  left \subseteq RepoItems
  BY DEF HalfRemoved

\* The operation a request is at, and what is left of its list.
LEMMA AtAStep ==
    ASSUME RepoTypes, NEW a \in Admins, ~Idle(a)
    PROVE  /\ Head(admin[a].todo) \in FileSteps
           /\ Tail(admin[a].todo) \in StepLists
<1>1. PICK todo \in Seq(FileSteps) : todo = admin[a].todo /\ todo # <<>> /\ Len(todo) <= 12
  BY DEF RepoTypes, StepLists, Idle
<1>2. Head(todo) \in FileSteps /\ Tail(todo) \in Seq(FileSteps) /\ Len(Tail(todo)) = Len(todo) - 1
  BY <1>1, HeadTailProperties
<1>3. Len(todo) \in Nat /\ Len(Tail(todo)) \in Nat
  BY <1>1, <1>2
<1> QED BY <1>1, <1>2, <1>3 DEF StepLists

\* A request goes on with a list of its own.
LEMMA ListReplaced ==
    ASSUME RepoTypes, NEW a \in Admins, NEW todo \in StepLists,
           admin' = [admin EXCEPT ![a].todo = todo]
    PROVE  admin' \in [Admins -> [op : Requests \cup {"none"}, todo : StepLists]]
<1>1. admin[a].op \in Requests \cup {"none"}
  BY DEF RepoTypes
<1>2. [admin[a] EXCEPT !.todo = todo] \in [op : Requests \cup {"none"}, todo : StepLists]
  BY <1>1 DEF RepoTypes
<1> QED BY <1>2 DEF RepoTypes

LEMMA RepoTypesStep == RepoTypes /\ [RepoFilesNext]_repoVars => RepoTypes'
<1> SUFFICES ASSUME RepoTypes, [RepoFilesNext]_repoVars PROVE RepoTypes'
  OBVIOUS
<1>1. ASSUME NEW a \in Admins, NEW op \in Requests, StartAdmin(a, op)
      PROVE  RepoTypes'
  <2>1. PICK todo \in StepLists : admin' = [admin EXCEPT ![a] = [op |-> op, todo |-> todo]]
    BY <1>1, StepsOfTyped DEF StartAdmin
  <2>2. admin' \in [Admins -> [op : Requests \cup {"none"}, todo : StepLists]]
    BY <2>1 DEF RepoTypes
  <2>3. adminCount' \in 0 .. MaxAdminRequests
    BY <1>1, RepoFilesAssumption DEF StartAdmin, RepoTypes, RepoFilesAssumption
  <2>4. met' \in BOOLEAN
    BY <1>1 DEF StartAdmin
  <2> QED BY <1>1, <2>2, <2>3, <2>4 DEF StartAdmin, RepoTypes
<1>2. ASSUME NEW a \in Admins, AdminStep(a)
      PROVE  RepoTypes'
  <2>1. PICK step \in FileSteps, rest \in StepLists :
           step = Head(admin[a].todo) /\ rest = Tail(admin[a].todo)
    BY <1>2, AtAStep DEF AdminStep
  <2>2. PICK todo \in StepLists : admin' = [admin EXCEPT ![a].todo = todo]
    <3>1. CASE Possible(step)
      BY <1>2, <2>1, <3>1 DEF AdminStep
    <3>2. CASE ~Possible(step)
      <4>1. PICK todo : todo = Undo(admin[a].op, step, rest)
        OBVIOUS
      <4>2. todo \in StepLists
        BY <4>1, UndoTyped
      <4> QED BY <1>2, <2>1, <3>2, <4>1, <4>2 DEF AdminStep
    <3> QED BY <3>1, <3>2
  <2>3. disk' \subseteq RepoItems
    <3>1. CASE Possible(step)
      BY <1>2, <2>1, <3>1, ResultTyped DEF AdminStep, RepoTypes
    <3>2. CASE ~Possible(step)
      BY <1>2, <2>1, <3>2 DEF AdminStep, RepoTypes
    <3> QED BY <3>1, <3>2
  <2> QED BY <1>2, <2>2, <2>3, ListReplaced DEF AdminStep, RepoTypes
<1>3. ASSUME NEW a \in Admins, AdminStepFails(a)
      PROVE  RepoTypes'
  <2>1. PICK step \in FileSteps, rest \in StepLists :
           step = Head(admin[a].todo) /\ rest = Tail(admin[a].todo)
    BY <1>3, AtAStep DEF AdminStepFails
  <2>2. PICK todo : todo = Undo(admin[a].op, step, rest)
    OBVIOUS
  <2>3. todo \in StepLists
    BY <2>2, UndoTyped
  <2>4. admin' = [admin EXCEPT ![a].todo = todo]
    BY <1>3, <2>1, <2>2 DEF AdminStepFails
  <2>5. disk' \in HalfRemoved(step) \/ disk' \in {disk \cup {"libBare"}, disk \cup {"pending"}}
    BY <1>3, <2>1 DEF AdminStepFails
  <2>6. disk' \subseteq RepoItems
    BY <2>5, HalfRemovedTyped, KnownItems DEF RepoTypes
  <2>7. halfDone' \in BOOLEAN /\ cutShort' \in BOOLEAN
    BY <1>3 DEF AdminStepFails
  <2>8. adminFaults' \in 0 .. MaxAdminFaults
    BY <1>3, RepoFilesAssumption DEF AdminStepFails, RepoTypes, RepoFilesAssumption
  <2> QED BY <1>3, <2>3, <2>4, <2>6, <2>7, <2>8, ListReplaced DEF AdminStepFails, RepoTypes
<1>4. ASSUME NEW a \in Admins, AdminStops(a)
      PROVE  RepoTypes'
  <2>1. <<>> \in StepLists
    BY DEF StepLists
  <2>2. disk' \subseteq RepoItems
    BY <1>4, HalfRemovedTyped DEF AdminStops, RepoTypes
  <2>3. cutShort' \in BOOLEAN
    BY <1>4 DEF AdminStops
  <2>4. adminFaults' \in 0 .. MaxAdminFaults
    BY <1>4, RepoFilesAssumption DEF AdminStops, RepoTypes, RepoFilesAssumption
  <2> QED BY <1>4, <2>1, <2>2, <2>3, <2>4, ListReplaced DEF AdminStops, RepoTypes
<1>5. CASE UNCHANGED repoVars
  BY <1>5 DEF repoVars, RepoTypes
<1> QED BY <1>1, <1>2, <1>3, <1>4, <1>5 DEF RepoFilesNext

\* What is on the disk and what each request has left to do have their types.
THEOREM RepoTypeCorrect == RepoFilesSpec => []RepoFilesTypeOK
<1>1. RepoFilesInit => RepoTypes
  <2> SUFFICES ASSUME RepoFilesInit PROVE RepoTypes
    OBVIOUS
  <2>1. admin \in [Admins -> [op : Requests \cup {"none"}, todo : StepLists]]
    BY DEF RepoFilesInit, NoRequest, StepLists
  <2>2. disk \subseteq RepoItems
    BY KnownItems DEF RepoFilesInit
  <2>3. 0 \in 0 .. MaxAdminRequests /\ 0 \in 0 .. MaxAdminFaults
    BY RepoFilesAssumption DEF RepoFilesAssumption
  <2>4. met \in BOOLEAN /\ cutShort \in BOOLEAN /\ halfDone \in BOOLEAN
    BY DEF RepoFilesInit
  <2> QED BY <2>1, <2>2, <2>3, <2>4 DEF RepoFilesInit, RepoTypes
<1>2. RepoTypes => RepoFilesTypeOK
  BY AddListItems DEF RepoTypes, RepoFilesTypeOK, RepoItems, StepLists
<1> QED BY <1>1, <1>2, RepoTypesStep, PTL DEF RepoFilesSpec

-----------------------------------------------------------------------------
(* appframes.toml.                                                         *)

EditStages == {"idle", "read", "reread", "write", "fill", "rename"}
EditOps == TextEdits \cup WholeFileSaves \cup PolicySaves
EditHandles == {"none", "tmp", "live", "gone"}
EditNames == Frames \cup KitNames \cup OwnKits \cup Checks \cup GroupTokens

EditRecords ==
    [at : EditStages, op : EditOps, arg : SUBSET EditNames, first : Documents,
     second : Documents, fd : EditHandles, overlapped : BOOLEAN]

\* What a request is, and that it names what its operation works on.
EditorsTyped ==
    /\ editor \in [Editors -> EditRecords]
    /\ \A r \in Editors : editor[r].arg \subseteq EditArgs(editor[r].op)

\* Two requests in flight know of each other, and none is in flight before the repair.
Overlaps ==
    /\ \A r \in InFlight : \A q \in InFlight : r # q => editor[r].overlapped
    /\ startup = "new" => InFlight = {}

\* A request that no other overlapped with: what it read is what is there, and what it has
\* written is in the shared file.
UpToDate(e) == e.first = live /\ e.second = live
AsRead(e) ==
    /\ e.at \in {"reread", "write"} => UpToDate(e)
    /\ e.at \in {"fill", "rename"} => UpToDate(e) /\ e.op \notin PolicySaves /\ hasTmp /\ e.fd = "tmp"
    /\ e.at = "fill" => shared = Blank
Undisturbed ==
    \A r \in Editors :
       \/ editor[r].overlapped
       \/ /\ AsRead(editor[r])
          /\ editor[r].at = "rename" => shared = Written(r)

FramesInv == FramesTypeOK /\ EditorsTyped /\ Overlaps /\ Undisturbed

\* What a write of the operation must keep.
Keeps(op, old, new) ==
    /\ op \notin WholeFileSaves =>
          /\ old.severity \subseteq new.severity
          /\ \/ old.checks \subseteq new.checks
             \/ op = "deleteCheck"
          /\ old.hours => \/ new.hours
                          \/ op = "hours"
    /\ op \notin PolicySaves =>
          /\ \/ old.kits \subseteq new.kits
             \/ op = "unlabel"
          /\ \/ old.own \subseteq new.own
             \/ op \in {"drop", "clearOwn"}
LEMMA KitFramesAreFrames ==
    ASSUME NEW kits \in SUBSET (KitNames \cup OwnKits)
    PROVE  FramesOf(kits) \subseteq Frames
  BY FramesFileAssumption DEF FramesFileAssumption, FramesOf

LEMMA BlankTyped == Blank \in Documents /\ Torn \in Documents
  BY DEF Blank, Torn, Documents

\* Each renderer writes a document, and drops only what its family does not know.
LEMMA TextEditWrites ==
    ASSUME NEW op \in TextEdits, NEW x, x \subseteq EditArgs(op),
           NEW d1 \in Documents, NEW d2 \in Documents
    PROVE  /\ TextEdit(op, x, d1, d2) \in Documents
           /\ d1 = d2 => Keeps(op, d2, TextEdit(op, x, d1, d2))
<1>1. CASE op = "toggle"
  BY <1>1 DEF TextEdit, Documents, Keeps, EditArgs, PolicySaves, WholeFileSaves
<1>2. CASE op = "apply"
  <2>1. FramesOf(x) \subseteq Frames
    BY <1>2, KitFramesAreFrames DEF EditArgs
  <2> QED BY <1>2, <2>1 DEF TextEdit, Documents, Keeps, PolicySaves, WholeFileSaves
<1>3. CASE op = "clear"
  BY <1>3 DEF TextEdit, Documents, Keeps, PolicySaves, WholeFileSaves
<1>4. CASE op = "label"
  BY <1>4 DEF TextEdit, Labelled, Documents, Keeps, EditArgs, PolicySaves, WholeFileSaves
<1>5. CASE op = "unlabel"
  BY <1>5 DEF TextEdit, Labelled, Documents, Keeps, EditArgs, PolicySaves, WholeFileSaves
<1> QED BY <1>1, <1>2, <1>3, <1>4, <1>5 DEF TextEdits

LEMMA WholeFileWrites ==
    ASSUME NEW op \in WholeFileSaves, NEW x, x \subseteq EditArgs(op), NEW d \in Documents
    PROVE  /\ WholeFileSave(op, x, d) \in Documents
           /\ Keeps(op, d, WholeFileSave(op, x, d))
<1>1. CASE op = "create"
  <2>1. FramesOf(x) \subseteq Frames /\ x \subseteq OwnKits
    BY <1>1, KitFramesAreFrames DEF EditArgs
  <2> QED BY <1>1, <2>1 DEF WholeFileSave, RenderedFull, Documents, Keeps, PolicySaves, WholeFileSaves
<1>2. CASE op = "drop"
  BY <1>2 DEF WholeFileSave, RenderedFull, Documents, Keeps, PolicySaves, WholeFileSaves
<1>3. CASE op = "clearOwn"
  BY <1>3 DEF WholeFileSave, RenderedFull, Documents, Keeps, PolicySaves, WholeFileSaves
<1>4. CASE op = "category"
  BY <1>4 DEF WholeFileSave, RenderedFull, Documents, Keeps, PolicySaves, WholeFileSaves
<1> QED BY <1>1, <1>2, <1>3, <1>4 DEF WholeFileSaves

LEMMA PolicyWrites ==
    ASSUME NEW op \in PolicySaves, NEW x, x \subseteq EditArgs(op),
           NEW d1 \in Documents, NEW d2 \in Documents
    PROVE  /\ PolicySave(op, x, d1, d2) \in Documents
           /\ d1 = d2 => Keeps(op, d2, PolicySave(op, x, d1, d2))
<1>1. CASE op = "severity"
  BY <1>1 DEF PolicySave, Rendered, Documents, Keeps, EditArgs, PolicySaves, WholeFileSaves
<1>2. CASE op = "addCheck"
  BY <1>2 DEF PolicySave, Rendered, Documents, Keeps, EditArgs, PolicySaves, WholeFileSaves
<1>3. CASE op = "deleteCheck"
  BY <1>3 DEF PolicySave, Rendered, Documents, Keeps, PolicySaves, WholeFileSaves
<1>4. CASE op = "hours"
  BY <1>4 DEF PolicySave, Rendered, Documents, Keeps, PolicySaves, WholeFileSaves
<1>5. CASE op = "groups"
  BY <1>5 DEF PolicySave, Rendered, Documents, Keeps, EditArgs, PolicySaves, WholeFileSaves
<1>6. CASE op = "scan"
  <2>1. FramesOf(x) \subseteq Frames
    BY <1>6, KitFramesAreFrames DEF EditArgs
  <2> QED BY <1>6, <2>1 DEF PolicySave, Rendered, Documents, Keeps, PolicySaves, WholeFileSaves
<1>7. CASE op = "repair"
  <2>1. FramesOf(d1.frames \cap KitNames) \subseteq Frames
    BY KitFramesAreFrames
  <2> QED BY <1>7, <2>1 DEF PolicySave, Rendered, Documents, Keeps, PolicySaves, WholeFileSaves
<1> QED BY <1>1, <1>2, <1>3, <1>4, <1>5, <1>6, <1>7 DEF PolicySaves

LEMMA WrittenFits ==
    ASSUME EditorsTyped, NEW r \in Editors
    PROVE  /\ Written(r) \in Documents
           /\ editor[r].first = live /\ editor[r].second = live =>
                 Keeps(editor[r].op, live, Written(r))
<1> DEFINE e == editor[r]
<1>1. e \in EditRecords /\ e.arg \subseteq EditArgs(e.op)
  BY DEF EditorsTyped
<1>2. e.op \in EditOps /\ e.first \in Documents /\ e.second \in Documents
  BY <1>1 DEF EditRecords
<1>3. CASE e.op \in TextEdits
  <2>1. Written(r) = TextEdit(e.op, e.arg, e.first, e.second)
    BY <1>3 DEF Written, TextEdits, WholeFileSaves, PolicySaves
  <2> QED BY <1>1, <1>2, <1>3, <2>1, TextEditWrites
<1>4. CASE e.op \in WholeFileSaves
  <2>1. Written(r) = WholeFileSave(e.op, e.arg, e.first)
    BY <1>4 DEF Written, TextEdits, WholeFileSaves, PolicySaves
  <2> QED BY <1>1, <1>2, <1>4, <2>1, WholeFileWrites
<1>5. CASE e.op \in PolicySaves
  <2>1. Written(r) = PolicySave(e.op, e.arg, e.first, e.second)
    BY <1>5 DEF Written, TextEdits, WholeFileSaves, PolicySaves
  <2> QED BY <1>1, <1>2, <1>5, <2>1, PolicyWrites
<1> QED BY <1>2, <1>3, <1>4, <1>5 DEF EditOps

\* What the property asks of a step.
SectionsKept ==
    \A r \in Writers :
       \/ editor[r].overlapped
       \/ Keeps(editor[r].op, live, live')

LEMMA SameDocumentKept == live' = live => SectionsKept
  BY DEF SectionsKept, Keeps

LEMMA KeptIsTheProperty == SectionsKept <=>
   \A r \in Writers :
          \/ editor[r].overlapped
          \/ /\ editor[r].op \notin WholeFileSaves =>
                   /\ live.severity \subseteq live'.severity
                   /\ live.checks \subseteq live'.checks \/ editor[r].op = "deleteCheck"
                   /\ live.hours => live'.hours \/ editor[r].op = "hours"
             /\ editor[r].op \notin PolicySaves =>
                   /\ live.kits \subseteq live'.kits \/ editor[r].op = "unlabel"
                   /\ live.own \subseteq live'.own \/ editor[r].op \in {"drop", "clearOwn"}
  BY DEF SectionsKept, Keeps

LEMMA NoEditorTyped ==
    /\ NoEditor \in EditRecords
    /\ NoEditor.arg \subseteq EditArgs(NoEditor.op)
    /\ NoEditor.at = "idle"
  BY BlankTyped DEF NoEditor, EditRecords, EditStages, EditOps, EditHandles, TextEdits

LEMMA FollowsTyped ==
    ASSUME NEW e \in EditRecords, e.arg \subseteq EditArgs(e.op)
    PROVE  /\ Follows(e) \in EditRecords
           /\ Follows(e).arg \subseteq EditArgs(Follows(e).op)
           /\ Follows(e).at \in {"idle", "read"}
<1>1. CASE e.op \in {"apply", "scan", "repair"}
  <2>1. Follows(e) = [e EXCEPT !.at = "read", !.op = "label", !.fd = "none"]
    BY <1>1 DEF Follows
  <2>2. e.arg \subseteq KitNames
    BY <1>1 DEF EditArgs
  <2>3. Follows(e) \in EditRecords /\ Follows(e).arg = e.arg /\ Follows(e).op = "label" /\ Follows(e).at = "read"
    BY <2>1 DEF EditRecords, EditStages, EditOps, EditHandles, TextEdits
  <2> QED BY <2>2, <2>3 DEF EditArgs
<1>2. CASE e.op = "clear"
  <2>1. Follows(e) = [e EXCEPT !.at = "read", !.op = "unlabel", !.fd = "none"]
    BY <1>2 DEF Follows
  <2>2. e.arg \subseteq KitNames
    BY <1>2 DEF EditArgs
  <2>3. Follows(e) \in EditRecords /\ Follows(e).arg = e.arg /\ Follows(e).op = "unlabel" /\ Follows(e).at = "read"
    BY <2>1 DEF EditRecords, EditStages, EditOps, EditHandles, TextEdits
  <2> QED BY <2>2, <2>3 DEF EditArgs
<1>3. CASE e.op \notin {"apply", "scan", "repair", "clear"}
  <2>1. Follows(e) = NoEditor
    BY <1>3 DEF Follows
  <2> QED BY <2>1, NoEditorTyped
<1> QED BY <1>1, <1>2, <1>3

\* A rename moves what others have open and changes nothing else about them.
LEMMA RenamedTyped ==
    ASSUME NEW e \in EditRecords, NEW moved \in BOOLEAN
    PROVE  /\ Renamed(e, moved) \in EditRecords
           /\ Renamed(e, moved).at = e.at
           /\ Renamed(e, moved).op = e.op
           /\ Renamed(e, moved).arg = e.arg
           /\ Renamed(e, moved).overlapped = e.overlapped
  BY DEF Renamed, EditRecords, EditHandles

\* A step of r alone: the others stay in flight, or idle, as they were.
LEMMA OneActs ==
    ASSUME FramesInv, NEW r \in Editors, editor[r].at # "idle",
           editor' \in [Editors -> EditRecords],
           editor'[r].arg \subseteq EditArgs(editor'[r].op),
           \/ editor'[r].at = "idle"
           \/ editor'[r].overlapped = editor[r].overlapped,
           \A q \in Editors \ {r} : /\ editor'[q].at = editor[q].at
                                    /\ editor'[q].op = editor[q].op
                                    /\ editor'[q].arg = editor[q].arg
                                    /\ editor'[q].overlapped = editor[q].overlapped,
           startup' = startup
    PROVE  /\ EditorsTyped' /\ Overlaps'
           /\ \A q \in Editors \ {r} : \/ editor'[q].at = "idle"
                                       \/ editor'[q].overlapped /\ editor[r].overlapped
           /\ Writers \subseteq {r}
<1>1. EditorsTyped'
  BY DEF EditorsTyped, FramesInv
<1>2. InFlight' \subseteq InFlight
  BY DEF InFlight
<1>3. Overlaps'
  BY <1>2 DEF FramesInv, Overlaps, InFlight
<1>4. \A q \in Editors \ {r} : \/ editor'[q].at = "idle"
                               \/ editor'[q].overlapped /\ editor[r].overlapped
  BY DEF FramesInv, Overlaps, InFlight
<1>5. Writers \subseteq {r}
  BY DEF Writers
<1> QED BY <1>1, <1>3, <1>4, <1>5

\* What is idle has nothing to keep up to date.
LEMMA IdleUndisturbed ==
    ASSUME NEW q \in Editors, editor'[q].at = "idle" \/ editor'[q].overlapped
    PROVE  \/ editor'[q].overlapped
           \/ /\ AsRead(editor[q])'
              /\ editor'[q].at = "rename" => shared' = Written(q)'
  BY DEF AsRead

\* The records of the requests are typed, and so is the rest: the type invariant.
LEMMA FramesTypes ==
    ASSUME EditorsTyped, live \in Documents, shared \in Documents,
           startup \in {"new", "repair", "done"}, hasTmp \in BOOLEAN,
           editCount \in 0 .. MaxEditRequests, editFaults \in 0 .. MaxEditFaults
    PROVE  FramesTypeOK
  BY DEF EditorsTyped, FramesTypeOK, EditRecords, EditStages, EditOps, EditHandles

LEMMA FramesStarts == FramesInit => FramesInv
<1> SUFFICES ASSUME FramesInit PROVE FramesInv
  OBVIOUS
<1>1. EditorsTyped
  BY NoEditorTyped DEF FramesInit, EditorsTyped
<1>2. FramesTypeOK
  <2>1. /\ live \in Documents /\ shared \in Documents /\ startup \in {"new", "repair", "done"}
        /\ hasTmp \in BOOLEAN
    BY BlankTyped, FramesFileAssumption DEF FramesInit, FramesFileAssumption
  <2>2. editCount \in 0 .. MaxEditRequests /\ editFaults \in 0 .. MaxEditFaults
    BY FramesFileAssumption DEF FramesInit, FramesFileAssumption
  <2> QED BY <1>1, <2>1, <2>2, FramesTypes
<1>3. Overlaps
  BY NoEditorTyped DEF FramesInit, Overlaps, InFlight
<1>4. Undisturbed
  BY NoEditorTyped DEF FramesInit, Undisturbed, AsRead
<1> QED BY <1>1, <1>2, <1>3, <1>4 DEF FramesInv

LEMMA ServeStep == FramesInv /\ Serve => FramesInv' /\ SectionsKept
<1> SUFFICES ASSUME FramesInv, Serve PROVE FramesInv' /\ SectionsKept
  OBVIOUS
<1>1. /\ live' = live /\ shared' = shared /\ hasTmp' = hasTmp /\ editor' = editor
      /\ editCount' = editCount /\ editFaults' = editFaults /\ startup' = "done"
  BY DEF Serve
<1>2. FramesTypeOK' /\ EditorsTyped'
  BY <1>1 DEF FramesInv, FramesTypeOK, EditorsTyped
<1>3. Overlaps'
  BY <1>1 DEF FramesInv, Overlaps, InFlight
<1>4. Undisturbed'
  BY <1>1 DEF FramesInv, Undisturbed, AsRead, UpToDate, Written
<1> QED BY <1>1, <1>2, <1>3, <1>4, SameDocumentKept DEF FramesInv

LEMMA MarkedTyped ==
    ASSUME NEW e \in EditRecords, NEW m, m = [e EXCEPT !.overlapped = TRUE]
    PROVE  /\ m \in EditRecords
           /\ m.at = e.at /\ m.op = e.op /\ m.arg = e.arg /\ m.overlapped
  BY DEF EditRecords

LEMMA StartEditStep ==
    ASSUME FramesInv, NEW r \in Editors, NEW e \in Edits, StartEdit(r, e)
    PROVE  FramesInv' /\ SectionsKept
<1>1. /\ live' = live /\ shared' = shared /\ hasTmp' = hasTmp /\ startup' = startup
      /\ editFaults' = editFaults /\ editCount' = editCount + 1 /\ editCount < MaxEditRequests
      /\ startup = "done" /\ editor[r].at = "idle"
  BY DEF StartEdit
<1> DEFINE new == [NoEditor EXCEPT !.at = "read", !.op = e[1], !.arg = e[2],
                                   !.overlapped = InFlight # {}]
<1>2. e[1] \in EditOps /\ e[2] \subseteq EditArgs(e[1])
  BY FramesFileAssumption DEF FramesFileAssumption, EditOps
<1>3. e[2] \in SUBSET EditNames
  BY <1>2 DEF EditArgs, EditNames
<1>4. /\ new \in EditRecords /\ new.arg = e[2] /\ new.op = e[1] /\ new.at = "read"
      /\ new.overlapped = (InFlight # {})
  BY <1>2, <1>3, BlankTyped DEF NoEditor, EditRecords, EditStages, EditHandles
<1>5. /\ editor'[r] = new
      /\ \A q \in Editors \ {r} :
            editor'[q] = IF q \in InFlight THEN [editor[q] EXCEPT !.overlapped = TRUE] ELSE editor[q]
  BY DEF StartEdit
<1>6. editor \in [Editors -> EditRecords] /\ \A q \in Editors : editor[q] \in EditRecords
  BY DEF FramesInv, EditorsTyped
<1>7. \A q \in Editors \ {r} :
         /\ editor'[q] \in EditRecords
         /\ editor'[q].at = editor[q].at
         /\ editor'[q].op = editor[q].op
         /\ editor'[q].arg = editor[q].arg
         /\ q \in InFlight => editor'[q].overlapped
  <2> SUFFICES ASSUME NEW q \in Editors \ {r}
               PROVE  /\ editor'[q] \in EditRecords
                      /\ editor'[q].at = editor[q].at
                      /\ editor'[q].op = editor[q].op
                      /\ editor'[q].arg = editor[q].arg
                      /\ q \in InFlight => editor'[q].overlapped
    OBVIOUS
  <2>1. CASE q \in InFlight
    <3>1. editor'[q] = [editor[q] EXCEPT !.overlapped = TRUE]
      BY <1>5, <2>1
    <3> QED BY <1>6, <3>1, MarkedTyped
  <2>2. CASE q \notin InFlight
    BY <1>5, <1>6, <2>2
  <2> QED BY <2>1, <2>2
<1>8. editor' \in [Editors -> EditRecords]
  BY <1>4, <1>5, <1>7 DEF StartEdit
<1> HIDE DEF new
<1>9. EditorsTyped'
  <2>1. \A q \in Editors : editor'[q].arg \subseteq EditArgs(editor'[q].op)
    BY <1>2, <1>4, <1>5, <1>7 DEF FramesInv, EditorsTyped
  <2> QED BY <1>8, <2>1 DEF EditorsTyped
<1>10. FramesTypeOK'
  <2>1. editCount' \in 0 .. MaxEditRequests
    BY <1>1, FramesFileAssumption DEF FramesInv, FramesTypeOK, FramesFileAssumption
  <2> QED BY <1>1, <1>9, <2>1 DEF FramesInv, FramesTypeOK, EditorsTyped, EditRecords, EditStages, EditOps, EditHandles
<1>11. Overlaps'
  <2>1. InFlight' = InFlight \cup {r}
    <3>1. \A q \in Editors : q \in InFlight' <=> (q \in InFlight \/ q = r)
      BY <1>4, <1>5, <1>7 DEF InFlight
    <3> QED BY <3>1 DEF InFlight
  <2>2. r \notin InFlight
    BY <1>1 DEF InFlight
  <2>3. ASSUME NEW p \in InFlight', NEW q \in InFlight', p # q PROVE editor'[p].overlapped
    <3>1. CASE p = r
      BY <1>4, <1>5, <2>1, <2>3, <3>1
    <3>2. CASE p # r
      BY <1>7, <2>1, <3>2 DEF InFlight
    <3> QED BY <3>1, <3>2
  <2> QED BY <1>1, <2>3 DEF Overlaps
<1>12. Undisturbed'
  <2>1. ASSUME NEW q \in Editors
        PROVE  \/ editor'[q].overlapped
               \/ /\ AsRead(editor[q])'
                  /\ editor'[q].at = "rename" => shared' = Written(q)'
    <3>1. CASE q = r
      BY <1>4, <1>5, <3>1 DEF AsRead
    <3>2. CASE q # r
      BY <1>7, <3>2, IdleUndisturbed DEF InFlight
    <3> QED BY <3>1, <3>2
  <2> QED BY <2>1 DEF Undisturbed
<1> QED BY <1>1, <1>9, <1>10, <1>11, <1>12, SameDocumentKept DEF FramesInv

LEMMA StartRepairStep ==
    ASSUME FramesInv, NEW r \in Editors, StartRepair(r)
    PROVE  FramesInv' /\ SectionsKept
<1>1. /\ live' = live /\ shared' = shared /\ hasTmp' = hasTmp /\ startup = "new"
      /\ editFaults' = editFaults /\ editCount' = editCount /\ startup' = "repair"
  BY DEF StartRepair
<1> DEFINE new == [NoEditor EXCEPT !.at = "read", !.op = "repair", !.arg = live.frames \cap KitNames]
<1>2. /\ new \in EditRecords /\ new.arg = live.frames \cap KitNames /\ new.op = "repair" /\ new.at = "read"
  BY BlankTyped DEF NoEditor, EditRecords, EditStages, EditHandles, EditOps, PolicySaves, EditNames
<1>3. editor \in [Editors -> EditRecords]
  BY DEF FramesInv, EditorsTyped
<1>4. /\ editor'[r] = new
      /\ \A q \in Editors \ {r} : editor'[q] = editor[q]
      /\ editor' \in [Editors -> EditRecords]
  BY <1>2, <1>3 DEF StartRepair
<1>5. EditorsTyped'
  BY <1>2, <1>4 DEF FramesInv, EditorsTyped, EditArgs
<1>6. FramesTypeOK'
  BY <1>1, <1>5, FramesTypes DEF FramesInv, FramesTypeOK, EditorsTyped, EditRecords, EditStages, EditOps, EditHandles
<1>7. \A q \in Editors \ {r} : editor'[q].at = "idle"
  BY <1>1, <1>4 DEF FramesInv, Overlaps, InFlight
<1>8. Overlaps'
  BY <1>1, <1>7 DEF Overlaps, InFlight
<1>9. Undisturbed'
  <2>1. AsRead(editor[r])' /\ editor'[r].at # "rename"
    BY <1>2, <1>4 DEF AsRead
  <2> QED BY <1>7, <2>1, IdleUndisturbed DEF Undisturbed
<1> QED BY <1>1, <1>5, <1>6, <1>8, <1>9, SameDocumentKept DEF FramesInv

LEMMA ReadDocumentStep ==
    ASSUME FramesInv, NEW r \in Editors, ReadDocument(r)
    PROVE  FramesInv' /\ SectionsKept
<1>1. /\ live' = live /\ shared' = shared /\ hasTmp' = hasTmp /\ startup' = startup
      /\ editFaults' = editFaults /\ editCount' = editCount /\ editor[r].at = "read"
  BY DEF ReadDocument
<1> DEFINE e == editor[r]
           new == IF Refused(e.op, e.arg, live) THEN NoEditor
                  ELSE [e EXCEPT !.at = IF e.op \in ReadsTwice THEN "reread" ELSE "write",
                                 !.first = live, !.second = live]
<1>2. editor \in [Editors -> EditRecords] /\ e \in EditRecords /\ e.arg \subseteq EditArgs(e.op)
      /\ live \in Documents
  BY DEF FramesInv, EditorsTyped, FramesTypeOK
<1>3. /\ new \in EditRecords
      /\ new.arg \subseteq EditArgs(new.op)
      /\ \/ new.at = "idle"
         \/ /\ new.overlapped = e.overlapped
            /\ new.at \in {"reread", "write"} /\ new.first = live /\ new.second = live
  <2>1. CASE Refused(e.op, e.arg, live)
    BY <2>1, NoEditorTyped
  <2>2. CASE ~Refused(e.op, e.arg, live)
    BY <1>2, <2>2 DEF EditRecords, EditStages
  <2> QED BY <2>1, <2>2
<1>4. /\ editor'[r] = new
      /\ \A q \in Editors \ {r} : editor'[q] = editor[q]
      /\ editor' \in [Editors -> EditRecords]
  BY <1>2, <1>3 DEF ReadDocument
<1> HIDE DEF new
<1>5. /\ EditorsTyped' /\ Overlaps'
      /\ \A q \in Editors \ {r} : \/ editor'[q].at = "idle"
                                  \/ editor'[q].overlapped /\ editor[r].overlapped
  BY <1>1, <1>3, <1>4, OneActs
<1>6. FramesTypeOK'
  BY <1>1, <1>5 DEF FramesInv, FramesTypeOK, EditorsTyped, EditRecords, EditStages, EditOps, EditHandles
<1>7. Undisturbed'
  <2>1. AsRead(editor[r])' /\ editor'[r].at # "rename"
    BY <1>1, <1>3, <1>4 DEF AsRead, UpToDate
  <2> QED BY <1>5, <2>1, IdleUndisturbed DEF Undisturbed
<1> QED BY <1>1, <1>5, <1>6, <1>7, SameDocumentKept DEF FramesInv

LEMMA RereadStep ==
    ASSUME FramesInv, NEW r \in Editors, RereadDocument(r)
    PROVE  FramesInv' /\ SectionsKept
<1>1. /\ live' = live /\ shared' = shared /\ hasTmp' = hasTmp /\ startup' = startup
      /\ editFaults' = editFaults /\ editCount' = editCount /\ editor[r].at = "reread"
  BY DEF RereadDocument
<1> DEFINE e == editor[r]
           new == IF Unreadable(e.op, live) THEN NoEditor
                  ELSE [e EXCEPT !.at = "write", !.second = live]
<1>2. editor \in [Editors -> EditRecords] /\ e \in EditRecords /\ e.arg \subseteq EditArgs(e.op)
      /\ live \in Documents
  BY DEF FramesInv, EditorsTyped, FramesTypeOK
<1>3. /\ new \in EditRecords
      /\ new.arg \subseteq EditArgs(new.op)
      /\ \/ new.at = "idle"
         \/ /\ new.overlapped = e.overlapped
            /\ new.at = "write" /\ new.first = e.first /\ new.second = live
  <2>1. CASE Unreadable(e.op, live)
    BY <2>1, NoEditorTyped
  <2>2. CASE ~Unreadable(e.op, live)
    BY <1>2, <2>2 DEF EditRecords, EditStages
  <2> QED BY <2>1, <2>2
<1>4. /\ editor'[r] = new
      /\ \A q \in Editors \ {r} : editor'[q] = editor[q]
      /\ editor' \in [Editors -> EditRecords]
  BY <1>2, <1>3 DEF RereadDocument
<1> HIDE DEF new
<1>5. /\ EditorsTyped' /\ Overlaps'
      /\ \A q \in Editors \ {r} : \/ editor'[q].at = "idle"
                                  \/ editor'[q].overlapped /\ editor[r].overlapped
  BY <1>1, <1>3, <1>4, OneActs
<1>6. FramesTypeOK'
  BY <1>1, <1>5 DEF FramesInv, FramesTypeOK, EditorsTyped, EditRecords, EditStages, EditOps, EditHandles
<1>7. Undisturbed'
  <2>1. \/ editor'[r].overlapped
        \/ AsRead(editor[r])' /\ editor'[r].at # "rename"
    BY <1>1, <1>3, <1>4 DEF AsRead, UpToDate, FramesInv, Undisturbed
  <2> QED BY <1>5, <2>1, IdleUndisturbed DEF Undisturbed
<1> QED BY <1>1, <1>5, <1>6, <1>7, SameDocumentKept DEF FramesInv

\* The editors after a rename.
LEMMA AfterRename ==
    ASSUME FramesInv, NEW r \in Editors, editor[r].at # "idle", NEW moved \in BOOLEAN,
           editor' = [q \in Editors |-> IF q = r THEN Follows(editor[r])
                                        ELSE Renamed(editor[q], moved)],
           startup' = startup
    PROVE  EditorsTyped' /\ Overlaps' /\ Undisturbed' /\ Writers \subseteq {r}
<1> DEFINE e == editor[r]
<1>1. /\ editor \in [Editors -> EditRecords] /\ e \in EditRecords /\ e.arg \subseteq EditArgs(e.op)
      /\ \A q \in Editors : editor[q] \in EditRecords
  BY DEF FramesInv, EditorsTyped
<1>2. /\ Follows(e) \in EditRecords /\ Follows(e).arg \subseteq EditArgs(Follows(e).op)
      /\ Follows(e).at \in {"idle", "read"}
  BY <1>1, FollowsTyped
<1>3. Follows(e).at = "idle" \/ Follows(e).overlapped = e.overlapped
  BY <1>1, NoEditorTyped DEF Follows, EditRecords
<1>4. \A q \in Editors \ {r} :
         /\ editor'[q] \in EditRecords
         /\ editor'[q].at = editor[q].at
         /\ editor'[q].op = editor[q].op
         /\ editor'[q].arg = editor[q].arg
         /\ editor'[q].overlapped = editor[q].overlapped
  BY <1>1, RenamedTyped
<1>5. editor'[r] = Follows(e)
  OBVIOUS
<1>6. editor' \in [Editors -> EditRecords]
  BY <1>2, <1>4, <1>5
<1>7. /\ EditorsTyped' /\ Overlaps'
      /\ \A q \in Editors \ {r} : \/ editor'[q].at = "idle"
                                  \/ editor'[q].overlapped /\ editor[r].overlapped
      /\ Writers \subseteq {r}
  BY <1>2, <1>3, <1>4, <1>5, <1>6, OneActs
<1>8. AsRead(editor[r])' /\ editor'[r].at # "rename"
  BY <1>2, <1>5 DEF AsRead
<1> QED BY <1>7, <1>8, IdleUndisturbed DEF Undisturbed

LEMMA SavePolicyStep ==
    ASSUME FramesInv, NEW r \in Editors, SavePolicy(r)
    PROVE  FramesInv' /\ SectionsKept
<1>1. /\ live' = Written(r) /\ shared' = shared /\ hasTmp' = hasTmp /\ startup' = startup
      /\ editFaults' = editFaults /\ editCount' = editCount /\ editor[r].at = "write"
      /\ editor' = [q \in Editors |-> IF q = r THEN Follows(editor[r])
                                      ELSE Renamed(editor[q], FALSE)]
  BY DEF SavePolicy
<1>2. EditorsTyped' /\ Overlaps' /\ Undisturbed' /\ Writers \subseteq {r}
  BY <1>1, AfterRename
<1>3. /\ Written(r) \in Documents
      /\ editor[r].first = live /\ editor[r].second = live => Keeps(editor[r].op, live, Written(r))
  BY WrittenFits DEF FramesInv
<1>4. FramesTypeOK'
  BY <1>1, <1>2, <1>3 DEF FramesInv, FramesTypeOK, EditorsTyped, EditRecords, EditStages, EditOps, EditHandles
<1>5. editor[r].overlapped \/ (editor[r].first = live /\ editor[r].second = live)
  BY <1>1 DEF FramesInv, Undisturbed, AsRead, UpToDate
<1>6. SectionsKept
  BY <1>1, <1>2, <1>3, <1>5 DEF SectionsKept
<1> QED BY <1>2, <1>4, <1>6 DEF FramesInv

LEMMA OpenSharedStep ==
    ASSUME FramesInv, NEW r \in Editors, OpenShared(r)
    PROVE  FramesInv' /\ SectionsKept
<1>1. /\ live' = live /\ shared' = Blank /\ hasTmp' = TRUE /\ startup' = startup
      /\ editFaults' = editFaults /\ editCount' = editCount /\ editor[r].at = "write"
      /\ editor[r].op \notin PolicySaves
  BY DEF OpenShared
<1> DEFINE e == editor[r]
           new == [e EXCEPT !.at = "fill", !.fd = "tmp"]
<1>2. editor \in [Editors -> EditRecords] /\ e \in EditRecords /\ e.arg \subseteq EditArgs(e.op)
  BY DEF FramesInv, EditorsTyped
<1>3. /\ new \in EditRecords /\ new.arg = e.arg /\ new.op = e.op
      /\ new.overlapped = e.overlapped /\ new.at = "fill" /\ new.fd = "tmp"
      /\ new.first = e.first /\ new.second = e.second
  BY <1>2 DEF EditRecords, EditStages, EditHandles
<1>4. /\ editor'[r] = new
      /\ \A q \in Editors \ {r} : editor'[q] = editor[q]
      /\ editor' \in [Editors -> EditRecords]
  BY <1>2, <1>3 DEF OpenShared
<1> HIDE DEF new
<1>5. /\ EditorsTyped' /\ Overlaps'
      /\ \A q \in Editors \ {r} : \/ editor'[q].at = "idle"
                                  \/ editor'[q].overlapped /\ editor[r].overlapped
  <2>1. editor'[r].arg \subseteq EditArgs(editor'[r].op) /\ editor'[r].overlapped = editor[r].overlapped
    BY <1>2, <1>3, <1>4
  <2> QED BY <1>1, <1>4, <2>1, OneActs
<1>6. FramesTypeOK'
  BY <1>1, <1>5, BlankTyped DEF FramesInv, FramesTypeOK, EditorsTyped, EditRecords, EditStages, EditOps, EditHandles
<1>7. Undisturbed'
  <2>1. \/ editor'[r].overlapped
        \/ AsRead(editor[r])' /\ editor'[r].at # "rename"
    BY <1>1, <1>3, <1>4 DEF AsRead, UpToDate, FramesInv, Undisturbed
  <2> QED BY <1>5, <2>1, IdleUndisturbed DEF Undisturbed
<1> QED BY <1>1, <1>5, <1>6, <1>7, SameDocumentKept DEF FramesInv

LEMMA FillSharedStep ==
    ASSUME FramesInv, NEW r \in Editors, FillShared(r)
    PROVE  FramesInv' /\ SectionsKept
<1>1. /\ hasTmp' = hasTmp /\ startup' = startup
      /\ editFaults' = editFaults /\ editCount' = editCount /\ editor[r].at = "fill"
  BY DEF FillShared
<1> DEFINE e == editor[r]
           new == [e EXCEPT !.at = "rename"]
<1>2. editor \in [Editors -> EditRecords] /\ e \in EditRecords /\ e.arg \subseteq EditArgs(e.op)
  BY DEF FramesInv, EditorsTyped
<1>3. /\ new \in EditRecords /\ new.arg = e.arg /\ new.op = e.op
      /\ new.overlapped = e.overlapped /\ new.at = "rename" /\ new.fd = e.fd
      /\ new.first = e.first /\ new.second = e.second
  BY <1>2 DEF EditRecords, EditStages
<1>4. /\ editor'[r] = new
      /\ \A q \in Editors \ {r} : editor'[q] = editor[q]
      /\ editor' \in [Editors -> EditRecords]
  BY <1>2, <1>3 DEF FillShared
<1> HIDE DEF new
<1>5. /\ EditorsTyped' /\ Overlaps'
      /\ \A q \in Editors \ {r} : \/ editor'[q].at = "idle"
                                  \/ editor'[q].overlapped /\ editor[r].overlapped
      /\ Writers \subseteq {r}
  <2>1. editor'[r].arg \subseteq EditArgs(editor'[r].op) /\ editor'[r].overlapped = editor[r].overlapped
    BY <1>2, <1>3, <1>4
  <2> QED BY <1>1, <1>4, <2>1, OneActs
<1>6. Written(r) \in Documents
  BY WrittenFits DEF FramesInv
<1>7. live' \in Documents /\ shared' \in Documents
  BY <1>6, BlankTyped DEF FillShared, Laid, FramesInv, FramesTypeOK
<1>8. FramesTypeOK'
  BY <1>1, <1>5, <1>7 DEF FramesInv, FramesTypeOK, EditorsTyped, EditRecords, EditStages, EditOps, EditHandles
<1>9. \/ editor[r].overlapped
      \/ /\ live' = live /\ shared' = Written(r)
         /\ UpToDate(e) /\ e.op \notin PolicySaves /\ hasTmp /\ e.fd = "tmp"
  <2>1. CASE ~editor[r].overlapped
    <3>1. UpToDate(e) /\ e.op \notin PolicySaves /\ hasTmp /\ e.fd = "tmp" /\ shared = Blank
      BY <1>1, <2>1 DEF FramesInv, Undisturbed, AsRead
    <3>2. live' = live /\ shared' \in Laid(Written(r), Blank)
      BY <3>1 DEF FillShared
    <3> QED BY <3>1, <3>2 DEF Laid, Blank
  <2> QED BY <2>1
<1>10. Undisturbed'
  <2>1. Written(r)' = Written(r)
    BY <1>3, <1>4 DEF Written
  <2>2. \/ editor'[r].overlapped
        \/ /\ AsRead(editor[r])'
           /\ editor'[r].at = "rename" => shared' = Written(r)'
    BY <1>1, <1>3, <1>4, <1>9, <2>1 DEF AsRead, UpToDate
  <2> QED BY <1>5, <2>2, IdleUndisturbed DEF Undisturbed
<1>11. SectionsKept
  BY <1>5, <1>9, SameDocumentKept DEF SectionsKept
<1> QED BY <1>5, <1>8, <1>10, <1>11 DEF FramesInv

LEMMA RenameSharedStep ==
    ASSUME FramesInv, NEW r \in Editors, RenameShared(r)
    PROVE  FramesInv' /\ SectionsKept
<1>1. /\ shared' = shared /\ startup' = startup
      /\ editFaults' = editFaults /\ editCount' = editCount /\ editor[r].at = "rename"
  BY DEF RenameShared
<1>2. CASE hasTmp
  <2>1. /\ live' = shared /\ hasTmp' = FALSE
        /\ editor' = [q \in Editors |-> IF q = r THEN Follows(editor[r])
                                        ELSE Renamed(editor[q], TRUE)]
    BY <1>2 DEF RenameShared
  <2>2. EditorsTyped' /\ Overlaps' /\ Undisturbed' /\ Writers \subseteq {r}
    BY <1>1, <2>1, AfterRename
  <2>3. FramesTypeOK'
    BY <1>1, <2>1, <2>2 DEF FramesInv, FramesTypeOK, EditorsTyped, EditRecords, EditStages, EditOps, EditHandles
  <2>4. \/ editor[r].overlapped
        \/ editor[r].first = live /\ editor[r].second = live /\ shared = Written(r)
    BY <1>1 DEF FramesInv, Undisturbed, AsRead, UpToDate
  <2>5. editor[r].first = live /\ editor[r].second = live => Keeps(editor[r].op, live, Written(r))
    BY WrittenFits DEF FramesInv
  <2>6. SectionsKept
    BY <2>1, <2>2, <2>4, <2>5 DEF SectionsKept
  <2> QED BY <2>2, <2>3, <2>6 DEF FramesInv
<1>3. CASE ~hasTmp
  <2>1. /\ live' = live /\ hasTmp' = hasTmp /\ editor' = [editor EXCEPT ![r] = NoEditor]
    BY <1>3 DEF RenameShared
  <2>2. EditorsTyped' /\ Overlaps' /\ Undisturbed'
    <3>1. /\ editor' \in [Editors -> EditRecords] /\ editor'[r] = NoEditor
          /\ \A q \in Editors \ {r} : editor'[q] = editor[q]
      BY <2>1, NoEditorTyped DEF FramesInv, EditorsTyped
    <3>2. /\ EditorsTyped' /\ Overlaps'
          /\ \A q \in Editors \ {r} : \/ editor'[q].at = "idle"
                                      \/ editor'[q].overlapped /\ editor[r].overlapped
      BY <1>1, <3>1, NoEditorTyped, OneActs
    <3> QED BY <3>1, <3>2, NoEditorTyped, IdleUndisturbed DEF Undisturbed
  <2>3. FramesTypeOK'
    BY <1>1, <2>1, <2>2 DEF FramesInv, FramesTypeOK, EditorsTyped, EditRecords, EditStages, EditOps, EditHandles
  <2> QED BY <2>1, <2>2, <2>3, SameDocumentKept DEF FramesInv
<1> QED BY <1>2, <1>3

LEMMA StopEditStep ==
    ASSUME FramesInv, NEW r \in Editors, StopEdit(r)
    PROVE  FramesInv' /\ SectionsKept
<1>1. /\ live' = live /\ shared' = shared /\ hasTmp' = hasTmp /\ startup' = startup
      /\ editFaults < MaxEditFaults /\ editFaults' = editFaults + 1 /\ editCount' = editCount
      /\ editor[r].at # "idle"
  BY DEF StopEdit
<1>2. /\ editor' \in [Editors -> EditRecords] /\ editor'[r] = NoEditor
      /\ \A q \in Editors \ {r} : editor'[q] = editor[q]
  BY NoEditorTyped DEF FramesInv, EditorsTyped, StopEdit
<1>3. /\ EditorsTyped' /\ Overlaps'
      /\ \A q \in Editors \ {r} : \/ editor'[q].at = "idle"
                                  \/ editor'[q].overlapped /\ editor[r].overlapped
  BY <1>1, <1>2, NoEditorTyped, OneActs
<1>4. Undisturbed'
  BY <1>2, <1>3, NoEditorTyped, IdleUndisturbed DEF Undisturbed
<1>5. editFaults' \in 0 .. MaxEditFaults
  BY <1>1, FramesFileAssumption DEF FramesInv, FramesTypeOK, FramesFileAssumption
<1>6. FramesTypeOK'
  BY <1>1, <1>3, <1>5 DEF FramesInv, FramesTypeOK, EditorsTyped, EditRecords, EditStages, EditOps, EditHandles
<1> QED BY <1>1, <1>3, <1>4, <1>6, SameDocumentKept DEF FramesInv

LEMMA FramesStep ==
    FramesInv /\ [FramesNext]_framesVars => FramesInv' /\ SectionsKept
<1> SUFFICES ASSUME FramesInv, [FramesNext]_framesVars PROVE FramesInv' /\ SectionsKept
  OBVIOUS
<1>1. CASE UNCHANGED framesVars
  <2>1. /\ live' = live /\ shared' = shared /\ hasTmp' = hasTmp /\ editor' = editor
        /\ editCount' = editCount /\ editFaults' = editFaults /\ startup' = startup
    BY <1>1 DEF framesVars
  <2>2. FramesTypeOK' /\ EditorsTyped'
    BY <2>1 DEF FramesInv, FramesTypeOK, EditorsTyped
  <2>3. Overlaps'
    BY <2>1 DEF FramesInv, Overlaps, InFlight
  <2>4. Undisturbed'
    BY <2>1 DEF FramesInv, Undisturbed, AsRead, UpToDate, Written
  <2> QED BY <2>1, <2>2, <2>3, <2>4, SameDocumentKept DEF FramesInv
<1>2. CASE Serve
  BY <1>2, ServeStep
<1>3. ASSUME NEW r \in Editors, NEW e \in Edits, StartEdit(r, e) PROVE FramesInv' /\ SectionsKept
  BY <1>3, StartEditStep
<1>4. ASSUME NEW r \in Editors, StartRepair(r) PROVE FramesInv' /\ SectionsKept
  BY <1>4, StartRepairStep
<1>5. ASSUME NEW r \in Editors, ReadDocument(r) PROVE FramesInv' /\ SectionsKept
  BY <1>5, ReadDocumentStep
<1>6. ASSUME NEW r \in Editors, RereadDocument(r) PROVE FramesInv' /\ SectionsKept
  BY <1>6, RereadStep
<1>7. ASSUME NEW r \in Editors, SavePolicy(r) PROVE FramesInv' /\ SectionsKept
  BY <1>7, SavePolicyStep
<1>8. ASSUME NEW r \in Editors, OpenShared(r) PROVE FramesInv' /\ SectionsKept
  BY <1>8, OpenSharedStep
<1>9. ASSUME NEW r \in Editors, FillShared(r) PROVE FramesInv' /\ SectionsKept
  BY <1>9, FillSharedStep
<1>10. ASSUME NEW r \in Editors, RenameShared(r) PROVE FramesInv' /\ SectionsKept
  BY <1>10, RenameSharedStep
<1>11. ASSUME NEW r \in Editors, StopEdit(r) PROVE FramesInv' /\ SectionsKept
  BY <1>11, StopEditStep
<1> QED BY <1>1, <1>2, <1>3, <1>4, <1>5, <1>6, <1>7, <1>8, <1>9, <1>10, <1>11 DEF FramesNext

\* What holds of the requests on appframes.toml at every moment.
THEOREM FramesInductive == FramesSpec => []FramesInv
<1>1. FramesInv /\ [FramesNext]_framesVars => FramesInv'
  BY FramesStep
<1> QED BY FramesStarts, <1>1, PTL DEF FramesSpec

\* The document, the shared file and the requests keep their types.
THEOREM FramesTypeCorrect == FramesSpec => []FramesTypeOK
<1>1. FramesInv => FramesTypeOK
  BY DEF FramesInv
<1> QED BY <1>1, FramesInductive, PTL

\* However many requests run: one that no other overlapped with loses no section of
\* appframes.toml but those its operation deletes from or its renderer does not know.
THEOREM SectionsSurviveCorrect == FramesSpec => SectionsSurvive
<1>1. FramesInv /\ [FramesNext]_framesVars => [SectionsKept]_framesVars
  BY FramesStep
<1> QED BY <1>1, FramesInductive, KeptIsTheProperty, PTL DEF FramesSpec, SectionsSurvive

-----------------------------------------------------------------------------
(* StickyComment: lists at the forge.                                      *)

\* A nonempty set of numbers in a list has a newest.
LEMMA NewestIs ==
    ASSUME NEW len \in Nat, NEW S \in SUBSET (1 .. len), S # {}
    PROVE  Newest(S) # {}
<1> DEFINE Before == {ss \in Nat \X Nat : ss[1] < ss[2]}
           Ages == {len - n : n \in S}
<1>1. IsWellFoundedOn(Before, Nat)
  BY NatLessThanWellFounded DEF OpToRel
<1>2. Ages \subseteq Nat /\ Ages # {}
  <2>1. \A n \in S : len - n \in Nat
    OBVIOUS
  <2> QED
    BY <2>1
<1>3. PICK a \in Ages : \A b \in Ages : <<b, a>> \notin Before
  <2> HIDE DEF Before, Ages
  <2> QED
    BY <1>1, <1>2, WFMin
<1>4. PICK n \in S : a = len - n
  OBVIOUS
<1>5. \A m \in S : m <= n
  <2> TAKE m \in S
  <2>1. len - m \in Nat /\ a \in Nat /\ <<len - m, a>> \notin Before
    BY <1>2, <1>3
  <2> QED
    BY <2>1, <1>4
<1> QED
  BY <1>5 DEF Newest

LEMMA NewestOne ==
    ASSUME NEW S \in SUBSET Nat
    PROVE  Newest(S) \subseteq S /\ \A m, n \in Newest(S) : m = n
BY DEF Newest

\* One element of one of the lists is changed, or one is added to it.
LEMMA ListChanged ==
    ASSUME NEW S, NEW f \in [Urls -> Seq(S)], NEW u \in Urls, NEW i \in DOMAIN f[u], NEW e \in S,
           NEW g, g = [f EXCEPT ![u] = [f[u] EXCEPT ![i] = e]]
    PROVE  /\ g \in [Urls -> Seq(S)]
           /\ \A v \in Urls : DOMAIN g[v] = DOMAIN f[v]
           /\ \A v \in Urls : v # u => g[v] = f[v]
           /\ g[u][i] = e /\ \A j \in DOMAIN f[u] : j # i => g[u][j] = f[u][j]
<1> DEFINE s == f[u]
           t == [s EXCEPT ![i] = e]
<1>1. s \in Seq(S) /\ DOMAIN s = 1 .. Len(s) /\ i \in 1 .. Len(s) /\ g[u] = t
      /\ \A v \in Urls : v # u => g[v] = f[v]
  BY LenProperties
<1>2. t \in Seq(S) /\ Len(t) = Len(s) /\ \A j \in 1 .. Len(s) : t[j] = IF j = i THEN e ELSE s[j]
  <2> HIDE DEF s
  <2> QED
    BY <1>1, ExceptSeq
<1>3. DOMAIN t = DOMAIN s
  OBVIOUS
<1>4. g \in [Urls -> Seq(S)]
  BY <1>1, <1>2
<1> QED
  BY <1>1, <1>2, <1>3, <1>4

LEMMA ListGrown ==
    ASSUME NEW S, NEW f \in [Urls -> Seq(S)], NEW u \in Urls, NEW e \in S,
           NEW g, g = [f EXCEPT ![u] = Append(f[u], e)]
    PROVE  /\ g \in [Urls -> Seq(S)]
           /\ \A v \in Urls : v # u => g[v] = f[v]
           /\ Len(f[u]) \in Nat /\ Len(g[u]) = Len(f[u]) + 1
           /\ DOMAIN g[u] = DOMAIN f[u] \cup {Len(g[u])} /\ g[u][Len(g[u])] = e
           /\ Len(g[u]) \notin DOMAIN f[u]
           /\ \A j \in DOMAIN f[u] : g[u][j] = f[u][j]
<1> DEFINE s == f[u]
           t == Append(s, e)
<1>1. s \in Seq(S) /\ Len(s) \in Nat /\ DOMAIN s = 1 .. Len(s) /\ g[u] = t
      /\ \A v \in Urls : v # u => g[v] = f[v]
  BY LenProperties
<1>2. /\ t \in Seq(S) /\ Len(t) = Len(s) + 1 /\ t[Len(s) + 1] = e
      /\ \A j \in 1 .. Len(s) : t[j] = s[j]
  <2> HIDE DEF s
  <2> QED
    BY <1>1, AppendProperties
<1>3. DOMAIN t = 1 .. (Len(s) + 1)
  <2> HIDE DEF s, t
  <2> QED
    BY <1>2, LenProperties
<1>4. g \in [Urls -> Seq(S)]
  BY <1>1, <1>2
<1> HIDE DEF t
<1> QED
  BY <1>1, <1>2, <1>3, <1>4

-----------------------------------------------------------------------------
(* The parts of the invariant.                                             *)

PullSet == [from : Origins, open : BOOLEAN]
RemarkSet == [pull : Nat, by : {"gate", "person"}, shows : Nat, about : Urls,
              repo : Mirrored \cup {"none"}, marker : BOOLEAN, gone : BOOLEAN]
NoticeSet == [repo : Mirrored, url : Urls, event : {"rejected", "resolved"}, loop : Nat,
              tries : Nat, sticky : SUBSET Nat]
ParcelSet == [pc : {"idle", "find", "look", "write", "webhook"}, todo : SUBSET Nat,
              urls : SUBSET Urls, rec : Nat, url : Urls \cup {"none"}, pull : Nat, target : Nat,
              owed : BOOLEAN, told : BOOLEAN, excused : BOOLEAN]

StickyShape ==
    /\ upstreamOf \in [Mirrored -> Urls] /\ movedRepos \subseteq Mirrored
    /\ pulls \in [Urls -> Seq(PullSet)]
    /\ remarks \in [Urls -> Seq(RemarkSet)]
    /\ stickyOf \subseteq Mirrored \X Nat \X Nat /\ IsFiniteSet(stickyOf)
    /\ notices \in Seq(NoticeSet)
    /\ pending \subseteq DOMAIN notices
    /\ courier \in ParcelSet

\* What is on the way is of the queue, and of a pull request that exists.
Bound ==
    /\ courier.todo \subseteq DOMAIN notices
    /\ courier.rec \in {0} \cup DOMAIN notices
    /\ courier.pc # "idle" => courier.rec # 0
    /\ courier.pc \in {"look", "write"} =>
          courier.url \in Urls /\ courier.pull \in DOMAIN pulls[courier.url]
    /\ courier.pc = "webhook" => courier.url \in Urls
    /\ \A t \in taken : t.rec \in DOMAIN notices \ pending

\* Comments are on pull requests; the gate's have the marker.
RemarksStand ==
    \A u \in Urls : \A i \in DOMAIN remarks[u] :
       /\ remarks[u][i].pull \in DOMAIN pulls[u]
       /\ remarks[u][i].by = "gate" => remarks[u][i].marker

\* i is the gate's comment on pull request n.
OursOn(u, i, n) ==
    i \in DOMAIN remarks[u] /\ remarks[u][i].by = "gate" /\ remarks[u][i].pull = n

\* Unless it may be another upstream's, the identifier in a loop is its comment's.
IdsStand ==
    \A x \in stickyOf :
       x[3] # 0 /\ ~Strayed(x[1], upstreamOf[x[1]]) => OursOn(upstreamOf[x[1]], x[3], x[2])

NoticesStand ==
    \A k \in DOMAIN notices :
       LET n == notices[k]
       IN  /\ n.repo \notin movedRepos => n.url = upstreamOf[n.repo]
           /\ ~Strayed(n.repo, n.url) => \A i \in n.sticky : OursOn(n.url, i, n.loop)

Astray == Strayed(Parcel.repo, Parcel.url)

\* The adapter is the record's, or of a prefix.
RoadUrl ==
    courier.pc \in {"look", "write", "webhook"} =>
       courier.url = Parcel.url \/ <<courier.url, Parcel.url>> \in PrefixPairs

RoadPull ==
    courier.pc \in {"look", "write"} /\ ~courier.excused =>
       /\ courier.url = Parcel.url
       /\ pulls[courier.url][courier.pull].from = "own"

RoadTarget ==
    courier.pc = "write" /\ courier.target # 0 =>
       /\ courier.target \in DOMAIN remarks[courier.url]
       /\ LET c == remarks[courier.url][courier.target]
          IN  /\ c.by = "gate" \/ c.marker \/ Astray
              /\ ~courier.excused /\ ~Astray =>
                    c.pull = IF Parcel.event = "resolved" THEN Parcel.loop ELSE courier.pull

RoadMiss ==
    courier.pc = "write" /\ courier.target = 0 /\ Parcel.event = "resolved" /\ courier.owed =>
       courier.excused

RoadTold == courier.pc = "webhook" /\ courier.owed => courier.told \/ courier.excused

Road == RoadUrl /\ RoadPull /\ RoadTarget /\ RoadMiss /\ RoadTold

-----------------------------------------------------------------------------
(* What each step does.                                                    *)

\* What no step takes back: what a record says of its push, who wrote a comment and where, where
\* a pull request comes from, and the upstream of a repository that was not moved.
Grows ==
    /\ \A k \in DOMAIN notices :
          /\ k \in DOMAIN notices'
          /\ notices'[k].repo = notices[k].repo /\ notices'[k].url = notices[k].url
          /\ notices'[k].event = notices[k].event /\ notices'[k].loop = notices[k].loop
          /\ notices'[k].sticky = notices[k].sticky
    /\ \A u \in Urls : \A n \in DOMAIN pulls[u] :
          n \in DOMAIN pulls'[u] /\ pulls'[u][n].from = pulls[u][n].from
    /\ \A u \in Urls : \A i \in DOMAIN remarks[u] :
          /\ i \in DOMAIN remarks'[u]
          /\ remarks'[u][i].by = remarks[u][i].by /\ remarks'[u][i].pull = remarks[u][i].pull
          /\ remarks[u][i].marker => remarks'[u][i].marker
    /\ movedRepos \subseteq movedRepos'
    /\ \A r \in Mirrored : r \notin movedRepos' => upstreamOf'[r] = upstreamOf[r]

NoticesStay ==
    /\ notices' \in Seq(NoticeSet)
    /\ \A k \in DOMAIN notices :
          /\ k \in DOMAIN notices'
          /\ notices'[k].repo = notices[k].repo /\ notices'[k].url = notices[k].url
          /\ notices'[k].event = notices[k].event /\ notices'[k].loop = notices[k].loop
          /\ notices'[k].sticky = notices[k].sticky

LEMMA ParcelIs ==
    ASSUME StickyShape, Bound, courier.pc # "idle"
    PROVE  /\ courier.rec \in DOMAIN notices /\ courier.rec \in Nat /\ Parcel \in NoticeSet
           /\ courier.rec # 0
<1>1. courier.rec \in DOMAIN notices /\ courier.rec # 0
  BY DEF Bound
<1>2. notices \in Seq(NoticeSet) /\ DOMAIN notices = 1 .. Len(notices)
  BY LenProperties DEF StickyShape
<1>3. notices[courier.rec] \in NoticeSet
  BY <1>1, <1>2, ElementOfSeq
<1> QED
  BY <1>1, <1>2, <1>3 DEF Parcel

LEMMA NoticeFields ==
    ASSUME StickyShape, NEW r \in Mirrored, NEW event \in {"rejected", "resolved"}, NEW n \in Nat
    PROVE  /\ Notice(r, event, n) \in NoticeSet
           /\ Notice(r, event, n).repo = r /\ Notice(r, event, n).url = upstreamOf[r]
           /\ Notice(r, event, n).loop = n
           /\ Notice(r, event, n).sticky \subseteq StickyId(r, n)
<1>1. StickyId(r, n) \subseteq Nat
  BY DEF StickyId, LoopOf, StickyShape
<1>2. upstreamOf[r] \in Urls
  BY DEF StickyShape
<1> QED
  BY <1>1, <1>2 DEF Notice, NoticeSet

\* A delivery is counted.
LEMMA TryCounted ==
    ASSUME StickyShape, NEW k \in DOMAIN notices, NEW t, t = notices[k].tries + 1,
           notices' = [notices EXCEPT ![k].tries = t]
    PROVE  NoticesStay /\ DOMAIN notices' = DOMAIN notices
<1>1. notices \in Seq(NoticeSet) /\ DOMAIN notices = 1 .. Len(notices) /\ Len(notices) \in Nat
  BY LenProperties DEF StickyShape
<1>2. PICK n : n = notices[k]
  OBVIOUS
<1>3. n \in NoticeSet
  BY <1>1, <1>2, ElementOfSeq
<1>4. PICK m : m = [n EXCEPT !.tries = t]
  OBVIOUS
<1>5. /\ m \in NoticeSet /\ m.repo = n.repo /\ m.url = n.url /\ m.event = n.event
      /\ m.loop = n.loop /\ m.sticky = n.sticky
  BY <1>2, <1>3, <1>4 DEF NoticeSet
<1>6. notices' = [notices EXCEPT ![k] = m]
  BY <1>2, <1>4
<1>7. /\ notices' \in Seq(NoticeSet) /\ Len(notices') = Len(notices)
      /\ \A j \in 1 .. Len(notices) : notices'[j] = IF j = k THEN m ELSE notices[j]
  BY <1>1, <1>5, <1>6, ExceptSeq
<1>8. DOMAIN notices' = DOMAIN notices
  BY <1>6
<1> QED
  BY <1>1, <1>2, <1>5, <1>7, <1>8 DEF NoticesStay

\* A comment is rewritten, or one is added.
LEMMA RemarkChanged ==
    ASSUME StickyShape, NEW u \in Urls, NEW i \in DOMAIN remarks[u], NEW e \in RemarkSet,
           e.by = remarks[u][i].by, e.pull = remarks[u][i].pull,
           remarks[u][i].marker => e.marker,
           remarks' = [remarks EXCEPT ![u] = [remarks[u] EXCEPT ![i] = e]]
    PROVE  /\ remarks' \in [Urls -> Seq(RemarkSet)]
           /\ \A v \in Urls : \A j \in DOMAIN remarks[v] :
                 /\ j \in DOMAIN remarks'[v]
                 /\ remarks'[v][j].by = remarks[v][j].by
                 /\ remarks'[v][j].pull = remarks[v][j].pull
                 /\ remarks[v][j].marker => remarks'[v][j].marker
           /\ \A v \in Urls : DOMAIN remarks'[v] = DOMAIN remarks[v]
           /\ \A v \in Urls : \A j \in DOMAIN remarks[v] :
                 remarks'[v][j] = IF v = u /\ j = i THEN e ELSE remarks[v][j]
<1>1. remarks \in [Urls -> Seq(RemarkSet)]
  BY DEF StickyShape
<1>2. PICK f, g : f = remarks /\ g = remarks'
  OBVIOUS
<1>3. /\ g \in [Urls -> Seq(RemarkSet)]
      /\ \A v \in Urls : DOMAIN g[v] = DOMAIN f[v]
      /\ \A v \in Urls : v # u => g[v] = f[v]
      /\ g[u][i] = e /\ \A j \in DOMAIN f[u] : j # i => g[u][j] = f[u][j]
  BY <1>1, <1>2, ListChanged
<1> QED
  BY <1>2, <1>3

LEMMA RemarkAdded ==
    ASSUME StickyShape, NEW u \in Urls, NEW e \in RemarkSet,
           remarks' = [remarks EXCEPT ![u] = Append(remarks[u], e)]
    PROVE  /\ remarks' \in [Urls -> Seq(RemarkSet)]
           /\ \A v \in Urls : \A j \in DOMAIN remarks[v] :
                 j \in DOMAIN remarks'[v] /\ remarks'[v][j] = remarks[v][j]
           /\ \A v \in Urls : v # u => remarks'[v] = remarks[v]
           /\ Len(remarks'[u]) \in Nat \ {0}
           /\ DOMAIN remarks'[u] = DOMAIN remarks[u] \cup {Len(remarks'[u])}
           /\ remarks'[u][Len(remarks'[u])] = e /\ Len(remarks'[u]) \notin DOMAIN remarks[u]
<1>1. remarks \in [Urls -> Seq(RemarkSet)]
  BY DEF StickyShape
<1>2. PICK f, g : f = remarks /\ g = remarks'
  OBVIOUS
<1>3. /\ g \in [Urls -> Seq(RemarkSet)]
      /\ \A v \in Urls : v # u => g[v] = f[v]
      /\ Len(f[u]) \in Nat /\ Len(g[u]) = Len(f[u]) + 1
      /\ DOMAIN g[u] = DOMAIN f[u] \cup {Len(g[u])} /\ g[u][Len(g[u])] = e
      /\ Len(g[u]) \notin DOMAIN f[u]
      /\ \A j \in DOMAIN f[u] : g[u][j] = f[u][j]
  BY <1>1, <1>2, ListGrown
<1>4. Len(g[u]) \in Nat \ {0}
  BY <1>3
<1> QED
  BY <1>2, <1>3, <1>4

\* The lists hold what they should, and are numbered from one.
LEMMA Domains ==
    ASSUME StickyShape
    PROVE  /\ DOMAIN notices \subseteq Nat \ {0} /\ DOMAIN notices = 1 .. Len(notices)
           /\ Len(notices) \in Nat
           /\ \A u \in Urls : /\ DOMAIN pulls[u] = 1 .. Len(pulls[u]) /\ Len(pulls[u]) \in Nat
                              /\ DOMAIN remarks[u] = 1 .. Len(remarks[u])
                              /\ Len(remarks[u]) \in Nat
           /\ \A u \in Urls : /\ DOMAIN pulls[u] \subseteq Nat \ {0}
                              /\ DOMAIN remarks[u] \subseteq Nat \ {0}
           /\ \A u \in Urls : \A n \in DOMAIN pulls[u] : pulls[u][n] \in PullSet
           /\ \A u \in Urls : \A i \in DOMAIN remarks[u] : remarks[u][i] \in RemarkSet
<1>1. /\ notices \in Seq(NoticeSet)
      /\ \A u \in Urls : pulls[u] \in Seq(PullSet) /\ remarks[u] \in Seq(RemarkSet)
  BY DEF StickyShape
<1>2. Len(notices) \in Nat /\ DOMAIN notices = 1 .. Len(notices)
  BY <1>1, LenProperties
<1>3. ASSUME NEW u \in Urls
      PROVE  /\ DOMAIN pulls[u] = 1 .. Len(pulls[u]) /\ Len(pulls[u]) \in Nat
             /\ DOMAIN remarks[u] = 1 .. Len(remarks[u]) /\ Len(remarks[u]) \in Nat
             /\ \A n \in DOMAIN pulls[u] : pulls[u][n] \in PullSet
             /\ \A i \in DOMAIN remarks[u] : remarks[u][i] \in RemarkSet
  <2>1. pulls[u] \in Seq(PullSet) /\ remarks[u] \in Seq(RemarkSet)
    BY <1>1
  <2>2. /\ DOMAIN pulls[u] = 1 .. Len(pulls[u]) /\ Len(pulls[u]) \in Nat
        /\ DOMAIN remarks[u] = 1 .. Len(remarks[u]) /\ Len(remarks[u]) \in Nat
    BY <2>1, LenProperties
  <2> QED
    BY <2>1, <2>2, ElementOfSeq
<1> QED
  BY <1>2, <1>3

\* What the forge finds is there.
LEMMA FoundIs ==
    ASSUME StickyShape, NEW u \in Urls, NEW n
    PROVE  /\ PullFor(u) \subseteq OpenPulls(u) /\ OpenPulls(u) \subseteq DOMAIN pulls[u]
           /\ MarkedOn(u, n) \subseteq {i \in RemarksOn(u, n) : remarks[u][i].marker}
           /\ RemarksOn(u, n) \subseteq DOMAIN remarks[u]
           /\ FindSticky(u, n) \subseteq DOMAIN remarks[u] \cap {n}
<1>1. PullFor(u) \subseteq OpenPulls(u)
  BY DEF PullFor, PullOnGitea, PullOnGitHub, FirstPage, Newest
<1>2. MarkedOn(u, n) \subseteq {i \in RemarksOn(u, n) : remarks[u][i].marker}
  BY DEF MarkedOn, MarkedOnGitea, MarkedOnGitHub, Newest, Marked
<1> QED
  BY <1>1, <1>2 DEF OpenPulls, RemarksOn, FindSticky

LEMMA BetweenIs ==
    ASSUME StickyShape, Bound, courier' = Between("idle")
    PROVE  /\ courier' \in ParcelSet /\ courier'.pc = "idle" /\ courier'.rec = 0
           /\ courier'.todo = courier.todo
BY DEF Between, NoParcel, StickyShape, ParcelSet

\* What follows of the invariant from what the step changes of the lists.
LEMMA ListsStand ==
    ASSUME StickyShape, Bound, RemarksStand,
           NoticesStay \/ notices' = notices,
           UNCHANGED <<upstreams, forge>>
    PROVE  /\ Grows /\ RemarksStand' /\ notices' \in Seq(NoticeSet)
           /\ DOMAIN notices \subseteq DOMAIN notices'
<1>1. NoticesStay
  BY DEF NoticesStay, StickyShape
<1>2. RemarksStand'
  BY DEF RemarksStand, forge
<1> QED
  BY <1>1, <1>2 DEF NoticesStay, Grows, upstreams, forge

\* Between two deliveries.
LEMMA GivesUp ==
    ASSUME StickyShape, Bound, RemarksStand, courier.pc # "idle", GiveUp
    PROVE  StickyShape' /\ Bound' /\ RemarksStand' /\ Grows
<1> DEFINE t == Parcel.tries + 1
<1>1. courier.rec \in DOMAIN notices /\ notices' = [notices EXCEPT ![courier.rec].tries = t]
      /\ t = notices[courier.rec].tries + 1
  BY ParcelIs DEF GiveUp, Parcel
<1> HIDE DEF t
<1>2. NoticesStay /\ DOMAIN notices' = DOMAIN notices
  BY <1>1, TryCounted
<1>3. pending' \subseteq pending /\ UNCHANGED <<upstreams, forge, stickyOf, taken>>
      /\ courier' = Between("idle")
  BY DEF GiveUp
<1>4. Grows /\ RemarksStand' /\ notices' \in Seq(NoticeSet)
  BY <1>2, <1>3, ListsStand
<1>5. StickyShape'
  BY <1>2, <1>3, <1>4, BetweenIs DEF StickyShape, upstreams, forge
<1>6. Bound'
  BY <1>2, <1>3, BetweenIs DEF Bound
<1> QED
  BY <1>4, <1>5, <1>6

LEMMA Pass ==
    ASSUME StickyShape, Bound, RemarksStand, BeginPass \/ TakeRecord
    PROVE  StickyShape' /\ Bound' /\ RemarksStand' /\ Grows
<1>1. UNCHANGED <<upstreams, forge, stickyOf, notices, pending, taken>>
  BY DEF BeginPass, TakeRecord
<1>2. Grows /\ RemarksStand'
  BY <1>1, ListsStand
<1>3. CASE BeginPass
  <2>1. {upstreamOf[r] : r \in Mirrored} \subseteq Urls
    BY DEF StickyShape
  <2>2. pending \subseteq Nat
    BY Domains DEF StickyShape
  <2>3. /\ courier' \in ParcelSet /\ courier'.pc = "idle" /\ courier'.rec = 0
        /\ courier'.todo = pending
    BY <1>3, <2>1, <2>2 DEF BeginPass, NoParcel, ParcelSet
  <2>4. StickyShape'
    BY <1>1, <2>3 DEF StickyShape, upstreams, forge
  <2>5. Bound'
    BY <1>1, <2>3 DEF Bound, StickyShape
  <2> QED
    BY <1>2, <2>4, <2>5
<1>4. CASE TakeRecord
  <2>1. PICK n \in Oldest(courier.todo) :
           courier' = [courier EXCEPT !.pc = "find", !.rec = n, !.todo = @ \ {n}]
    BY <1>4 DEF TakeRecord
  <2>2. n \in courier.todo /\ n \in DOMAIN notices /\ n \in Nat /\ n # 0
    BY Domains DEF Oldest, Bound
  <2>3. /\ courier' \in ParcelSet /\ courier'.pc = "find" /\ courier'.rec = n
        /\ courier'.todo = courier.todo \ {n}
    BY <2>1, <2>2 DEF StickyShape, ParcelSet
  <2>4. StickyShape'
    BY <1>1, <2>3 DEF StickyShape, upstreams, forge
  <2>5. Bound'
    BY <1>1, <2>2, <2>3 DEF Bound
  <2> QED
    BY <1>2, <2>4, <2>5
<1> QED
  BY <1>3, <1>4

LEMMA Finds ==
    ASSUME StickyShape, Bound, RemarksStand, NEW u \in Urls, FindPull(u)
    PROVE  /\ StickyShape' /\ Bound' /\ RemarksStand' /\ Grows
           /\ Parcel' = Parcel /\ courier'.url = u
           /\ courier'.pc = IF PullFor(u) = {} THEN "webhook" ELSE "look"
           /\ PullFor(u) # {} => courier'.pull \in PullFor(u)
           /\ courier'.owed <=> OwnPulls(Parcel.url) # {}
           /\ courier'.excused <=> \/ u # Parcel.url
                                   \/ u \notin GitHubUrls /\ PullFor(u) \cap OwnPulls(u) = {}
<1>1. UNCHANGED <<upstreams, forge, stickyOf, notices, pending, taken>>
  BY DEF FindPull
<1>2. Grows /\ RemarksStand'
  BY <1>1, ListsStand
<1> DEFINE found == PullFor(u)
           pull == IF found = {} THEN 0 ELSE CHOOSE n \in found : TRUE
           pc == IF found = {} THEN "webhook" ELSE "look"
           owed == OwnPulls(Parcel.url) # {}
           excused == u # Parcel.url \/ (u \notin GitHubUrls /\ found \cap OwnPulls(u) = {})
<1>3. courier' = [courier EXCEPT !.url = u, !.pull = pull, !.pc = pc, !.owed = owed,
                                 !.excused = excused]
  BY DEF FindPull
<1>4. pull \in Nat /\ (found # {} => pull \in found /\ pull \in DOMAIN pulls[u])
  <2>1. found \subseteq DOMAIN pulls[u] /\ DOMAIN pulls[u] \subseteq Nat
    BY FoundIs, Domains
  <2> QED
    BY <2>1
<1>5. owed \in BOOLEAN /\ excused \in BOOLEAN /\ pc \in {"look", "webhook"}
  OBVIOUS
<1>6. pc = "look" <=> found # {}
  OBVIOUS
<1> HIDE DEF pull, pc, owed, excused
<1>7. /\ courier' \in ParcelSet /\ courier'.pc = pc /\ courier'.rec = courier.rec
      /\ courier'.todo = courier.todo /\ courier'.url = u /\ courier'.pull = pull
      /\ courier'.owed = owed /\ courier'.excused = excused
  BY <1>3, <1>4, <1>5 DEF StickyShape, ParcelSet
<1>8. StickyShape'
  BY <1>1, <1>7 DEF StickyShape, upstreams, forge
<1>9. courier.pc = "find"
  BY DEF FindPull
<1>10. Bound'
  BY <1>1, <1>4, <1>5, <1>6, <1>7, <1>9 DEF Bound, forge
<1>11. Parcel' = Parcel
  BY <1>1, <1>7 DEF Parcel
<1> QED
  BY <1>2, <1>4, <1>7, <1>8, <1>10, <1>11 DEF pc, owed, excused

\* What a lookup comes back with: a comment by its identifier, or by its marker.
ById(failing) ==
    IF "id" \in failing THEN {} ELSE UNION {FindSticky(courier.url, i) : i \in KnownId}

ByMark(failing) == IF "scan" \in failing THEN {} ELSE MarkedOn(courier.url, courier.pull)

Answer(failing) == IF ById(failing) # {} THEN ById(failing) ELSE ByMark(failing)

MayMiss(failing) == failing # {} \/ BeyondScan \/ (ById(failing) = {} /\ Elsewhere)

LEMMA LooksUp ==
    ASSUME StickyShape, Bound, RemarksStand, NEW failing, LookUp(failing)
    PROVE  /\ StickyShape' /\ Bound' /\ RemarksStand' /\ Grows
           /\ Parcel' = Parcel /\ courier'.url = courier.url /\ courier'.pull = courier.pull
           /\ courier'.pc = "write" /\ courier.pc = "look"
           /\ IF Answer(failing) = {} THEN courier'.target = 0
              ELSE courier'.target \in Answer(failing) /\ courier'.target # 0
           /\ courier'.owed <=> /\ courier.owed
                                /\ Parcel.event = "resolved" => CommentOf(Parcel.loop) # {}
           /\ courier'.excused <=> \/ courier.excused
                                   \/ Parcel.event = "resolved" /\ MayMiss(failing)
<1>1. UNCHANGED <<upstreams, forge, stickyOf, notices, pending, taken>>
  BY DEF LookUp
<1>2. Grows /\ RemarksStand'
  BY <1>1, ListsStand
<1> DEFINE found == Answer(failing)
           target == IF found = {} THEN 0 ELSE CHOOSE i \in found : TRUE
           owed == courier.owed /\ (Parcel.event = "resolved" => CommentOf(Parcel.loop) # {})
           excused == courier.excused \/ (Parcel.event = "resolved" /\ MayMiss(failing))
<1>3. courier' = [courier EXCEPT !.pc = "write", !.target = target, !.owed = owed,
                                 !.excused = excused]
  BY DEF LookUp, Answer, ById, ByMark, MayMiss
<1>4. courier.pc = "look" /\ courier.url \in Urls
  BY DEF LookUp, Bound
<1>5. target \in Nat /\ (found # {} => target \in found /\ target # 0)
  <2>1. /\ found \subseteq DOMAIN remarks[courier.url]
        /\ DOMAIN remarks[courier.url] \subseteq Nat \ {0}
    BY <1>4, FoundIs, Domains DEF Answer, ById, ByMark
  <2> QED
    BY <2>1
<1>6. owed \in BOOLEAN /\ excused \in BOOLEAN
  BY DEF StickyShape, ParcelSet
<1> HIDE DEF target, owed, excused
<1>7. /\ courier' \in ParcelSet /\ courier'.pc = "write" /\ courier'.rec = courier.rec
      /\ courier'.todo = courier.todo /\ courier'.url = courier.url /\ courier'.pull = courier.pull
      /\ courier'.target = target /\ courier'.owed = owed /\ courier'.excused = excused
  BY <1>3, <1>5, <1>6 DEF StickyShape, ParcelSet
<1>8. StickyShape'
  BY <1>1, <1>7 DEF StickyShape, upstreams, forge
<1>9. Bound'
  BY <1>1, <1>4, <1>7 DEF Bound, forge
<1>10. Parcel' = Parcel
  BY <1>1, <1>7 DEF Parcel
<1>11. IF found = {} THEN courier'.target = 0 ELSE courier'.target \in found /\ courier'.target # 0
  BY <1>5, <1>7 DEF target
<1>12. /\ courier'.owed <=> /\ courier.owed
                            /\ Parcel.event = "resolved" => CommentOf(Parcel.loop) # {}
       /\ courier'.excused <=> \/ courier.excused
                               \/ Parcel.event = "resolved" /\ MayMiss(failing)
  BY <1>6, <1>7 DEF owed, excused
<1> QED
  BY <1>2, <1>4, <1>7, <1>8, <1>9, <1>10, <1>11, <1>12

LEMMA CommentIs ==
    ASSUME StickyShape, Bound, courier.pc # "idle", NEW by \in {"gate", "person"}, NEW n \in Nat
    PROVE  /\ Comment(by, n) \in RemarkSet /\ Comment(by, n).by = by /\ Comment(by, n).pull = n
           /\ Comment(by, n).marker /\ Comment(by, n).about = Parcel.url
           /\ Comment(by, n).shows = courier.rec /\ Comment(by, n).repo = Parcel.repo
<1>1. courier.rec \in Nat /\ Parcel.url \in Urls /\ Parcel.repo \in Mirrored
  BY ParcelIs DEF NoticeSet
<1> QED
  BY <1>1 DEF Comment, RemarkSet

\* The comment of a delivery is rewritten.
LEMMA Updates ==
    ASSUME StickyShape, Bound, RemarksStand, UpdateComment,
           courier.target \in DOMAIN remarks[courier.url]
    PROVE  /\ StickyShape' /\ Bound' /\ RemarksStand' /\ Grows
           /\ Parcel' = Parcel /\ courier'.url = courier.url /\ courier'.pc = "webhook"
           /\ courier.pc = "write"
           /\ courier'.owed = courier.owed /\ ~remarks[courier.url][courier.target].gone
           /\ courier'.excused <=> courier.excused \/ Astray
           /\ courier'.told <=> Tells(remarks[courier.url][courier.target].pull)
           /\ \A u \in Urls : \A i \in DOMAIN remarks'[u] :
                 \/ i \in DOMAIN remarks[u] /\ remarks'[u][i] = remarks[u][i]
                 \/ /\ u = courier.url /\ i = courier.target
                    /\ remarks'[u][i].about = Parcel.url /\ remarks'[u][i].repo = Parcel.repo
           /\ UNCHANGED <<upstreamOf, movedRepos, notices, pending, taken>>
           /\ stickyOf \subseteq stickyOf' /\ \A x \in stickyOf' \ stickyOf : x[3] = 0
<1>1. PICK u, i, c : u = courier.url /\ i = courier.target /\ c = remarks[u][i]
  OBVIOUS
<1>2. /\ courier.pc = "write" /\ u \in Urls /\ i \in DOMAIN remarks[u] /\ c \in RemarkSet /\ ~c.gone
      /\ courier.pull \in DOMAIN pulls[u]
  BY <1>1, Domains DEF UpdateComment, Bound, Deleted
<1>3. PICK e : e = [Comment(c.by, c.pull) EXCEPT !.gone = c.gone]
  OBVIOUS
<1>4. PICK m : m = Comment(c.by, c.pull)
  OBVIOUS
<1>5. /\ m \in RemarkSet /\ m.by = c.by /\ m.pull = c.pull /\ m.marker /\ m.about = Parcel.url
      /\ m.repo = Parcel.repo
  BY <1>2, <1>4, CommentIs DEF RemarkSet
<1>6. /\ e \in RemarkSet /\ e.by = c.by /\ e.pull = c.pull /\ e.marker /\ e.about = Parcel.url
      /\ e.repo = Parcel.repo
  BY <1>2, <1>3, <1>4, <1>5 DEF RemarkSet
<1>7. remarks' = [remarks EXCEPT ![u] = [remarks[u] EXCEPT ![i] = e]]
  BY <1>1, <1>3 DEF UpdateComment
<1>8. /\ remarks' \in [Urls -> Seq(RemarkSet)]
      /\ \A v \in Urls : \A j \in DOMAIN remarks[v] :
            /\ j \in DOMAIN remarks'[v]
            /\ remarks'[v][j].by = remarks[v][j].by
            /\ remarks'[v][j].pull = remarks[v][j].pull
            /\ remarks[v][j].marker => remarks'[v][j].marker
      /\ \A v \in Urls : DOMAIN remarks'[v] = DOMAIN remarks[v]
      /\ \A v \in Urls : \A j \in DOMAIN remarks[v] :
            remarks'[v][j] = IF v = u /\ j = i THEN e ELSE remarks[v][j]
  <2>1. /\ u \in Urls /\ i \in DOMAIN remarks[u] /\ e \in RemarkSet
        /\ e.by = remarks[u][i].by /\ e.pull = remarks[u][i].pull
        /\ remarks[u][i].marker => e.marker
    BY <1>1, <1>2, <1>6
  <2> QED
    BY <2>1, <1>7, RemarkChanged
<1> DEFINE told == Tells(c.pull) /\ ~c.gone
           excused == courier.excused \/ Strayed(Parcel.repo, Parcel.url)
<1>9. /\ UNCHANGED <<upstreamOf, movedRepos, pulls, notices, pending, taken>>
      /\ courier' = [courier EXCEPT !.pc = "webhook", !.told = told, !.excused = excused]
  BY <1>1 DEF UpdateComment, upstreams
<1>10. told \in BOOLEAN /\ excused \in BOOLEAN
  BY DEF Tells, StickyShape, ParcelSet
<1>11. told <=> Tells(c.pull)
  BY <1>2
<1> HIDE DEF told
<1>12. excused <=> courier.excused \/ Astray
  BY DEF Astray
<1> HIDE DEF excused
<1>13. /\ courier' \in ParcelSet /\ courier'.pc = "webhook" /\ courier'.rec = courier.rec
       /\ courier'.todo = courier.todo /\ courier'.url = courier.url
       /\ courier'.owed = courier.owed /\ courier'.told = told /\ courier'.excused = excused
  BY <1>9, <1>10 DEF StickyShape, ParcelSet
<1>14. Parcel' = Parcel
  BY <1>9, <1>13 DEF Parcel
<1>15. /\ stickyOf' = stickyOf \/ stickyOf' = stickyOf \cup {<<Parcel.repo, courier.pull, 0>>}
       /\ Parcel.repo \in Mirrored /\ courier.pull \in Nat
  BY <1>2, ParcelIs DEF UpdateComment, LoopWritten, NoticeSet, StickyShape, ParcelSet
<1>16. stickyOf' \subseteq Mirrored \X Nat \X Nat /\ IsFiniteSet(stickyOf')
  <2>1. stickyOf \subseteq Mirrored \X Nat \X Nat /\ IsFiniteSet(stickyOf)
    BY DEF StickyShape
  <2>2. PICK x : x = <<Parcel.repo, courier.pull, 0>>
    OBVIOUS
  <2>3. x \in Mirrored \X Nat \X Nat
    BY <1>15, <2>2
  <2>4. IsFiniteSet(stickyOf \cup {x})
    BY <2>1, FS_AddElement
  <2> QED
    BY <1>15, <2>1, <2>2, <2>3, <2>4
<1>17. stickyOf \subseteq stickyOf' /\ \A x \in stickyOf' \ stickyOf : x[3] = 0
  BY <1>15
<1>18. StickyShape'
  BY <1>8, <1>9, <1>13, <1>16 DEF StickyShape
<1>19. Bound'
  BY <1>1, <1>2, <1>9, <1>13 DEF Bound
<1>20. RemarksStand'
  BY <1>2, <1>5, <1>6, <1>8, <1>9 DEF RemarksStand
<1>21. Grows
  BY <1>8, <1>9 DEF Grows
<1>22. \A v \in Urls : \A j \in DOMAIN remarks'[v] :
           \/ j \in DOMAIN remarks[v] /\ remarks'[v][j] = remarks[v][j]
           \/ /\ v = u /\ j = i
              /\ remarks'[v][j].about = Parcel.url /\ remarks'[v][j].repo = Parcel.repo
  BY <1>6, <1>8
<1>23. ~remarks[courier.url][courier.target].gone /\ courier.pc = "write"
  BY <1>1, <1>2
<1>24. courier'.told <=> Tells(remarks[courier.url][courier.target].pull)
  BY <1>1, <1>11, <1>13
<1>25. courier'.excused <=> courier.excused \/ Astray
  BY <1>12, <1>13
<1> QED
  BY <1>1, <1>9, <1>13, <1>14, <1>17, <1>18, <1>19, <1>20, <1>21, <1>22, <1>23, <1>24, <1>25
\* A comment is created, and the answer may be lost.
LEMMA Posts ==
    ASSUME StickyShape, Bound, RemarksStand, courier.pc = "write", Posted, UNCHANGED pulls
    PROVE  /\ remarks' \in [Urls -> Seq(RemarkSet)] /\ RemarksStand'
           /\ \A u \in Urls : \A i \in DOMAIN remarks[u] :
                 i \in DOMAIN remarks'[u] /\ remarks'[u][i] = remarks[u][i]
           /\ Len(remarks'[courier.url]) \in Nat \ {0}
           /\ \A u \in Urls : \A i \in DOMAIN remarks'[u] :
                 \/ i \in DOMAIN remarks[u] /\ remarks'[u][i] = remarks[u][i]
                 \/ /\ u = courier.url /\ i = Len(remarks'[u])
                    /\ remarks'[u][i].about = Parcel.url /\ remarks'[u][i].repo = Parcel.repo
           /\ Len(remarks'[courier.url]) \in DOMAIN remarks'[courier.url]
           /\ LET c == remarks'[courier.url][Len(remarks'[courier.url])]
              IN  c.by = "gate" /\ c.pull = courier.pull
<1>1. PICK u, e : u = courier.url /\ e = Comment("gate", courier.pull)
  OBVIOUS
<1>2. u \in Urls /\ courier.pull \in DOMAIN pulls[u] /\ courier.pull \in Nat
  BY <1>1 DEF Bound, StickyShape, ParcelSet
<1>3. /\ e \in RemarkSet /\ e.by = "gate" /\ e.pull = courier.pull /\ e.marker
      /\ e.about = Parcel.url /\ e.repo = Parcel.repo
  BY <1>1, <1>2, CommentIs
<1>4. remarks' = [remarks EXCEPT ![u] = Append(remarks[u], e)]
  BY <1>1 DEF Posted
<1>5. /\ remarks' \in [Urls -> Seq(RemarkSet)]
      /\ \A v \in Urls : \A j \in DOMAIN remarks[v] :
            j \in DOMAIN remarks'[v] /\ remarks'[v][j] = remarks[v][j]
      /\ \A v \in Urls : v # u => remarks'[v] = remarks[v]
      /\ Len(remarks'[u]) \in Nat \ {0}
      /\ DOMAIN remarks'[u] = DOMAIN remarks[u] \cup {Len(remarks'[u])}
      /\ remarks'[u][Len(remarks'[u])] = e
  BY <1>2, <1>3, <1>4, RemarkAdded
<1>6. \A v \in Urls : \A j \in DOMAIN remarks'[v] :
          \/ j \in DOMAIN remarks[v] /\ remarks'[v][j] = remarks[v][j]
          \/ v = u /\ j = Len(remarks'[v]) /\ remarks'[v][j] = e
  BY <1>5
<1>7. RemarksStand'
  BY <1>2, <1>3, <1>6 DEF RemarksStand
<1> QED
  BY <1>1, <1>3, <1>5, <1>6, <1>7

LEMMA Creates ==
    ASSUME StickyShape, Bound, RemarksStand, CreateComment
    PROVE  /\ StickyShape' /\ Bound' /\ RemarksStand' /\ Grows
           /\ Parcel' = Parcel /\ courier'.url = courier.url /\ courier'.pull = courier.pull
           /\ courier'.pc = "webhook"
           /\ courier'.owed = courier.owed /\ courier'.excused = courier.excused
           /\ courier'.told <=> Tells(courier.pull)
           /\ UNCHANGED <<upstreamOf, movedRepos, notices, pending, taken>>
           /\ \A x \in stickyOf' \ stickyOf :
                 /\ x[1] = Parcel.repo /\ x[2] = courier.pull
                 /\ OursOn(courier.url, x[3], courier.pull)'
<1>1. PICK x : x = <<Parcel.repo, courier.pull, Len(remarks'[courier.url])>>
  OBVIOUS
<1>2. /\ courier.pc = "write" /\ Posted /\ UNCHANGED <<upstreams, pulls, notices, pending, taken>>
      /\ stickyOf' = (stickyOf \ LoopOf(Parcel.repo, courier.pull)) \cup {x}
      /\ courier' = [courier EXCEPT !.pc = "webhook", !.told = Tells(courier.pull)]
  BY <1>1 DEF CreateComment
<1>3. Tells(courier.pull) \in BOOLEAN
  BY DEF Tells
<1>4. /\ courier' \in ParcelSet /\ courier'.pc = "webhook" /\ courier'.rec = courier.rec
      /\ courier'.todo = courier.todo /\ courier'.url = courier.url /\ courier'.pull = courier.pull
      /\ courier'.owed = courier.owed /\ courier'.excused = courier.excused
      /\ courier'.told = Tells(courier.pull)
  BY <1>2, <1>3 DEF StickyShape, ParcelSet
<1>5. Parcel' = Parcel
  BY <1>2, <1>4 DEF Parcel
<1>6. /\ remarks' \in [Urls -> Seq(RemarkSet)] /\ RemarksStand'
      /\ \A u \in Urls : \A i \in DOMAIN remarks[u] :
            i \in DOMAIN remarks'[u] /\ remarks'[u][i] = remarks[u][i]
      /\ Len(remarks'[courier.url]) \in Nat \ {0}
      /\ Len(remarks'[courier.url]) \in DOMAIN remarks'[courier.url]
      /\ LET c == remarks'[courier.url][Len(remarks'[courier.url])]
         IN  c.by = "gate" /\ c.pull = courier.pull
  BY <1>2, Posts
<1>7. Parcel.repo \in Mirrored /\ courier.pull \in Nat
  BY <1>2, ParcelIs DEF NoticeSet, StickyShape, ParcelSet
<1>8. stickyOf' \subseteq Mirrored \X Nat \X Nat /\ IsFiniteSet(stickyOf')
  <2>1. PICK S : S = stickyOf \ LoopOf(Parcel.repo, courier.pull)
    OBVIOUS
  <2>2. S \subseteq stickyOf /\ IsFiniteSet(S) /\ S \subseteq Mirrored \X Nat \X Nat
    BY <2>1, FS_Subset DEF StickyShape
  <2>3. x \in Mirrored \X Nat \X Nat
    BY <1>1, <1>6, <1>7
  <2>4. IsFiniteSet(S \cup {x})
    BY <2>2, FS_AddElement
  <2> QED
    BY <1>2, <2>1, <2>2, <2>3, <2>4
<1>9. StickyShape'
  BY <1>2, <1>4, <1>6, <1>8 DEF StickyShape, upstreams
<1>10. Bound'
  BY <1>2, <1>4 DEF Bound
<1>11. Grows
  BY <1>2, <1>6 DEF Grows, upstreams
<1>12. OursOn(courier.url, x[3], courier.pull)'
  BY <1>1, <1>6, <1>4 DEF OursOn
<1>13. \A y \in stickyOf' \ stickyOf : y = x
  BY <1>2
<1> QED
  BY <1>1, <1>2, <1>3, <1>4, <1>5, <1>6, <1>9, <1>10, <1>11, <1>12, <1>13 DEF upstreams

LEMMA LosesAnswer ==
    ASSUME StickyShape, Bound, RemarksStand, AnswerLost
    PROVE  StickyShape' /\ Bound' /\ RemarksStand' /\ Grows
<1> DEFINE t == Parcel.tries + 1
<1>1. courier.rec \in DOMAIN notices /\ notices' = [notices EXCEPT ![courier.rec].tries = t]
      /\ t = notices[courier.rec].tries + 1
  BY ParcelIs DEF AnswerLost, Parcel
<1> HIDE DEF t
<1>2. NoticesStay /\ DOMAIN notices' = DOMAIN notices
  BY <1>1, TryCounted
<1>3. /\ pending' \subseteq pending /\ UNCHANGED <<upstreams, pulls, stickyOf, taken>>
      /\ courier' = Between("idle") /\ courier.pc = "write" /\ Posted
  BY DEF AnswerLost
<1>4. /\ remarks' \in [Urls -> Seq(RemarkSet)] /\ RemarksStand'
      /\ \A u \in Urls : \A i \in DOMAIN remarks[u] :
            i \in DOMAIN remarks'[u] /\ remarks'[u][i] = remarks[u][i]
  BY <1>3, Posts
<1>5. StickyShape'
  BY <1>2, <1>3, <1>4, BetweenIs DEF StickyShape, upstreams, NoticesStay
<1>6. Bound'
  BY <1>2, <1>3, BetweenIs DEF Bound
<1>7. Grows
  BY <1>2, <1>3, <1>4 DEF Grows, NoticesStay, upstreams
<1> QED
  BY <1>4, <1>5, <1>6, <1>7

LEMMA Resolves ==
    ASSUME StickyShape, Bound, RemarksStand, NothingToResolve
    PROVE  /\ StickyShape' /\ Bound' /\ RemarksStand' /\ Grows
           /\ Parcel' = Parcel /\ courier'.url = courier.url /\ courier'.pc = "webhook"
           /\ courier'.owed = courier.owed /\ courier'.excused = courier.excused
           /\ UNCHANGED <<upstreamOf, movedRepos, remarks, notices, pending, taken>>
<1>1. /\ UNCHANGED <<upstreams, forge, stickyOf, notices, pending, taken>>
      /\ courier.pc = "write" /\ courier' = [courier EXCEPT !.pc = "webhook"]
  BY DEF NothingToResolve
<1>2. Grows /\ RemarksStand'
  BY <1>1, ListsStand
<1>3. /\ courier' \in ParcelSet /\ courier'.pc = "webhook" /\ courier'.rec = courier.rec
      /\ courier'.todo = courier.todo /\ courier'.url = courier.url
      /\ courier'.owed = courier.owed /\ courier'.excused = courier.excused
  BY <1>1 DEF StickyShape, ParcelSet
<1>4. StickyShape'
  BY <1>1, <1>3 DEF StickyShape, upstreams, forge
<1>5. Bound'
  BY <1>1, <1>3 DEF Bound
<1> QED
  BY <1>1, <1>2, <1>3, <1>4, <1>5 DEF Parcel, upstreams, forge

LEMMA Fires ==
    ASSUME StickyShape, Bound, RemarksStand, FireWebhook
    PROVE  StickyShape' /\ Bound' /\ RemarksStand' /\ Grows
<1>1. /\ UNCHANGED <<upstreams, forge, stickyOf, notices>> /\ courier.pc = "webhook"
      /\ pending' = pending \ {courier.rec} /\ courier' = Between("idle")
      /\ \A t \in taken' : t \in taken \/ t.rec = courier.rec
  BY DEF FireWebhook
<1>2. Grows /\ RemarksStand'
  BY <1>1, ListsStand
<1>3. StickyShape'
  BY <1>1, BetweenIs DEF StickyShape, upstreams, forge
<1>4. courier.rec \in DOMAIN notices
  BY <1>1, ParcelIs
<1>5. Bound'
  BY <1>1, <1>4, BetweenIs DEF Bound
<1> QED
  BY <1>2, <1>3, <1>5
\* The hooks.
LEMMA RejectsStep ==
    ASSUME StickyShape, Bound, RemarksStand, NEW r \in Mirrored, NotifyReject(r)
    PROVE  /\ StickyShape' /\ Bound' /\ RemarksStand' /\ Grows
           /\ \A k \in DOMAIN notices' \ DOMAIN notices :
                 \E n \in Nat : notices'[k] = Notice(r, "rejected", n)
           /\ UNCHANGED <<upstreams, forge, stickyOf, courier, taken>>
<1>1. PICK m : m = Notice(r, "rejected", 0)
  OBVIOUS
<1>2. /\ notices' = Append(notices, m) /\ pending' = pending \cup {Len(notices')}
      /\ UNCHANGED <<upstreams, forge, stickyOf, courier, taken>>
  BY <1>1 DEF NotifyReject
<1>3. m \in NoticeSet
  BY <1>1, NoticeFields
<1>4. /\ notices' \in Seq(NoticeSet) /\ Len(notices') = Len(notices) + 1
      /\ \A i \in 1 .. Len(notices) : notices'[i] = notices[i]
      /\ notices'[Len(notices) + 1] = m
  BY <1>2, <1>3, AppendProperties DEF StickyShape
<1>5. /\ DOMAIN notices' = 1 .. Len(notices) + 1 /\ DOMAIN notices = 1 .. Len(notices)
      /\ Len(notices) \in Nat
  BY <1>4, LenProperties DEF StickyShape
<1>6. NoticesStay
  BY <1>4, <1>5 DEF NoticesStay
<1>7. Grows /\ RemarksStand'
  BY <1>2, <1>6, ListsStand
<1>8. StickyShape'
  BY <1>2, <1>4, <1>5 DEF StickyShape, upstreams, forge
<1>9. Bound'
  BY <1>2, <1>4, <1>5 DEF Bound, forge, StickyShape
<1>10. \A k \in DOMAIN notices' \ DOMAIN notices : notices'[k] = m
  BY <1>4, <1>5
<1> QED
  BY <1>1, <1>2, <1>7, <1>8, <1>9, <1>10

\* A set of numbers as a list.
LEMMA ListOf ==
    ASSUME NEW S \in SUBSET Nat, IsFiniteSet(S)
    PROVE  SetToSeq(S) \in Seq(Nat)
<1>1. Cardinality(S) \in Nat /\ ExistsBijection(1 .. Cardinality(S), S)
  BY FS_CardinalityType
<1>2. PICK f : f \in Bijection(1 .. Cardinality(S), S)
  BY <1>1 DEF ExistsBijection
<1>3. f \in [1 .. Cardinality(S) -> S] /\ IsInjective(f)
  BY <1>2 DEF Bijection, Injection, IsInjective
<1>4. SetToSeq(S) \in [1 .. Cardinality(S) -> S]
  BY <1>3 DEF SetToSeq
<1>5. PICK n, g : n = Cardinality(S) /\ g = SetToSeq(S)
  OBVIOUS
<1>6. n \in Nat /\ g \in [1 .. n -> Nat]
  BY <1>1, <1>4, <1>5
<1>7. g \in Seq(Nat)
  BY <1>6
<1> QED
  BY <1>5, <1>7

LEMMA Accepts ==
    ASSUME StickyShape, Bound, RemarksStand, NEW r \in Mirrored, NotifyResolved(r)
    PROVE  /\ StickyShape' /\ Bound' /\ RemarksStand' /\ Grows
           /\ \A k \in DOMAIN notices' \ DOMAIN notices :
                 \E n \in Nat : notices'[k] = Notice(r, "resolved", n)
           /\ UNCHANGED <<upstreams, forge, courier, taken>>
           /\ stickyOf' \subseteq stickyOf
<1>1. PICK over, more : /\ over = LoopsFrom(r)
                        /\ more = [i \in DOMAIN over |-> Notice(r, "resolved", over[i])]
  OBVIOUS
<1>2. over \in Seq(Nat) /\ DOMAIN over = 1 .. Len(over) /\ Len(over) \in Nat
  <2>1. PICK S, T : S = {y \in stickyOf : y[1] = r} /\ T = {x[2] : x \in S}
    OBVIOUS
  <2>2. IsFiniteSet(S) /\ T \subseteq Nat
    BY <2>1, FS_Subset DEF StickyShape
  <2>3. IsFiniteSet(T)
    <3>1. PICK f : f = [x \in S |-> x[2]]
      OBVIOUS
    <3>2. f \in Surjection(S, T)
      BY <2>1, <3>1 DEF Surjection
    <3> QED
      BY <2>2, <3>2, FS_Surjection DEF ExistsSurjection
  <2>4. over \in Seq(Nat)
    BY <1>1, <2>1, <2>2, <2>3, ListOf DEF LoopsFrom
  <2> QED
    BY <2>4, LenProperties
<1>3. \A i \in 1 .. Len(over) : over[i] \in Nat /\ Notice(r, "resolved", over[i]) \in NoticeSet
  <2> TAKE i \in 1 .. Len(over)
  <2>1. over[i] \in Nat
    BY <1>2, ElementOfSeq
  <2> QED
    BY <2>1, NoticeFields
<1>4. more \in Seq(NoticeSet) /\ Len(more) = Len(over)
  <2>1. more \in [1 .. Len(over) -> NoticeSet]
    BY <1>1, <1>2, <1>3
  <2>2. more \in Seq(NoticeSet) /\ DOMAIN more = 1 .. Len(over)
    BY <1>2, <2>1
  <2> QED
    BY <1>2, <2>2, LenProperties
<1>5. /\ notices' = notices \o more
      /\ UNCHANGED <<upstreams, forge, courier, taken>>
      /\ stickyOf' \subseteq stickyOf
      /\ pending' \subseteq pending \cup (DOMAIN notices' \ DOMAIN notices)
  <2>1. pending \subseteq DOMAIN notices
    BY DEF StickyShape
  <2> QED
    BY <1>1, <2>1 DEF NotifyResolved
<1>6. /\ notices' \in Seq(NoticeSet) /\ Len(notices') = Len(notices) + Len(more)
      /\ \A i \in 1 .. Len(notices) + Len(more) :
            notices'[i] = IF i <= Len(notices) THEN notices[i] ELSE more[i - Len(notices)]
  <2>1. PICK s : s = notices
    OBVIOUS
  <2>2. s \in Seq(NoticeSet) /\ more \in Seq(NoticeSet) /\ notices' = s \o more
    BY <1>4, <1>5, <2>1 DEF StickyShape
  <2>3. /\ s \o more \in Seq(NoticeSet) /\ Len(s \o more) = Len(s) + Len(more)
        /\ \A i \in 1 .. Len(s) + Len(more) :
              (s \o more)[i] = IF i <= Len(s) THEN s[i] ELSE more[i - Len(s)]
    BY <2>2, ConcatProperties
  <2> QED
    BY <2>1, <2>2, <2>3
<1>7. /\ DOMAIN notices' = 1 .. Len(notices) + Len(over) /\ DOMAIN notices = 1 .. Len(notices)
      /\ Len(notices) \in Nat
  BY <1>4, <1>6, LenProperties DEF StickyShape
<1>8. NoticesStay
  BY <1>2, <1>4, <1>6, <1>7 DEF NoticesStay
<1>9. Grows /\ RemarksStand'
  BY <1>5, <1>8, ListsStand
<1>10. IsFiniteSet(stickyOf')
  BY <1>5, FS_Subset DEF StickyShape
<1>11. DOMAIN notices \subseteq DOMAIN notices'
  BY <1>8 DEF NoticesStay
<1>12. StickyShape'
  BY <1>5, <1>6, <1>10, <1>11 DEF StickyShape, upstreams, forge
<1>13. Bound'
  BY <1>5, <1>11 DEF Bound, forge
<1>14. ASSUME NEW k \in DOMAIN notices' \ DOMAIN notices
       PROVE  \E n \in Nat : notices'[k] = Notice(r, "resolved", n)
  <2>1. /\ k - Len(notices) \in 1 .. Len(over)
        /\ notices'[k] = more[k - Len(notices)]
    BY <1>2, <1>4, <1>6, <1>7
  <2>2. PICK i : i = k - Len(notices)
    OBVIOUS
  <2>3. notices'[k] = Notice(r, "resolved", over[i]) /\ over[i] \in Nat
    BY <1>1, <1>2, <1>3, <2>1, <2>2
  <2> QED
    BY <2>3
<1> QED
  BY <1>5, <1>9, <1>12, <1>13, <1>14

\* People and the operator.
LEMMA PullsMove ==
    ASSUME StickyShape, Bound, RemarksStand, NEW u \in Urls,
           \/ \E from \in Origins : OpenPull(u, from)
           \/ \E n \in OpenPulls(u) : ClosePull(u, n)
    PROVE  /\ StickyShape' /\ Bound' /\ RemarksStand' /\ Grows
           /\ UNCHANGED <<upstreams, remarks, stickyOf, notices, pending, courier, taken>>
<1>1. UNCHANGED <<upstreams, remarks, stickyOf, notices, pending, courier, taken>>
  BY DEF OpenPull, ClosePull
<1>2. /\ pulls' \in [Urls -> Seq(PullSet)]
      /\ \A v \in Urls : \A n \in DOMAIN pulls[v] :
            n \in DOMAIN pulls'[v] /\ pulls'[v][n].from = pulls[v][n].from
  <2>0. pulls \in [Urls -> Seq(PullSet)]
    BY DEF StickyShape
  <2>1. PICK f, g : f = pulls /\ g = pulls'
    OBVIOUS
  <2>2. CASE \E from \in Origins : OpenPull(u, from)
    <3>1. PICK from \in Origins : OpenPull(u, from)
      BY <2>2
    <3>2. PICK e : e = [from |-> from, open |-> TRUE]
      OBVIOUS
    <3>3. e \in PullSet /\ g = [f EXCEPT ![u] = Append(f[u], e)]
      BY <2>1, <3>1, <3>2 DEF OpenPull, PullSet
    <3>4. /\ g \in [Urls -> Seq(PullSet)]
          /\ \A v \in Urls : v # u => g[v] = f[v]
          /\ DOMAIN g[u] = DOMAIN f[u] \cup {Len(g[u])}
          /\ \A j \in DOMAIN f[u] : g[u][j] = f[u][j]
      BY <2>0, <2>1, <3>3, ListGrown
    <3> QED
      BY <2>1, <3>4
  <2>3. CASE \E n \in OpenPulls(u) : ClosePull(u, n)
    <3>1. PICK n \in OpenPulls(u) : ClosePull(u, n)
      BY <2>3
    <3>2. PICK e : e = [f[u][n] EXCEPT !.open = FALSE]
      OBVIOUS
    <3>3. n \in DOMAIN f[u] /\ f[u][n] \in PullSet
      BY <2>1, Domains DEF OpenPulls
    <3>4. e \in PullSet /\ e.from = f[u][n].from
      BY <3>2, <3>3 DEF PullSet
    <3>5. g = [f EXCEPT ![u] = [f[u] EXCEPT ![n] = e]]
      BY <2>1, <3>1, <3>2 DEF ClosePull
    <3>6. /\ g \in [Urls -> Seq(PullSet)]
          /\ \A v \in Urls : DOMAIN g[v] = DOMAIN f[v]
          /\ \A v \in Urls : v # u => g[v] = f[v]
          /\ g[u][n] = e /\ \A j \in DOMAIN f[u] : j # n => g[u][j] = f[u][j]
      BY <2>0, <2>1, <3>3, <3>4, <3>5, ListChanged
    <3> QED
      BY <2>1, <3>4, <3>6
  <2> QED
    BY <2>2, <2>3
<1>3. Grows
  BY <1>1, <1>2 DEF Grows, upstreams
<1>4. StickyShape'
  BY <1>1, <1>2 DEF StickyShape, upstreams
<1>5. Bound'
  BY <1>1, <1>2 DEF Bound
<1>6. RemarksStand'
  BY <1>1, <1>2 DEF RemarksStand, StickyShape
<1> QED
  BY <1>1, <1>3, <1>4, <1>5, <1>6

LEMMA PeopleWrite ==
    ASSUME StickyShape, Bound, RemarksStand, NEW u \in Urls,
           \/ \E n \in OpenPulls(u), quotes \in BOOLEAN : Remark(u, n, quotes)
           \/ \E i \in DOMAIN remarks[u] : DeleteRemark(u, i)
    PROVE  /\ StickyShape' /\ Bound' /\ RemarksStand' /\ Grows
           /\ UNCHANGED <<upstreams, pulls, stickyOf, notices, pending, courier, taken>>
           /\ \A v \in Urls : \A i \in DOMAIN remarks'[v] :
                 \/ /\ i \in DOMAIN remarks[v] /\ remarks'[v][i].shows = remarks[v][i].shows
                    /\ remarks'[v][i].about = remarks[v][i].about
                 \/ i \notin DOMAIN remarks[v] /\ remarks'[v][i].shows = 0
<1>1. UNCHANGED <<upstreams, pulls, stickyOf, notices, pending, courier, taken>>
  BY DEF Remark, DeleteRemark
<1>2. CASE \E n \in OpenPulls(u), quotes \in BOOLEAN : Remark(u, n, quotes)
  <2>1. PICK n \in OpenPulls(u), quotes \in BOOLEAN : Remark(u, n, quotes)
    BY <1>2
  <2>2. PICK e : e = [pull |-> n, by |-> "person", shows |-> 0, about |-> u, repo |-> "none",
                      marker |-> quotes, gone |-> FALSE]
    OBVIOUS
  <2>3. n \in DOMAIN pulls[u] /\ n \in Nat
    BY Domains DEF OpenPulls
  <2>4. e \in RemarkSet /\ e.pull = n /\ e.by # "gate" /\ e.shows = 0
    BY <2>2, <2>3 DEF RemarkSet
  <2>5. remarks' = [remarks EXCEPT ![u] = Append(remarks[u], e)]
    BY <2>1, <2>2 DEF Remark
  <2>6. /\ remarks' \in [Urls -> Seq(RemarkSet)]
        /\ \A v \in Urls : \A j \in DOMAIN remarks[v] :
              j \in DOMAIN remarks'[v] /\ remarks'[v][j] = remarks[v][j]
        /\ \A v \in Urls : v # u => remarks'[v] = remarks[v]
        /\ DOMAIN remarks'[u] = DOMAIN remarks[u] \cup {Len(remarks'[u])}
        /\ remarks'[u][Len(remarks'[u])] = e /\ Len(remarks'[u]) \notin DOMAIN remarks[u]
    BY <2>4, <2>5, RemarkAdded
  <2>7. \A v \in Urls : \A j \in DOMAIN remarks'[v] :
            \/ j \in DOMAIN remarks[v] /\ remarks'[v][j] = remarks[v][j]
            \/ v = u /\ j \notin DOMAIN remarks[v] /\ remarks'[v][j] = e
    BY <2>6
  <2>8. RemarksStand'
    BY <1>1, <2>3, <2>4, <2>7 DEF RemarksStand
  <2>9. StickyShape'
    BY <1>1, <2>6 DEF StickyShape, upstreams
  <2>10. Grows
    BY <1>1, <2>6 DEF Grows, upstreams
  <2>11. Bound'
    BY <1>1 DEF Bound
  <2> QED
    BY <1>1, <2>4, <2>7, <2>8, <2>9, <2>10, <2>11
<1>3. CASE \E i \in DOMAIN remarks[u] : DeleteRemark(u, i)
  <2>1. PICK i \in DOMAIN remarks[u] : DeleteRemark(u, i)
    BY <1>3
  <2>2. PICK c, e : c = remarks[u][i] /\ e = [c EXCEPT !.gone = TRUE]
    OBVIOUS
  <2>3. c \in RemarkSet
    BY <2>2, Domains
  <2>4. /\ e \in RemarkSet /\ e.by = c.by /\ e.pull = c.pull /\ e.marker = c.marker
        /\ e.shows = c.shows /\ e.about = c.about
    BY <2>2, <2>3 DEF RemarkSet
  <2>5. remarks' = [remarks EXCEPT ![u] = [remarks[u] EXCEPT ![i] = e]]
    BY <2>1, <2>2 DEF DeleteRemark
  <2>6. e.by = remarks[u][i].by /\ e.pull = remarks[u][i].pull /\ (remarks[u][i].marker => e.marker)
    BY <2>2, <2>4
  <2>7. /\ remarks' \in [Urls -> Seq(RemarkSet)]
        /\ \A v \in Urls : \A j \in DOMAIN remarks[v] :
              /\ j \in DOMAIN remarks'[v]
              /\ remarks'[v][j].by = remarks[v][j].by
              /\ remarks'[v][j].pull = remarks[v][j].pull
              /\ remarks[v][j].marker => remarks'[v][j].marker
        /\ \A v \in Urls : DOMAIN remarks'[v] = DOMAIN remarks[v]
        /\ \A v \in Urls : \A j \in DOMAIN remarks[v] :
              remarks'[v][j] = IF v = u /\ j = i THEN e ELSE remarks[v][j]
    BY <2>4, <2>5, <2>6, RemarkChanged
  <2>8. RemarksStand'
    BY <1>1, <2>7 DEF RemarksStand
  <2>9. StickyShape'
    BY <1>1, <2>7 DEF StickyShape, upstreams
  <2>10. Grows
    BY <1>1, <2>7 DEF Grows, upstreams
  <2>11. Bound'
    BY <1>1 DEF Bound
  <2> QED
    BY <1>1, <2>2, <2>4, <2>7, <2>8, <2>9, <2>10, <2>11
<1> QED
  BY <1>2, <1>3

LEMMA Points ==
    ASSUME StickyShape, Bound, RemarksStand, NEW r \in Mirrored, NEW u \in Urls, PointUpstream(r, u)
    PROVE  /\ StickyShape' /\ Bound' /\ RemarksStand' /\ Grows
           /\ UNCHANGED <<forge, stickyOf, notices, pending, courier, taken>>
<1>1. /\ UNCHANGED <<forge, stickyOf, notices, pending, courier, taken>>
      /\ upstreamOf' = [upstreamOf EXCEPT ![r] = u] /\ movedRepos' = movedRepos \cup {r}
  BY DEF PointUpstream
<1>2. StickyShape'
  BY <1>1 DEF StickyShape, forge
<1>3. Bound' /\ RemarksStand'
  BY <1>1 DEF Bound, RemarksStand, forge
<1>4. Grows
  BY <1>1 DEF Grows, forge, StickyShape
<1> QED
  BY <1>1, <1>2, <1>3, <1>4
-----------------------------------------------------------------------------
(* What stands in the lists still stands after a step.                     *)

LEMMA Grown ==
    ASSUME Grows, NEW u \in Urls, NEW r, NEW i, NEW n
    PROVE  /\ OursOn(u, i, n) => OursOn(u, i, n)'
           /\ Strayed(r, u) => Strayed(r, u)'
BY DEF Grows, OursOn, Strayed

LEMMA IdsFollow ==
    ASSUME StickyShape, IdsStand, Grows,
           \A x \in stickyOf' \ stickyOf :
              x[3] = 0 \/ Strayed(x[1], upstreamOf[x[1]])' \/ OursOn(upstreamOf[x[1]], x[3], x[2])'
    PROVE  IdsStand'
<1> SUFFICES ASSUME NEW x \in stickyOf', x[3] # 0, ~Strayed(x[1], upstreamOf[x[1]])'
             PROVE  OursOn(upstreamOf[x[1]], x[3], x[2])'
  BY DEF IdsStand
<1>1. CASE x \in stickyOf
  <2>1. PICK r \in Mirrored, n \in Nat, i \in Nat : x = <<r, n, i>>
    BY <1>1 DEF StickyShape
  <2>2. r \notin movedRepos'
    BY <2>1 DEF Strayed
  <2>3. upstreamOf'[r] = upstreamOf[r] /\ upstreamOf[r] \in Urls
    BY <2>2 DEF Grows, StickyShape
  <2>4. PICK u : u = upstreamOf[r]
    OBVIOUS
  <2>5. u \in Urls /\ upstreamOf'[r] = u
    BY <2>3, <2>4
  <2>6. ~Strayed(r, u)'
    BY <2>1, <2>5
  <2>7. ~Strayed(r, u)
    BY <2>5, <2>6, Grown
  <2>8. OursOn(u, i, n)
    BY <1>1, <2>1, <2>4, <2>7 DEF IdsStand
  <2>9. OursOn(u, i, n)'
    BY <2>5, <2>8, Grown
  <2> QED
    BY <2>1, <2>5, <2>9
<1>2. CASE x \notin stickyOf
  BY <1>2
<1> QED
  BY <1>1, <1>2

LEMMA NoticesFollow ==
    ASSUME StickyShape, StickyShape', IdsStand, NoticesStand, Grows,
           \A k \in DOMAIN notices' \ DOMAIN notices :
              \E r \in Mirrored, event \in {"rejected", "resolved"}, n \in Nat :
                 notices'[k] = Notice(r, event, n)
    PROVE  NoticesStand'
<1> SUFFICES ASSUME NEW k \in DOMAIN notices'
             PROVE  /\ notices'[k].repo \notin movedRepos' =>
                          notices'[k].url = upstreamOf'[notices'[k].repo]
                    /\ ~Strayed(notices[k].repo, notices[k].url)' =>
                          \A i \in notices'[k].sticky : OursOn(notices[k].url, i, notices[k].loop)'
  BY DEF NoticesStand
<1>1. CASE k \in DOMAIN notices
  <2>1. PICK r, u, n, ids : /\ r = notices[k].repo /\ u = notices[k].url /\ n = notices[k].loop
                            /\ ids = notices[k].sticky
    OBVIOUS
  <2>2. r \in Mirrored /\ u \in Urls
    <3>1. notices[k] \in NoticeSet
      BY <1>1, ElementOfSeq, LenProperties DEF StickyShape
    <3> QED
      BY <2>1, <3>1 DEF NoticeSet
  <2>3. /\ notices'[k].repo = r /\ notices'[k].url = u
        /\ notices'[k].loop = n /\ notices'[k].sticky = ids
    BY <1>1, <2>1 DEF Grows
  <2>4. /\ r \notin movedRepos => u = upstreamOf[r]
        /\ ~Strayed(r, u) => \A i \in ids : OursOn(u, i, n)
    BY <1>1, <2>1 DEF NoticesStand
  <2>5. r \notin movedRepos' => u = upstreamOf'[r]
    BY <2>2, <2>4 DEF Grows
  <2>6. ~Strayed(r, u)' => \A i \in ids : OursOn(u, i, n)'
    BY <2>2, <2>4, Grown
  <2> QED
    BY <2>3, <2>5, <2>6
<1>2. CASE k \notin DOMAIN notices
  <2>1. PICK r \in Mirrored, event \in {"rejected", "resolved"}, n \in Nat :
            notices'[k] = Notice(r, event, n)
    BY <1>2
  <2>2. PICK u, ids : u = upstreamOf[r] /\ ids = notices'[k].sticky
    OBVIOUS
  <2>3. /\ notices'[k].repo = r /\ notices'[k].url = u /\ notices'[k].loop = n
        /\ notices'[k].sticky = ids /\ ids \subseteq StickyId(r, n) /\ u \in Urls
    <3>1. PICK m : m = Notice(r, event, n)
      OBVIOUS
    <3>2. m.repo = r /\ m.url = upstreamOf[r] /\ m.loop = n /\ m.sticky \subseteq StickyId(r, n)
      BY <3>1, NoticeFields
    <3>3. u \in Urls
      BY <2>2 DEF StickyShape
    <3> QED
      BY <2>1, <2>2, <3>1, <3>2, <3>3
  <2>4. r \notin movedRepos' => u = upstreamOf'[r]
    BY <2>2 DEF Grows
  <2>5. ASSUME ~Strayed(r, u)', NEW i \in ids
        PROVE  OursOn(u, i, n)'
    <3>1. ~Strayed(r, u)
      BY <2>3, <2>5, Grown
    <3>2. PICK x \in stickyOf : x[1] = r /\ x[2] = n /\ x[3] = i /\ i # 0
      BY <2>3 DEF StickyId, LoopOf
    <3>3. OursOn(u, i, n)
      BY <2>2, <3>1, <3>2 DEF IdsStand
    <3> QED
      BY <2>3, <3>3, Grown
  <2> QED
    BY <2>3, <2>4, <2>5
<1> QED
  BY <1>1, <1>2

-----------------------------------------------------------------------------
(* The road of a delivery.                                                 *)

LEMMA RoadIdle ==
    ASSUME courier'.pc \in {"idle", "find"}
    PROVE  Road'
BY DEF Road, RoadUrl, RoadPull, RoadTarget, RoadMiss, RoadTold

LEMMA RoadFollows ==
    ASSUME StickyShape, Bound, Road, Grows, courier' = courier
    PROVE  Road'
<1>1. CASE courier.pc = "idle"
  BY <1>1, RoadIdle
<1>2. CASE courier.pc # "idle"
  <2>1. courier.rec \in DOMAIN notices /\ Parcel \in NoticeSet
    BY <1>2, ParcelIs
  <2>2. PICK p, q : p = Parcel /\ q = Parcel'
    OBVIOUS
  <2>3. q.repo = p.repo /\ q.url = p.url /\ q.event = p.event /\ q.loop = p.loop
    BY <2>1, <2>2 DEF Grows, Parcel
  <2>4. p.repo \in Mirrored /\ p.url \in Urls
    BY <2>1, <2>2 DEF NoticeSet
  <2>5. Astray => Astray'
    <3>1. PICK r, u : r = p.repo /\ u = p.url
      OBVIOUS
    <3>2. (Astray <=> Strayed(r, u)) /\ (Astray' <=> Strayed(r, u)')
      BY <2>2, <2>3, <3>1 DEF Astray, Strayed
    <3> QED
      BY <2>4, <3>1, <3>2, Grown
  <2>6. RoadUrl'
    BY <2>2, <2>3 DEF Road, RoadUrl
  <2>7. RoadPull'
    BY <2>2, <2>3 DEF Road, RoadPull, Grows, Bound
  <2>8. RoadTarget'
    <3>1. CASE courier.pc = "write" /\ courier.target # 0
      <4>1. PICK u, i : u = courier.url /\ i = courier.target
        OBVIOUS
      <4>2. u \in Urls /\ i \in DOMAIN remarks[u]
        BY <3>1, <4>1 DEF Bound, Road, RoadTarget
      <4>3. PICK c, d : c = remarks[u][i] /\ d = remarks'[u][i]
        OBVIOUS
      <4>4. i \in DOMAIN remarks'[u] /\ d.by = c.by /\ d.pull = c.pull /\ (c.marker => d.marker)
        BY <4>2, <4>3 DEF Grows
      <4>5. /\ c.by = "gate" \/ c.marker \/ Astray
            /\ ~courier.excused /\ ~Astray =>
                  c.pull = IF p.event = "resolved" THEN p.loop ELSE courier.pull
        BY <2>2, <3>1, <4>1, <4>3 DEF Road, RoadTarget
      <4> QED
        BY <2>2, <2>3, <2>5, <4>1, <4>3, <4>4, <4>5 DEF RoadTarget
    <3>2. CASE ~(courier.pc = "write" /\ courier.target # 0)
      BY <3>2 DEF RoadTarget
    <3> QED
      BY <3>1, <3>2
  <2>9. RoadMiss' /\ RoadTold'
    BY <2>2, <2>3 DEF Road, RoadMiss, RoadTold
  <2> QED
    BY <2>6, <2>7, <2>8, <2>9 DEF Road
<1> QED
  BY <1>1, <1>2

\* The pull request is the branch's own, or missing it is excused.
LEMMA RoadFinds ==
    ASSUME StickyShape, Bound, RemarksStand, NEW u \in Urls, FindPull(u)
    PROVE  Road'
<1>1. /\ Parcel' = Parcel /\ courier'.url = u
      /\ courier'.pc = IF PullFor(u) = {} THEN "webhook" ELSE "look"
      /\ PullFor(u) # {} => courier'.pull \in PullFor(u)
      /\ courier'.owed <=> OwnPulls(Parcel.url) # {}
      /\ courier'.excused <=> \/ u # Parcel.url
                              \/ u \notin GitHubUrls /\ PullFor(u) \cap OwnPulls(u) = {}
  BY Finds
<1>2. pulls' = pulls /\ u \in Adapters(Parcel.url, courier.urls)
  BY DEF FindPull, forge
<1>3. RoadUrl'
  BY <1>1, <1>2 DEF RoadUrl, Adapters
<1>4. ASSUME courier'.pc = "look", ~courier'.excused
      PROVE  courier'.url = Parcel'.url /\ pulls'[courier'.url][courier'.pull].from = "own"
  <2>1. u = Parcel.url /\ courier'.pull \in PullFor(u)
    BY <1>1, <1>4
  <2>2. CASE u \in GitHubUrls
    BY <1>1, <1>2, <2>1, <2>2 DEF PullFor, PullOnGitHub, Newest
  <2>3. CASE u \notin GitHubUrls
    <3>1. PICK n \in PullFor(u) : n \in OwnPulls(u)
      BY <1>1, <1>4, <2>3
    <3>2. PICK S : S = {m \in FirstPage(u) : pulls[u][m].from \in {"own", "fork"}}
      OBVIOUS
    <3>3. S \subseteq Nat /\ PullFor(u) = Newest(S)
      BY <2>3, <3>2, Domains, FoundIs DEF PullFor, PullOnGitea, FirstPage
    <3>4. courier'.pull = n
      BY <2>1, <3>1, <3>3, NewestOne
    <3> QED
      BY <1>1, <1>2, <2>1, <3>1, <3>4 DEF OwnPulls
  <2> QED
    BY <2>2, <2>3
<1>5. ASSUME courier'.pc = "webhook", courier'.owed, ~courier'.excused
      PROVE  FALSE
  <2>1. u = Parcel.url /\ PullFor(u) = {} /\ OwnPulls(u) # {} /\ u \in GitHubUrls
    BY <1>1, <1>5
  <2>2. PICK S : S = OwnPulls(u)
    OBVIOUS
  <2>3. S \subseteq 1 .. Len(pulls[u]) /\ Len(pulls[u]) \in Nat
    BY <2>2, Domains DEF OwnPulls, OpenPulls
  <2>4. Newest(S) # {}
    BY <2>1, <2>2, <2>3, NewestIs
  <2> QED
    BY <2>1, <2>2, <2>4 DEF PullFor, PullOnGitHub, OwnPulls
<1>6. courier'.pc # "write"
  BY <1>1
<1> QED
  BY <1>3, <1>4, <1>5, <1>6 DEF Road, RoadPull, RoadTarget, RoadMiss, RoadTold

\* The adapter is the record's own where none is of a prefix.
LEMMA OwnAdapter ==
    ASSUME Bound, RoadUrl, courier.pc \in {"look", "write", "webhook"}, ~Astray
    PROVE  courier.url = Parcel.url
BY DEF Bound, RoadUrl, Astray, Strayed
\* A comment found by its identifier is the gate's own, on the pull request meant.
LEMMA IdIsFound ==
    ASSUME StickyShape, Bound, IdsStand, NoticesStand, RoadUrl, courier.pc = "look", ~Astray,
           NEW i \in KnownId
    PROVE  OursOn(courier.url, i,
                  IF Parcel.event = "resolved" THEN Parcel.loop ELSE courier.pull)
<1>1. courier.rec \in DOMAIN notices /\ Parcel \in NoticeSet /\ courier.url = Parcel.url
  BY ParcelIs, OwnAdapter
<1>2. PICK r, u : r = Parcel.repo /\ u = Parcel.url
  OBVIOUS
<1>3. r \in Mirrored /\ u \in Urls /\ ~Strayed(r, u) /\ courier.url = u
  BY <1>1, <1>2 DEF NoticeSet, Astray
<1>4. /\ r \notin movedRepos => u = upstreamOf[r]
      /\ \A j \in Parcel.sticky : OursOn(u, j, Parcel.loop)
  BY <1>1, <1>2, <1>3 DEF NoticesStand, Parcel
<1>5. CASE Parcel.event = "resolved"
  BY <1>3, <1>4, <1>5 DEF KnownId
<1>6. CASE Parcel.event # "resolved"
  <2>1. PICK x \in stickyOf : x[1] = r /\ x[2] = courier.pull /\ x[3] = i /\ i # 0
    BY <1>2, <1>6 DEF KnownId, StickyId, LoopOf
  <2>2. u = upstreamOf[r]
    BY <1>3, <1>4 DEF Strayed
  <2>3. OursOn(u, i, courier.pull)
    BY <1>3, <2>1, <2>2 DEF IdsStand
  <2> QED
    BY <1>3, <1>6, <2>3
<1> QED
  BY <1>5, <1>6

\* The gate's comment on the pull request is among those with the marker, unless there are more
\* comments than GitHub's first page holds.
LEMMA MarkIsFound ==
    ASSUME StickyShape, RemarksStand, courier.url \in Urls, ~BeyondScan,
           NEW i \in RemarksOn(courier.url, courier.pull), remarks[courier.url][i].by = "gate"
    PROVE  MarkedOn(courier.url, courier.pull) # {}
<1>1. PICK u, n : u = courier.url /\ n = courier.pull
  OBVIOUS
<1>2. PICK R : R = RemarksOn(u, n)
  OBVIOUS
<1>3. /\ R \subseteq 1 .. Len(remarks[u]) /\ Len(remarks[u]) \in Nat
      /\ i \in R /\ Marked(remarks[u][i])
  BY <1>1, <1>2, Domains DEF RemarksOn, RemarksStand, Marked
<1>4. CASE u \notin GitHubUrls
  <2>1. PICK S : S = {j \in R : Marked(remarks[u][j])}
    OBVIOUS
  <2>2. S \subseteq 1 .. Len(remarks[u]) /\ S # {}
    BY <1>3, <2>1
  <2>3. Newest(S) # {}
    BY <1>3, <2>2, NewestIs
  <2> QED
    BY <1>1, <1>2, <1>4, <2>1, <2>3 DEF MarkedOn, MarkedOnGitea
<1>5. CASE u \in GitHubUrls
  <2>0. IsFiniteSet(R)
    <3>1. PICK len : len = Len(remarks[u])
      OBVIOUS
    <3>2. R \subseteq 1 .. len /\ len \in Int
      BY <1>3, <3>1
    <3>3. IsFiniteSet(1 .. len)
      BY <3>2, FS_Interval
    <3> QED
      BY <3>2, <3>3, FS_Subset
  <2>1. Cardinality(R) <= ScanPage /\ ScanPage \in Nat
    <3>1. ~(Cardinality(R) > ScanPage) /\ ScanPage \in Nat
      BY <1>1, <1>2, <1>5, StickyAssumption DEF BeyondScan
    <3>2. Cardinality(R) \in Nat
      BY <2>0, FS_CardinalityType
    <3> QED
      BY <3>1, <3>2
  <2>3. PICK T : T = {j \in R : j < i}
    OBVIOUS
  <2>4. T \subseteq R /\ T # R
    BY <1>3, <2>3
  <2>5. /\ IsFiniteSet(T) /\ Cardinality(T) \in Nat /\ Cardinality(R) \in Nat
        /\ Cardinality(T) < Cardinality(R)
    BY <2>0, <2>4, FS_Subset, FS_CardinalityType
  <2>6. PICK S : S = {k \in R : /\ Marked(remarks[u][k])
                                /\ Cardinality({j \in R : j < k}) < ScanPage}
    OBVIOUS
  <2>7. i \in S
    BY <1>3, <2>1, <2>3, <2>5, <2>6
  <2>8. S \subseteq 1 .. Len(remarks[u]) /\ S # {}
    BY <1>3, <2>6, <2>7
  <2>9. Newest(S) # {}
    BY <1>3, <2>8, NewestIs
  <2> QED
    BY <1>1, <1>2, <1>5, <2>6, <2>9 DEF MarkedOn, MarkedOnGitHub
<1> QED
  BY <1>4, <1>5

LEMMA RoadLooks ==
    ASSUME StickyShape, Bound, RemarksStand, IdsStand, NoticesStand, Road, NEW failing,
           LookUp(failing)
    PROVE  Road'
<1>1. /\ Parcel' = Parcel /\ courier'.url = courier.url /\ courier'.pull = courier.pull
      /\ courier'.pc = "write" /\ courier.pc = "look"
      /\ IF Answer(failing) = {} THEN courier'.target = 0
         ELSE courier'.target \in Answer(failing) /\ courier'.target # 0
      /\ courier'.owed <=> /\ courier.owed
                           /\ Parcel.event = "resolved" => CommentOf(Parcel.loop) # {}
      /\ courier'.excused <=> \/ courier.excused
                              \/ Parcel.event = "resolved" /\ MayMiss(failing)
  BY LooksUp
<1>2. remarks' = remarks /\ pulls' = pulls /\ movedRepos' = movedRepos
  BY DEF LookUp, forge, upstreams
<1>3. courier.url \in Urls /\ RoadUrl
  BY <1>1 DEF Bound, Road
<1>4. RoadUrl' /\ RoadPull'
  BY <1>1, <1>2 DEF Road, RoadUrl, RoadPull
<1>5. Astray' <=> Astray
  BY <1>1, <1>2 DEF Astray, Strayed
<1>6. RoadTarget'
  <2>1. CASE courier'.target # 0
    <3>1. PICK u, i, c, n : /\ u = courier.url /\ i = courier'.target /\ c = remarks[u][i]
                            /\ n = IF Parcel.event = "resolved" THEN Parcel.loop ELSE courier.pull
      OBVIOUS
    <3>2. /\ i \in DOMAIN remarks[u]
          /\ c.by = "gate" \/ c.marker \/ Astray
          /\ ~courier'.excused /\ ~Astray => c.pull = n
      <4>1. CASE ById(failing) # {}
        <5>1. i \in ById(failing)
          BY <1>1, <2>1, <3>1, <4>1 DEF Answer
        <5>2. i \in KnownId /\ i \in DOMAIN remarks[u]
          BY <1>3, <3>1, <5>1, FoundIs DEF ById
        <5>3. ~Astray => OursOn(u, i, n)
          BY <1>1, <1>3, <3>1, <5>2, IdIsFound
        <5> QED
          BY <3>1, <5>2, <5>3 DEF OursOn
      <4>2. CASE ById(failing) = {}
        <5>1. i \in ByMark(failing)
          BY <1>1, <2>1, <3>1, <4>2 DEF Answer
        <5>2. i \in MarkedOn(u, courier.pull)
          BY <3>1, <5>1 DEF ByMark
        <5>3. i \in RemarksOn(u, courier.pull) /\ c.marker /\ i \in DOMAIN remarks[u]
          BY <1>3, <3>1, <5>2, FoundIs
        <5>4. c.pull = courier.pull
          BY <3>1, <5>3 DEF RemarksOn
        <5>5. ~courier'.excused /\ Parcel.event = "resolved" => courier.pull = Parcel.loop
          BY <1>1, <4>2 DEF MayMiss, Elsewhere
        <5> QED
          BY <3>1, <5>3, <5>4, <5>5
      <4> QED
        BY <4>1, <4>2
    <3> QED
      BY <1>1, <1>2, <1>5, <3>1, <3>2 DEF RoadTarget
  <2>2. CASE courier'.target = 0
    BY <2>2 DEF RoadTarget
  <2> QED
    BY <2>1, <2>2
<1>7. RoadMiss'
  <2> SUFFICES ASSUME courier'.target = 0, Parcel.event = "resolved", courier'.owed,
                      ~courier'.excused
               PROVE  FALSE
    BY <1>1 DEF RoadMiss
  <2>1. ~MayMiss(failing) /\ CommentOf(Parcel.loop) # {} /\ Answer(failing) = {}
    BY <1>1
  <2>2. /\ ById(failing) = {} /\ ByMark(failing) = {} /\ failing = {} /\ ~BeyondScan
        /\ courier.pull = Parcel.loop
    BY <2>1 DEF MayMiss, Answer, Elsewhere
  <2>3. MarkedOn(courier.url, courier.pull) = {}
    BY <2>2 DEF ByMark
  <2>4. PICK i \in RemarksOn(courier.url, courier.pull) : remarks[courier.url][i].by = "gate"
    BY <2>1, <2>2 DEF CommentOf
  <2> QED
    BY <1>3, <2>2, <2>3, <2>4, MarkIsFound
<1>8. RoadTold'
  BY <1>1 DEF RoadTold
<1> QED
  BY <1>4, <1>6, <1>7, <1>8 DEF Road

LEMMA RoadUpdates ==
    ASSUME StickyShape, Bound, RemarksStand, Road, UpdateComment
    PROVE  Road'
<1>1. courier.pc = "write" /\ courier.target # 0
  BY DEF UpdateComment
<1>2. PICK c : c = remarks[courier.url][courier.target]
  OBVIOUS
<1>3. /\ courier.target \in DOMAIN remarks[courier.url]
      /\ ~courier.excused /\ ~Astray =>
            c.pull = IF Parcel.event = "resolved" THEN Parcel.loop ELSE courier.pull
  BY <1>1, <1>2 DEF Road, RoadTarget
<1>4. /\ Parcel' = Parcel /\ courier'.url = courier.url /\ courier'.pc = "webhook"
      /\ courier'.excused <=> courier.excused \/ Astray
      /\ courier'.told <=> Tells(c.pull)
  BY <1>2, <1>3, Updates
<1>5. RoadUrl'
  BY <1>1, <1>4 DEF Road, RoadUrl
<1>6. ASSUME ~courier'.excused
      PROVE  courier'.told
  <2>1. /\ ~courier.excused /\ ~Astray /\ courier.url = Parcel.url
        /\ pulls[courier.url][courier.pull].from = "own"
    BY <1>1, <1>4, <1>6 DEF Road, RoadPull
  <2>2. Tells(c.pull)
    BY <1>3, <2>1 DEF Tells
  <2> QED
    BY <1>4, <2>2
<1> QED
  BY <1>4, <1>5, <1>6 DEF Road, RoadPull, RoadTarget, RoadMiss, RoadTold

LEMMA RoadCreates ==
    ASSUME StickyShape, Bound, RemarksStand, Road, CreateComment
    PROVE  Road'
<1>1. courier.pc = "write" /\ Parcel.event = "rejected"
  BY DEF CreateComment
<1>2. /\ Parcel' = Parcel /\ courier'.url = courier.url /\ courier'.pc = "webhook"
      /\ courier'.excused = courier.excused /\ (courier'.told <=> Tells(courier.pull))
  BY Creates
<1>3. RoadUrl'
  BY <1>1, <1>2 DEF Road, RoadUrl
<1>4. ~courier.excused => Tells(courier.pull)
  BY <1>1 DEF Road, RoadPull, Tells
<1> QED
  BY <1>2, <1>3, <1>4 DEF Road, RoadPull, RoadTarget, RoadMiss, RoadTold

LEMMA RoadResolves ==
    ASSUME StickyShape, Bound, RemarksStand, Road, NothingToResolve
    PROVE  Road'
<1>1. courier.pc = "write" /\ Parcel.event = "resolved" /\ courier.target = 0
  BY DEF NothingToResolve
<1>2. /\ Parcel' = Parcel /\ courier'.url = courier.url /\ courier'.pc = "webhook"
      /\ courier'.excused = courier.excused /\ courier'.owed = courier.owed
  BY Resolves
<1>3. RoadUrl'
  BY <1>1, <1>2 DEF Road, RoadUrl
<1>4. courier.owed => courier.excused
  BY <1>1 DEF Road, RoadMiss
<1> QED
  BY <1>2, <1>3, <1>4 DEF Road, RoadPull, RoadTarget, RoadMiss, RoadTold
-----------------------------------------------------------------------------
(* The invariant, and what it says.                                        *)

StickyInv ==
    /\ StickyShape /\ Bound /\ RemarksStand /\ IdsStand /\ NoticesStand /\ Road
    /\ RightRepository /\ TakenMeansTold

LEMMA StickyQuiet ==
    ASSUME StickyShape, StickyShape', IdsStand, NoticesStand, Grows,
           stickyOf' \subseteq stickyOf, DOMAIN notices' = DOMAIN notices
    PROVE  IdsStand' /\ NoticesStand'
<1>1. IdsStand'
  <2>1. \A x \in stickyOf' \ stickyOf :
           x[3] = 0 \/ Strayed(x[1], upstreamOf[x[1]])' \/ OursOn(upstreamOf[x[1]], x[3], x[2])'
    OBVIOUS
  <2> QED
    BY <2>1, IdsFollow
<1>2. NoticesStand'
  <2>1. \A k \in DOMAIN notices' \ DOMAIN notices :
           \E r \in Mirrored, event \in {"rejected", "resolved"}, n \in Nat :
              notices'[k] = Notice(r, event, n)
    OBVIOUS
  <2> QED
    BY <2>1, NoticesFollow
<1> QED
  BY <1>1, <1>2

\* What is written on the road is right.
LEMMA RightFollows ==
    ASSUME RightRepository, Bound, RoadUrl, courier.pc = "write",
           \A u \in Urls : \A i \in DOMAIN remarks'[u] :
              \/ i \in DOMAIN remarks[u] /\ remarks'[u][i] = remarks[u][i]
              \/ u = courier.url /\ remarks'[u][i].about = Parcel.url
    PROVE  RightRepository'
BY DEF RightRepository, RoadUrl

LEMMA HooksStep ==
    ASSUME StickyInv, NEW r \in Mirrored, NotifyReject(r) \/ NotifyResolved(r)
    PROVE  StickyInv'
<1>1. /\ StickyShape /\ Bound /\ RemarksStand /\ IdsStand /\ NoticesStand /\ Road
      /\ RightRepository /\ TakenMeansTold
  BY DEF StickyInv
<1>2. /\ StickyShape' /\ Bound' /\ RemarksStand' /\ Grows
      /\ \A k \in DOMAIN notices' \ DOMAIN notices :
            \E event \in {"rejected", "resolved"}, n \in Nat : notices'[k] = Notice(r, event, n)
      /\ UNCHANGED <<upstreams, forge, courier, taken>> /\ stickyOf' \subseteq stickyOf
  <2>1. CASE NotifyReject(r)
    BY <1>1, <2>1, RejectsStep
  <2>2. CASE NotifyResolved(r)
    BY <1>1, <2>2, Accepts
  <2> QED
    BY <2>1, <2>2
<1>3. IdsStand'
  <2>1. \A x \in stickyOf' \ stickyOf :
           x[3] = 0 \/ Strayed(x[1], upstreamOf[x[1]])' \/ OursOn(upstreamOf[x[1]], x[3], x[2])'
    BY <1>2
  <2> QED
    BY <1>1, <1>2, <2>1, IdsFollow
<1>4. NoticesStand'
  <2>1. \A k \in DOMAIN notices' \ DOMAIN notices :
           \E q \in Mirrored, event \in {"rejected", "resolved"}, n \in Nat :
              notices'[k] = Notice(q, event, n)
    BY <1>2
  <2> QED
    BY <1>1, <1>2, <2>1, NoticesFollow
<1>5. Road'
  BY <1>1, <1>2, RoadFollows
<1>6. RightRepository' /\ TakenMeansTold'
  BY <1>1, <1>2 DEF RightRepository, TakenMeansTold, forge
<1> QED
  BY <1>2, <1>3, <1>4, <1>5, <1>6 DEF StickyInv

\* A pass that begins, a record that is taken or given up.
LEMMA PassStep ==
    ASSUME StickyInv, BeginPass \/ TakeRecord \/ NoAdapter \/ UpdateRefused \/ RequestFails
    PROVE  StickyInv'
<1>1. /\ StickyShape /\ Bound /\ RemarksStand /\ IdsStand /\ NoticesStand /\ Road
      /\ RightRepository /\ TakenMeansTold
  BY DEF StickyInv
<1>2. /\ StickyShape' /\ Bound' /\ RemarksStand' /\ Grows
      /\ UNCHANGED <<forge, stickyOf, taken>> /\ DOMAIN notices' = DOMAIN notices
      /\ courier'.pc \in {"idle", "find"}
  <2>1. CASE BeginPass \/ TakeRecord
    <3>1. StickyShape' /\ Bound' /\ RemarksStand' /\ Grows
      BY <1>1, <2>1, Pass
    <3>2. courier'.pc \in {"idle", "find"}
      BY <1>1, <2>1 DEF BeginPass, TakeRecord, NoParcel, StickyShape, ParcelSet
    <3>3. UNCHANGED <<forge, stickyOf, notices, taken>>
      BY <2>1 DEF BeginPass, TakeRecord
    <3> QED
      BY <3>1, <3>2, <3>3
  <2>2. CASE NoAdapter \/ UpdateRefused \/ RequestFails
    <3>1. GiveUp /\ courier.pc # "idle"
      BY <2>2 DEF NoAdapter, UpdateRefused, RequestFails
    <3>2. StickyShape' /\ Bound' /\ RemarksStand' /\ Grows
      BY <1>1, <3>1, GivesUp
    <3>3. courier' = Between("idle") /\ UNCHANGED <<forge, stickyOf, taken>>
          /\ DOMAIN notices' = DOMAIN notices
      BY <3>1 DEF GiveUp
    <3>4. courier'.pc = "idle"
      BY <1>1, <3>3, BetweenIs
    <3> QED
      BY <3>2, <3>3, <3>4
  <2> QED
    BY <2>1, <2>2
<1>3. IdsStand' /\ NoticesStand'
  BY <1>1, <1>2, StickyQuiet
<1>4. Road'
  BY <1>2, RoadIdle
<1>5. RightRepository' /\ TakenMeansTold'
  BY <1>1, <1>2 DEF RightRepository, TakenMeansTold, forge
<1> QED
  BY <1>2, <1>3, <1>4, <1>5 DEF StickyInv

LEMMA SearchStep ==
    ASSUME StickyInv,
           \/ \E u \in Urls : FindPull(u)
           \/ \E failing \in SUBSET {"id", "scan"} : LookUp(failing)
           \/ NothingToResolve
    PROVE  StickyInv'
<1>1. /\ StickyShape /\ Bound /\ RemarksStand /\ IdsStand /\ NoticesStand /\ Road
      /\ RightRepository /\ TakenMeansTold
  BY DEF StickyInv
<1>2. UNCHANGED <<forge, stickyOf, notices, taken>>
  BY DEF FindPull, LookUp, NothingToResolve
<1>3. StickyShape' /\ Bound' /\ RemarksStand' /\ Grows
  BY <1>1, Finds, LooksUp, Resolves
<1>4. Road'
  BY <1>1, RoadFinds, RoadLooks, RoadResolves
<1>5. IdsStand' /\ NoticesStand'
  BY <1>1, <1>2, <1>3, StickyQuiet
<1>6. RightRepository' /\ TakenMeansTold'
  BY <1>1, <1>2 DEF RightRepository, TakenMeansTold, forge
<1> QED
  BY <1>3, <1>4, <1>5, <1>6 DEF StickyInv

LEMMA UpdateStep ==
    ASSUME StickyInv, UpdateComment
    PROVE  StickyInv'
<1>1. /\ StickyShape /\ Bound /\ RemarksStand /\ IdsStand /\ NoticesStand /\ Road
      /\ RightRepository /\ TakenMeansTold
  BY DEF StickyInv
<1>2. courier.pc = "write" /\ courier.target \in DOMAIN remarks[courier.url]
  BY <1>1 DEF UpdateComment, Road, RoadTarget
<1>3. /\ StickyShape' /\ Bound' /\ RemarksStand' /\ Grows
      /\ \A u \in Urls : \A i \in DOMAIN remarks'[u] :
            \/ i \in DOMAIN remarks[u] /\ remarks'[u][i] = remarks[u][i]
            \/ u = courier.url /\ remarks'[u][i].about = Parcel.url
      /\ notices' = notices /\ taken' = taken /\ \A x \in stickyOf' \ stickyOf : x[3] = 0
  BY <1>1, <1>2, Updates
<1>4. IdsStand'
  <2>1. \A x \in stickyOf' \ stickyOf :
           x[3] = 0 \/ Strayed(x[1], upstreamOf[x[1]])' \/ OursOn(upstreamOf[x[1]], x[3], x[2])'
    BY <1>3
  <2> QED
    BY <1>1, <1>3, <2>1, IdsFollow
<1>5. NoticesStand'
  <2>1. \A k \in DOMAIN notices' \ DOMAIN notices :
           \E r \in Mirrored, event \in {"rejected", "resolved"}, n \in Nat :
              notices'[k] = Notice(r, event, n)
    BY <1>3
  <2> QED
    BY <1>1, <1>3, <2>1, NoticesFollow
<1>6. Road'
  BY <1>1, RoadUpdates
<1>7. RightRepository' /\ TakenMeansTold'
  BY <1>1, <1>2, <1>3, RightFollows DEF Road, TakenMeansTold
<1> QED
  BY <1>3, <1>4, <1>5, <1>6, <1>7 DEF StickyInv

LEMMA CreateStep ==
    ASSUME StickyInv, CreateComment \/ AnswerLost
    PROVE  StickyInv'
<1>1. /\ StickyShape /\ Bound /\ RemarksStand /\ IdsStand /\ NoticesStand /\ Road
      /\ RightRepository /\ TakenMeansTold
  BY DEF StickyInv
<1>2. /\ courier.pc = "write" /\ Posted /\ pulls' = pulls /\ taken' = taken
      /\ DOMAIN notices' = DOMAIN notices
  BY DEF CreateComment, AnswerLost
<1>3. RightRepository'
  <2>1. \A u \in Urls : \A i \in DOMAIN remarks'[u] :
           \/ i \in DOMAIN remarks[u] /\ remarks'[u][i] = remarks[u][i]
           \/ u = courier.url /\ remarks'[u][i].about = Parcel.url
    BY <1>1, <1>2, Posts
  <2> QED
    BY <1>1, <1>2, <2>1, RightFollows DEF Road
<1>4. StickyShape' /\ Bound' /\ RemarksStand' /\ Grows
  BY <1>1, Creates, LosesAnswer
<1>5. TakenMeansTold'
  BY <1>1, <1>2 DEF TakenMeansTold
<1>6. CASE CreateComment
  <2>1. /\ UNCHANGED <<upstreamOf, movedRepos, notices>>
        /\ \A x \in stickyOf' \ stickyOf :
              /\ x[1] = Parcel.repo /\ x[2] = courier.pull
              /\ OursOn(courier.url, x[3], courier.pull)'
        /\ courier'.url = courier.url /\ courier'.pull = courier.pull
    BY <1>1, <1>6, Creates
  <2>2. ASSUME NEW x \in stickyOf' \ stickyOf, ~Strayed(x[1], upstreamOf[x[1]])'
        PROVE  OursOn(upstreamOf[x[1]], x[3], x[2])'
    <3>1. PICK r, u, n, i : r = Parcel.repo /\ u = upstreamOf[r] /\ n = courier.pull /\ i = x[3]
      OBVIOUS
    <3>2. x[1] = r /\ x[2] = n /\ upstreamOf'[r] = u
      BY <2>1, <3>1
    <3>3. r \notin movedRepos /\ \A v \in Urls : <<v, u>> \notin PrefixPairs
      BY <2>1, <2>2, <3>2 DEF Strayed
    <3>4. Parcel.url = u
      BY <1>1, <1>2, <3>1, <3>3, ParcelIs DEF NoticesStand, Parcel
    <3>5. courier.url = u
      BY <1>1, <1>2, <3>3, <3>4 DEF Road, RoadUrl, Bound
    <3>6. courier.url \in Urls
      BY <1>1, <1>2 DEF Bound
    <3>7. OursOn(u, i, n)'
      <4>1. OursOn(courier.url, x[3], courier.pull)'
        BY <2>1, <2>2
      <4>2. courier'.url = u /\ courier'.pull = n
        BY <2>1, <3>1, <3>5
      <4> QED
        BY <3>1, <4>1, <4>2 DEF OursOn
    <3> QED
      BY <3>1, <3>2, <3>7 DEF OursOn
  <2>3. IdsStand'
    <3>1. \A x \in stickyOf' \ stickyOf :
             x[3] = 0 \/ Strayed(x[1], upstreamOf[x[1]])' \/ OursOn(upstreamOf[x[1]], x[3], x[2])'
      BY <2>2
    <3> QED
      BY <1>1, <1>4, <3>1, IdsFollow
  <2>4. NoticesStand'
    <3>1. \A k \in DOMAIN notices' \ DOMAIN notices :
             \E r \in Mirrored, event \in {"rejected", "resolved"}, n \in Nat :
                notices'[k] = Notice(r, event, n)
      BY <1>2
    <3> QED
      BY <1>1, <1>4, <3>1, NoticesFollow
  <2>5. Road'
    BY <1>1, <1>6, RoadCreates
  <2> QED
    BY <1>3, <1>4, <1>5, <2>3, <2>4, <2>5 DEF StickyInv
<1>7. CASE AnswerLost
  <2>1. courier' = Between("idle") /\ stickyOf' = stickyOf
    BY <1>7 DEF AnswerLost
  <2>2. IdsStand' /\ NoticesStand'
    BY <1>1, <1>2, <1>4, <2>1, StickyQuiet
  <2>3. Road'
    BY <1>1, <2>1, BetweenIs, RoadIdle
  <2> QED
    BY <1>3, <1>4, <1>5, <2>2, <2>3 DEF StickyInv
<1> QED
  BY <1>6, <1>7

LEMMA FireStep ==
    ASSUME StickyInv, FireWebhook
    PROVE  StickyInv'
<1>1. /\ StickyShape /\ Bound /\ RemarksStand /\ IdsStand /\ NoticesStand /\ Road
      /\ RightRepository /\ TakenMeansTold
  BY DEF StickyInv
<1>2. StickyShape' /\ Bound' /\ RemarksStand' /\ Grows
  BY <1>1, Fires
<1>3. PICK t : t = [rec |-> courier.rec, owed |-> courier.owed, told |-> courier.told,
                    excused |-> courier.excused]
  OBVIOUS
<1>4. /\ UNCHANGED <<forge, stickyOf, notices>> /\ courier.pc = "webhook"
      /\ taken' = taken \cup {t} /\ courier' = Between("idle")
  BY <1>3 DEF FireWebhook
<1>5. t.owed => t.told \/ t.excused
  BY <1>1, <1>3, <1>4 DEF Road, RoadTold
<1>6. TakenMeansTold' /\ RightRepository'
  BY <1>1, <1>4, <1>5 DEF TakenMeansTold, RightRepository, forge
<1>7. IdsStand' /\ NoticesStand'
  BY <1>1, <1>2, <1>4, StickyQuiet
<1>8. Road'
  BY <1>1, <1>4, BetweenIs, RoadIdle
<1> QED
  BY <1>2, <1>6, <1>7, <1>8 DEF StickyInv

LEMMA OutsideStep ==
    ASSUME StickyInv,
           \/ \E u \in Urls, from \in Origins : OpenPull(u, from)
           \/ \E u \in Urls : \E n \in OpenPulls(u) : ClosePull(u, n)
           \/ \E u \in Urls : \E n \in OpenPulls(u) : \E quotes \in BOOLEAN : Remark(u, n, quotes)
           \/ \E u \in Urls : \E i \in DOMAIN remarks[u] : DeleteRemark(u, i)
           \/ \E r \in Mirrored, u \in Urls : PointUpstream(r, u)
    PROVE  StickyInv'
<1>1. /\ StickyShape /\ Bound /\ RemarksStand /\ IdsStand /\ NoticesStand /\ Road
      /\ RightRepository /\ TakenMeansTold
  BY DEF StickyInv
<1>2. /\ StickyShape' /\ Bound' /\ RemarksStand' /\ Grows /\ RightRepository'
      /\ UNCHANGED <<stickyOf, notices, courier, taken>>
  <2>1. CASE \/ \E u \in Urls, from \in Origins : OpenPull(u, from)
             \/ \E u \in Urls : \E n \in OpenPulls(u) : ClosePull(u, n)
    <3>1. PICK u \in Urls : \/ \E from \in Origins : OpenPull(u, from)
                            \/ \E n \in OpenPulls(u) : ClosePull(u, n)
      BY <2>1
    <3>2. /\ StickyShape' /\ Bound' /\ RemarksStand' /\ Grows
          /\ UNCHANGED <<remarks, stickyOf, notices, courier, taken>>
      BY <1>1, <3>1, PullsMove
    <3> QED
      BY <1>1, <3>2 DEF RightRepository
  <2>2. CASE \/ \E u \in Urls : \E n \in OpenPulls(u) : \E quotes \in BOOLEAN : Remark(u, n, quotes)
             \/ \E u \in Urls : \E i \in DOMAIN remarks[u] : DeleteRemark(u, i)
    <3>1. PICK u \in Urls : \/ \E n \in OpenPulls(u), quotes \in BOOLEAN : Remark(u, n, quotes)
                            \/ \E i \in DOMAIN remarks[u] : DeleteRemark(u, i)
      BY <2>2
    <3>2. /\ StickyShape' /\ Bound' /\ RemarksStand' /\ Grows
          /\ UNCHANGED <<stickyOf, notices, courier, taken>>
          /\ \A v \in Urls : \A i \in DOMAIN remarks'[v] :
                \/ /\ i \in DOMAIN remarks[v] /\ remarks'[v][i].shows = remarks[v][i].shows
                   /\ remarks'[v][i].about = remarks[v][i].about
                \/ i \notin DOMAIN remarks[v] /\ remarks'[v][i].shows = 0
      BY <1>1, <3>1, PeopleWrite
    <3> QED
      BY <1>1, <3>2 DEF RightRepository
  <2>3. CASE \E r \in Mirrored, u \in Urls : PointUpstream(r, u)
    <3>1. /\ StickyShape' /\ Bound' /\ RemarksStand' /\ Grows
          /\ UNCHANGED <<forge, stickyOf, notices, courier, taken>>
      BY <1>1, <2>3, Points
    <3> QED
      BY <1>1, <3>1 DEF RightRepository, forge
  <2> QED
    BY <2>1, <2>2, <2>3
<1>3. IdsStand' /\ NoticesStand'
  BY <1>1, <1>2, StickyQuiet
<1>4. Road'
  BY <1>1, <1>2, RoadFollows
<1>5. TakenMeansTold'
  BY <1>1, <1>2 DEF TakenMeansTold
<1> QED
  BY <1>2, <1>3, <1>4, <1>5 DEF StickyInv

LEMMA StutterStep ==
    ASSUME StickyInv, UNCHANGED stickyVars
    PROVE  StickyInv'
<1>1. /\ upstreamOf' = upstreamOf /\ movedRepos' = movedRepos /\ pulls' = pulls
      /\ remarks' = remarks /\ stickyOf' = stickyOf /\ notices' = notices
      /\ pending' = pending /\ courier' = courier /\ taken' = taken
  BY DEF stickyVars
<1>2. StickyShape' /\ Bound'
  BY <1>1 DEF StickyInv, StickyShape, Bound
<1>3. RemarksStand' /\ IdsStand' /\ NoticesStand'
  BY <1>1 DEF StickyInv, RemarksStand, IdsStand, NoticesStand, OursOn, Strayed
<1>4. Road'
  BY <1>1 DEF StickyInv, Road, RoadUrl, RoadPull, RoadTarget, RoadMiss, RoadTold, Parcel, Astray,
              Strayed
<1>5. RightRepository' /\ TakenMeansTold'
  BY <1>1 DEF StickyInv, RightRepository, TakenMeansTold
<1> QED
  BY <1>2, <1>3, <1>4, <1>5 DEF StickyInv

LEMMA StickyStart == StickyInit => StickyInv
<1> SUFFICES ASSUME StickyInit
             PROVE  StickyInv
  OBVIOUS
<1>1. /\ upstreamOf = FirstUpstream /\ movedRepos = {} /\ pulls = FirstPulls
      /\ remarks = [u \in Urls |-> <<>>] /\ stickyOf = {} /\ notices = <<>> /\ pending = {}
      /\ courier = NoParcel /\ taken = {}
  BY DEF StickyInit
<1>2. pulls \in [Urls -> Seq(PullSet)] /\ upstreamOf \in [Mirrored -> Urls]
  BY <1>1, StickyAssumption DEF PullSet
<1>3. /\ \A u \in Urls : remarks[u] \in Seq(RemarkSet) /\ DOMAIN remarks[u] = {}
      /\ remarks \in [Urls -> Seq(RemarkSet)]
  <2>1. <<>> \in Seq(RemarkSet) /\ DOMAIN <<>> = {}
    BY EmptySeq
  <2> QED
    BY <1>1, <2>1
<1>4. notices \in Seq(NoticeSet) /\ DOMAIN notices = {}
  BY <1>1
<1>5. courier \in ParcelSet /\ courier.pc = "idle" /\ courier.todo = {} /\ courier.rec = 0
  BY <1>1 DEF NoParcel, ParcelSet
<1>6. IsFiniteSet({})
  BY FS_EmptySet
<1>7. StickyShape
  BY <1>1, <1>2, <1>3, <1>4, <1>5, <1>6 DEF StickyShape
<1>8. Bound
  BY <1>1, <1>4, <1>5 DEF Bound
<1>9. RemarksStand /\ IdsStand /\ NoticesStand
  BY <1>1, <1>3, <1>4 DEF RemarksStand, IdsStand, NoticesStand
<1>10. Road
  BY <1>5 DEF Road, RoadUrl, RoadPull, RoadTarget, RoadMiss, RoadTold
<1>11. RightRepository /\ TakenMeansTold
  BY <1>1, <1>3 DEF RightRepository, TakenMeansTold
<1> QED
  BY <1>7, <1>8, <1>9, <1>10, <1>11 DEF StickyInv

LEMMA StickyByStep == ASSUME StickyInv, [StickyNext]_stickyVars PROVE StickyInv'
<1>1. CASE StickyNext
  BY <1>1, HooksStep, PassStep, SearchStep, UpdateStep, CreateStep, FireStep, OutsideStep
     DEF StickyNext
<1>2. CASE UNCHANGED stickyVars
  BY <1>2, StutterStep
<1> QED
  BY <1>1, <1>2

LEMMA StickyInvariant == StickySpec => []StickyInv
<1>1. StickyInv /\ [StickyNext]_stickyVars => StickyInv'
  BY StickyByStep
<1> QED
  BY <1>1, StickyStart, PTL DEF StickySpec

\* The queue, the comments and the loops' states have their shape, and nothing that was removed as
\* delivered is still in the queue.
THEOREM StickyTypeCorrect == StickySpec => []StickyTypeOK
<1>1. StickyInv => StickyTypeOK
  <2> SUFFICES ASSUME StickyShape, Bound, RemarksStand
               PROVE  StickyTypeOK
    BY DEF StickyInv
  <2>1. \A x \in stickyOf : x[1] \in Mirrored
    BY DEF StickyShape
  <2> QED
    BY <2>1 DEF StickyShape, Bound, RemarksStand, StickyTypeOK, ParcelSet
<1> QED
  BY <1>1, StickyInvariant, PTL

\* What the gate says about a push is said in the repository the push was for, or in one whose
\* address is a prefix of that one's, as LookupByURL takes it for an adapter.
THEOREM RightRepositoryCorrect == StickySpec => []RightRepository
<1>1. StickyInv => RightRepository
  BY DEF StickyInv
<1> QED
  BY <1>1, StickyInvariant, PTL

\* A record that processOne removed as delivered was shown on the branch's pull request if that
\* was open when it was looked for, or one of the named excuses holds.
THEOREM TakenMeansToldCorrect == StickySpec => []TakenMeansTold
<1>1. StickyInv => TakenMeansTold
  BY DEF StickyInv
<1> QED
  BY <1>1, StickyInvariant, PTL

\* UpdateComment replaces what a person wrote only where the marker was quoted, or where an
\* identifier may be another upstream's.
THEOREM WordsKeptCorrect == StickySpec => WordsKept
<1> DEFINE Kept == \A u \in Urls : \A i \in DOMAIN remarks[u] :
                      LET c == remarks[u][i]
                      IN  c.by # "gate" /\ remarks'[u][i].shows # c.shows =>
                             c.marker \/ Strayed(remarks'[u][i].repo, remarks'[u][i].about)
<1>1. ASSUME StickyInv, StickyNext
      PROVE  Kept
  <2>1. /\ StickyShape /\ Bound /\ RemarksStand /\ Road
    BY <1>1 DEF StickyInv
  <2>2. CASE UpdateComment
    <3>1. /\ courier.pc = "write" /\ courier.target # 0
          /\ courier.target \in DOMAIN remarks[courier.url]
      BY <2>1, <2>2 DEF UpdateComment, Road, RoadTarget
    <3>2. \A u \in Urls : \A i \in DOMAIN remarks'[u] :
             \/ i \in DOMAIN remarks[u] /\ remarks'[u][i] = remarks[u][i]
             \/ /\ u = courier.url /\ i = courier.target
                /\ remarks'[u][i].about = Parcel.url /\ remarks'[u][i].repo = Parcel.repo
      BY <2>1, <2>2, <3>1, Updates
    <3>3. \A u \in Urls : \A i \in DOMAIN remarks[u] : i \in DOMAIN remarks'[u]
      BY <2>1, <2>2, <3>1, Updates DEF Grows
    <3>4. LET c == remarks[courier.url][courier.target]
          IN  c.by = "gate" \/ c.marker \/ Strayed(Parcel.repo, Parcel.url)
      BY <2>1, <3>1 DEF Road, RoadTarget, Astray
    <3> QED
      BY <3>2, <3>3, <3>4
  <2>3. CASE CreateComment \/ AnswerLost
    <3>1. courier.pc = "write" /\ Posted /\ pulls' = pulls
      BY <2>3 DEF CreateComment, AnswerLost
    <3>2. \A u \in Urls : \A i \in DOMAIN remarks[u] : remarks'[u][i] = remarks[u][i]
      BY <2>1, <3>1, Posts
    <3> QED
      BY <3>2
  <2>4. CASE \/ \E u \in Urls : \E n \in OpenPulls(u) : \E quotes \in BOOLEAN : Remark(u, n, quotes)
             \/ \E u \in Urls : \E i \in DOMAIN remarks[u] : DeleteRemark(u, i)
    <3>1. PICK u \in Urls : \/ \E n \in OpenPulls(u), quotes \in BOOLEAN : Remark(u, n, quotes)
                            \/ \E i \in DOMAIN remarks[u] : DeleteRemark(u, i)
      BY <2>4
    <3>2. /\ Grows
          /\ \A v \in Urls : \A i \in DOMAIN remarks'[v] :
                i \in DOMAIN remarks[v] => remarks'[v][i].shows = remarks[v][i].shows
      BY <2>1, <3>1, PeopleWrite
    <3> QED
      BY <3>2 DEF Grows
  <2>5. CASE UNCHANGED remarks
    BY <2>5
  <2>6. \/ UpdateComment \/ CreateComment \/ AnswerLost \/ UNCHANGED remarks
        \/ \E u \in Urls : \E n \in OpenPulls(u) : \E quotes \in BOOLEAN : Remark(u, n, quotes)
        \/ \E u \in Urls : \E i \in DOMAIN remarks[u] : DeleteRemark(u, i)
    BY <1>1 DEF StickyNext, NotifyReject, NotifyResolved, BeginPass, TakeRecord, NoAdapter,
                FindPull, LookUp, UpdateRefused, NothingToResolve, RequestFails, FireWebhook,
                OpenPull, ClosePull, PointUpstream, GiveUp, forge
  <2> QED
    BY <2>2, <2>3, <2>4, <2>5, <2>6
<1>2. StickyInv /\ [StickyNext]_stickyVars => [Kept]_stickyVars
  BY <1>1
<1> QED
  BY <1>2, StickyInvariant, PTL DEF StickySpec, WordsKept
=============================================================================
