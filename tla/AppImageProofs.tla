--------------------------- MODULE AppImageProofs ---------------------------
(***************************************************************************)
(* Theorems about the choice of the application image and its loop mount,  *)
(* for every set of numbers, every modulus and every failing call.         *)
(***************************************************************************)
EXTENDS AppImage, SequenceTheorems, TLAPS

-----------------------------------------------------------------------------
(* Resources                                                               *)

\* The calls on the way out, after a failure and after the mount.
FailureCalls == <<"clear", "close file", "close loop", "remove", "close control">>
SuccessCalls == <<"close loop", "close control", "close file">>

\* s is the last n of a list of m calls.
LastOf(s, calls, m, n) ==
  /\ s \in Seq(Calls) /\ Len(s) = n
  /\ \A i \in 1 .. n : s[i] = calls[m - n + i]

\* What is open then.
Failing ==
  /\ container = "none"
  /\ \/ LastOf(todo, FailureCalls, 5, 0) /\ fds = {} /\ loop = "none"
     \/ LastOf(todo, FailureCalls, 5, 1) /\ fds = {"control"} /\ loop = "none"
     \/ LastOf(todo, FailureCalls, 5, 2) /\ fds = {"control"} /\ loop = "allocated"
     \/ LastOf(todo, FailureCalls, 5, 3) /\ fds = {"control", "loop"} /\ loop = "allocated"
     \/ LastOf(todo, FailureCalls, 5, 4) /\ fds = {"control", "loop", "file"} /\ loop = "allocated"
     \/ LastOf(todo, FailureCalls, 5, 5) /\ fds = {"control", "loop", "file"} /\ loop = "attached"

Succeeding ==
  /\ container = image /\ loop = "attached"
  /\ \/ LastOf(todo, SuccessCalls, 3, 0) /\ fds = {}
     \/ LastOf(todo, SuccessCalls, 3, 1) /\ fds = {"file"}
     \/ LastOf(todo, SuccessCalls, 3, 2) /\ fds = {"control", "file"}
     \/ LastOf(todo, SuccessCalls, 3, 3) /\ fds = {"control", "loop", "file"}

\* Each call of mount_application_image adds one resource.
Acquired(open, device) ==
  fds = open /\ loop = device /\ container = "none" /\ todo = <<>>

ResourceInv ==
  /\ pc \in PCs
  /\ ctx \in {"none", "initialised", "configured", "opened"}
  /\ pc # "env" => ctx = "none"
  /\ pc \in {"env", "exists", "control", "thrown"} => Acquired({}, "none")
  /\ pc = "free" => Acquired({"control"}, "none")
  /\ pc = "loop" => Acquired({"control"}, "allocated")
  /\ pc = "file" => Acquired({"control", "loop"}, "allocated")
  /\ pc = "attach" => Acquired({"control", "loop", "file"}, "allocated")
  /\ pc = "mount" => Acquired({"control", "loop", "file"}, "attached")
  /\ pc = "leave" => Failing \/ Succeeding
  /\ pc = "mounted" => fds = {} /\ loop = "attached" /\ container = image /\ todo = <<>>

-----------------------------------------------------------------------------
(* What was read                                                           *)

LEMMA ReadsAre ==
  /\ Last = 7
  /\ Reads[1] = "application" /\ Reads[2] = "BOOT_ORDER" /\ Reads[3] = "BOOT_ORDER_OLD"
  /\ Reads[4] = "rauc_cmd" /\ Reads[5] = "BOOT_A_LEFT" /\ Reads[6] = "BOOT_B_LEFT"
  /\ Reads[7] = "update_reboot_state"
BY DEF Last, Reads

\* The contents of the variables that were read and accepted.
Read == pc # "thrown" \/ image # "none"

ContentInv ==
  /\ next \in 1 .. Last + 1
  /\ pc = "env" => image = "none"
  /\ pc \notin {"env", "thrown"} => image # "none"
  /\ image \in {"none", "A", "B"}
  /\ image # "none" => next >= Last
  /\ Read =>
       /\ DOMAIN content = {Reads[i] : i \in 1 .. next - 1}
       /\ \A i \in 1 .. next - 1 :
            /\ content[Reads[i]] \in Contents(Reads[i])
            /\ Accepts(Reads[i], content[Reads[i]])
       /\ next = Last + 1 => FailedUpdate

\* One more variable leaves those read before as they were.
LEMMA ContentGrows ==
  ASSUME ContentInv, pc = "env", NEW c, next <= Last,
         content' = [v \in DOMAIN content \cup {Reads[next]} |->
                       IF v = Reads[next] THEN c ELSE content[v]]
  PROVE  /\ DOMAIN content' = {Reads[i] : i \in 1 .. next}
         /\ \A i \in 1 .. next - 1 : content'[Reads[i]] = content[Reads[i]]
         /\ content'[Reads[next]] = c
<1>1. next \in 1 .. 7 /\ DOMAIN content = {Reads[i] : i \in 1 .. next - 1}
  BY ReadsAre DEF ContentInv, Read
<1>2. \A i, j \in 1 .. 7 : Reads[i] = Reads[j] => i = j
  BY DEF Reads
<1>3. DOMAIN content' = DOMAIN content \cup {Reads[next]}
  OBVIOUS
<1>4. {Reads[i] : i \in 1 .. next} = {Reads[i] : i \in 1 .. next - 1} \cup {Reads[next]}
  <2>1. 1 .. next = (1 .. next - 1) \cup {next}
    BY <1>1
  <2> QED
    BY <2>1
<1>5. content'[Reads[next]] = c
  OBVIOUS
<1>6. ASSUME NEW i \in 1 .. next - 1 PROVE content'[Reads[i]] = content[Reads[i]]
  <2>1. Reads[i] \in DOMAIN content /\ Reads[i] # Reads[next]
    BY <1>1, <1>2
  <2> QED
    BY <2>1
<1> QED
  BY <1>1, <1>3, <1>4, <1>5, <1>6

LEMMA CallsAre ==
  /\ FailureCalls[1] = "clear" /\ FailureCalls[2] = "close file"
  /\ FailureCalls[3] = "close loop" /\ FailureCalls[4] = "remove"
  /\ FailureCalls[5] = "close control"
  /\ SuccessCalls[1] = "close loop" /\ SuccessCalls[2] = "close control"
  /\ SuccessCalls[3] = "close file"
BY DEF FailureCalls, SuccessCalls

\* The cleanup behind each call that can fail is the end of one list.
LEMMA CleanupIsLast ==
  /\ LastOf(<<>>, FailureCalls, 5, 0)
  /\ LastOf(<<"close control">>, FailureCalls, 5, 1)
  /\ LastOf(<<"remove", "close control">>, FailureCalls, 5, 2)
  /\ LastOf(<<"close loop", "remove", "close control">>, FailureCalls, 5, 3)
  /\ LastOf(<<"close file", "close loop", "remove", "close control">>, FailureCalls, 5, 4)
  /\ LastOf(<<"clear", "close file", "close loop", "remove", "close control">>, FailureCalls, 5, 5)
<1>0. LastOf(<<>>, FailureCalls, 5, 0)
  BY DEF LastOf
<1>1. LastOf(<<"close control">>, FailureCalls, 5, 1)
  <2> DEFINE s == <<"close control">>
  <2>1. s \in Seq(Calls) /\ Len(s) = 1
    BY DEF Calls
  <2>2. s[1] = "close control"
    OBVIOUS
  <2> HIDE DEF s
  <2>3. \A i \in 1 .. 1 : s[i] = FailureCalls[5 - 1 + i]
    <3> SUFFICES ASSUME NEW i \in 1 .. 1 PROVE s[i] = FailureCalls[5 - 1 + i]
      OBVIOUS
    <3>1. (i = 1 /\ 5 - 1 + i = 5)
      OBVIOUS
    <3> QED
      BY <2>2, <3>1, CallsAre
  <2> QED
    BY <2>1, <2>3 DEF LastOf, s
<1>2. LastOf(<<"remove", "close control">>, FailureCalls, 5, 2)
  <2> DEFINE s == <<"remove", "close control">>
  <2>1. s \in Seq(Calls) /\ Len(s) = 2
    BY DEF Calls
  <2>2. s[1] = "remove" /\ s[2] = "close control"
    OBVIOUS
  <2> HIDE DEF s
  <2>3. \A i \in 1 .. 2 : s[i] = FailureCalls[5 - 2 + i]
    <3> SUFFICES ASSUME NEW i \in 1 .. 2 PROVE s[i] = FailureCalls[5 - 2 + i]
      OBVIOUS
    <3>1. (i = 1 /\ 5 - 2 + i = 4) \/ (i = 2 /\ 5 - 2 + i = 5)
      OBVIOUS
    <3> QED
      BY <2>2, <3>1, CallsAre
  <2> QED
    BY <2>1, <2>3 DEF LastOf, s
<1>3. LastOf(<<"close loop", "remove", "close control">>, FailureCalls, 5, 3)
  <2> DEFINE s == <<"close loop", "remove", "close control">>
  <2>1. s \in Seq(Calls) /\ Len(s) = 3
    BY DEF Calls
  <2>2. s[1] = "close loop" /\ s[2] = "remove" /\ s[3] = "close control"
    OBVIOUS
  <2> HIDE DEF s
  <2>3. \A i \in 1 .. 3 : s[i] = FailureCalls[5 - 3 + i]
    <3> SUFFICES ASSUME NEW i \in 1 .. 3 PROVE s[i] = FailureCalls[5 - 3 + i]
      OBVIOUS
    <3>1. (i = 1 /\ 5 - 3 + i = 3) \/ (i = 2 /\ 5 - 3 + i = 4) \/ (i = 3 /\ 5 - 3 + i = 5)
      OBVIOUS
    <3> QED
      BY <2>2, <3>1, CallsAre
  <2> QED
    BY <2>1, <2>3 DEF LastOf, s
<1>4. LastOf(<<"close file", "close loop", "remove", "close control">>, FailureCalls, 5, 4)
  <2> DEFINE s == <<"close file", "close loop", "remove", "close control">>
  <2>1. s \in Seq(Calls) /\ Len(s) = 4
    BY DEF Calls
  <2>2. s[1] = "close file" /\ s[2] = "close loop" /\ s[3] = "remove" /\ s[4] = "close control"
    OBVIOUS
  <2> HIDE DEF s
  <2>3. \A i \in 1 .. 4 : s[i] = FailureCalls[5 - 4 + i]
    <3> SUFFICES ASSUME NEW i \in 1 .. 4 PROVE s[i] = FailureCalls[5 - 4 + i]
      OBVIOUS
    <3>1. (i = 1 /\ 5 - 4 + i = 2) \/ (i = 2 /\ 5 - 4 + i = 3) \/ (i = 3 /\ 5 - 4 + i = 4) \/ (i = 4 /\ 5 - 4 + i = 5)
      OBVIOUS
    <3> QED
      BY <2>2, <3>1, CallsAre
  <2> QED
    BY <2>1, <2>3 DEF LastOf, s
<1>5. LastOf(<<"clear", "close file", "close loop", "remove", "close control">>, FailureCalls, 5, 5)
  <2> DEFINE s == <<"clear", "close file", "close loop", "remove", "close control">>
  <2>1. s \in Seq(Calls) /\ Len(s) = 5
    BY DEF Calls
  <2>2. s[1] = "clear" /\ s[2] = "close file" /\ s[3] = "close loop" /\ s[4] = "remove" /\ s[5] = "close control"
    OBVIOUS
  <2> HIDE DEF s
  <2>3. \A i \in 1 .. 5 : s[i] = FailureCalls[5 - 5 + i]
    <3> SUFFICES ASSUME NEW i \in 1 .. 5 PROVE s[i] = FailureCalls[5 - 5 + i]
      OBVIOUS
    <3>1. (i = 1 /\ 5 - 5 + i = 1) \/ (i = 2 /\ 5 - 5 + i = 2) \/ (i = 3 /\ 5 - 5 + i = 3) \/ (i = 4 /\ 5 - 5 + i = 4) \/ (i = 5 /\ 5 - 5 + i = 5)
      OBVIOUS
    <3> QED
      BY <2>2, <3>1, CallsAre
  <2> QED
    BY <2>1, <2>3 DEF LastOf, s
<1> QED
  BY <1>0, <1>1, <1>2, <1>3, <1>4, <1>5

\* One call is made, the others remain.
LEMMA NextCall ==
  ASSUME NEW calls, NEW m \in Nat, NEW n \in Nat, n > 0, NEW s, LastOf(s, calls, m, n)
  PROVE  Head(s) = calls[m - n + 1] /\ LastOf(Tail(s), calls, m, n - 1)
<1>1. /\ s \in Seq(Calls) /\ Len(s) = n
      /\ \A i \in 1 .. n : s[i] = calls[m - n + i]
  BY DEF LastOf
<1>2. s # <<>>
  BY <1>1
<1>3. Head(s) = s[1]
  BY <1>1, <1>2
<1>4. /\ Tail(s) \in Seq(Calls) /\ Len(Tail(s)) = Len(s) - 1
      /\ \A i \in 1 .. Len(Tail(s)) : Tail(s)[i] = s[i + 1]
  BY <1>1, <1>2, HeadTailProperties
<1>5. \A i \in 1 .. n - 1 : Tail(s)[i] = calls[m - (n - 1) + i]
  <2> SUFFICES ASSUME NEW i \in 1 .. n - 1
               PROVE  Tail(s)[i] = calls[m - (n - 1) + i]
    OBVIOUS
  <2>1. i + 1 \in 1 .. n /\ i \in 1 .. Len(Tail(s))
        /\ m - (n - 1) + i = m - n + (i + 1)
    BY <1>1, <1>4
  <2> QED
    BY <1>1, <1>4, <2>1
<1> QED
  BY <1>1, <1>3, <1>4, <1>5 DEF LastOf

LEMMA LeaveCallStep ==
  ASSUME ResourceInv, LeaveCall
  PROVE  (Failing \/ Succeeding)'
<1>1. /\ pc = "leave" /\ todo # <<>> /\ container' = container /\ image' = image
      /\ fds' = fds \ Closes[Head(todo)] /\ todo' = Tail(todo)
      /\ loop' = CASE Head(todo) = "clear" -> "allocated"
                   [] Head(todo) = "remove" /\ "loop" \notin fds /\ loop = "allocated" -> "none"
                   [] OTHER -> loop
  BY DEF LeaveCall, Goto, env
<1>2. /\ Closes["close file"] = {"file"} /\ Closes["close loop"] = {"loop"}
      /\ Closes["close control"] = {"control"} /\ Closes["clear"] = {} /\ Closes["remove"] = {}
  BY DEF Closes, Calls
<1>3. /\ LastOf(todo, FailureCalls, 5, 1) =>
           Head(todo) = "close control" /\ LastOf(todo', FailureCalls, 5, 0)
      /\ LastOf(todo, FailureCalls, 5, 2) =>
           Head(todo) = "remove" /\ LastOf(todo', FailureCalls, 5, 1)
      /\ LastOf(todo, FailureCalls, 5, 3) =>
           Head(todo) = "close loop" /\ LastOf(todo', FailureCalls, 5, 2)
      /\ LastOf(todo, FailureCalls, 5, 4) =>
           Head(todo) = "close file" /\ LastOf(todo', FailureCalls, 5, 3)
      /\ LastOf(todo, FailureCalls, 5, 5) =>
           Head(todo) = "clear" /\ LastOf(todo', FailureCalls, 5, 4)
  <2>1. ASSUME LastOf(todo, FailureCalls, 5, 1)
        PROVE  Head(todo) = "close control" /\ LastOf(todo', FailureCalls, 5, 0)
    <3>1. Head(todo) = FailureCalls[5 - 1 + 1] /\ LastOf(Tail(todo), FailureCalls, 5, 1 - 1)
      BY <2>1, NextCall
    <3>2. 5 - 1 + 1 = 5 /\ 1 - 1 = 0
      OBVIOUS
    <3> QED
      BY <1>1, <3>1, <3>2, CallsAre
  <2>2. ASSUME LastOf(todo, FailureCalls, 5, 2)
        PROVE  Head(todo) = "remove" /\ LastOf(todo', FailureCalls, 5, 1)
    <3>1. Head(todo) = FailureCalls[5 - 2 + 1] /\ LastOf(Tail(todo), FailureCalls, 5, 2 - 1)
      BY <2>2, NextCall
    <3>2. 5 - 2 + 1 = 4 /\ 2 - 1 = 1
      OBVIOUS
    <3> QED
      BY <1>1, <3>1, <3>2, CallsAre
  <2>3. ASSUME LastOf(todo, FailureCalls, 5, 3)
        PROVE  Head(todo) = "close loop" /\ LastOf(todo', FailureCalls, 5, 2)
    <3>1. Head(todo) = FailureCalls[5 - 3 + 1] /\ LastOf(Tail(todo), FailureCalls, 5, 3 - 1)
      BY <2>3, NextCall
    <3>2. 5 - 3 + 1 = 3 /\ 3 - 1 = 2
      OBVIOUS
    <3> QED
      BY <1>1, <3>1, <3>2, CallsAre
  <2>4. ASSUME LastOf(todo, FailureCalls, 5, 4)
        PROVE  Head(todo) = "close file" /\ LastOf(todo', FailureCalls, 5, 3)
    <3>1. Head(todo) = FailureCalls[5 - 4 + 1] /\ LastOf(Tail(todo), FailureCalls, 5, 4 - 1)
      BY <2>4, NextCall
    <3>2. 5 - 4 + 1 = 2 /\ 4 - 1 = 3
      OBVIOUS
    <3> QED
      BY <1>1, <3>1, <3>2, CallsAre
  <2>5. ASSUME LastOf(todo, FailureCalls, 5, 5)
        PROVE  Head(todo) = "clear" /\ LastOf(todo', FailureCalls, 5, 4)
    <3>1. Head(todo) = FailureCalls[5 - 5 + 1] /\ LastOf(Tail(todo), FailureCalls, 5, 5 - 1)
      BY <2>5, NextCall
    <3>2. 5 - 5 + 1 = 1 /\ 5 - 1 = 4
      OBVIOUS
    <3> QED
      BY <1>1, <3>1, <3>2, CallsAre
  <2> QED
    BY <2>1, <2>2, <2>3, <2>4, <2>5
<1>4. /\ LastOf(todo, SuccessCalls, 3, 1) =>
           Head(todo) = "close file" /\ LastOf(todo', SuccessCalls, 3, 0)
      /\ LastOf(todo, SuccessCalls, 3, 2) =>
           Head(todo) = "close control" /\ LastOf(todo', SuccessCalls, 3, 1)
      /\ LastOf(todo, SuccessCalls, 3, 3) =>
           Head(todo) = "close loop" /\ LastOf(todo', SuccessCalls, 3, 2)
  <2>1. ASSUME LastOf(todo, SuccessCalls, 3, 1)
        PROVE  Head(todo) = "close file" /\ LastOf(todo', SuccessCalls, 3, 0)
    <3>1. Head(todo) = SuccessCalls[3 - 1 + 1] /\ LastOf(Tail(todo), SuccessCalls, 3, 1 - 1)
      BY <2>1, NextCall
    <3>2. 3 - 1 + 1 = 3 /\ 1 - 1 = 0
      OBVIOUS
    <3> QED
      BY <1>1, <3>1, <3>2, CallsAre
  <2>2. ASSUME LastOf(todo, SuccessCalls, 3, 2)
        PROVE  Head(todo) = "close control" /\ LastOf(todo', SuccessCalls, 3, 1)
    <3>1. Head(todo) = SuccessCalls[3 - 2 + 1] /\ LastOf(Tail(todo), SuccessCalls, 3, 2 - 1)
      BY <2>2, NextCall
    <3>2. 3 - 2 + 1 = 2 /\ 2 - 1 = 1
      OBVIOUS
    <3> QED
      BY <1>1, <3>1, <3>2, CallsAre
  <2>3. ASSUME LastOf(todo, SuccessCalls, 3, 3)
        PROVE  Head(todo) = "close loop" /\ LastOf(todo', SuccessCalls, 3, 2)
    <3>1. Head(todo) = SuccessCalls[3 - 3 + 1] /\ LastOf(Tail(todo), SuccessCalls, 3, 3 - 1)
      BY <2>3, NextCall
    <3>2. 3 - 3 + 1 = 1 /\ 3 - 1 = 2
      OBVIOUS
    <3> QED
      BY <1>1, <3>1, <3>2, CallsAre
  <2> QED
    BY <2>1, <2>2, <2>3
<1>5. CASE container = "none" /\ Failing
  <2>1. CASE LastOf(todo, FailureCalls, 5, 1) /\ fds = {"control"} /\ loop = "none"
    <3>1. Head(todo) = "close control" /\ LastOf(todo', FailureCalls, 5, 0)
      BY <1>3, <2>1, CallsAre
    <3> QED
      BY <1>1, <1>2, <1>5, <2>1, <3>1 DEF Failing
  <2>2. CASE LastOf(todo, FailureCalls, 5, 2) /\ fds = {"control"} /\ loop = "allocated"
    <3>1. Head(todo) = "remove" /\ LastOf(todo', FailureCalls, 5, 1)
      BY <1>3, <2>2, CallsAre
    <3> QED
      BY <1>1, <1>2, <1>5, <2>2, <3>1 DEF Failing
  <2>3. CASE LastOf(todo, FailureCalls, 5, 3) /\ fds = {"control", "loop"} /\ loop = "allocated"
    <3>1. Head(todo) = "close loop" /\ LastOf(todo', FailureCalls, 5, 2)
      BY <1>3, <2>3, CallsAre
    <3> QED
      BY <1>1, <1>2, <1>5, <2>3, <3>1 DEF Failing
  <2>4. CASE LastOf(todo, FailureCalls, 5, 4) /\ fds = {"control", "loop", "file"} /\ loop = "allocated"
    <3>1. Head(todo) = "close file" /\ LastOf(todo', FailureCalls, 5, 3)
      BY <1>3, <2>4, CallsAre
    <3> QED
      BY <1>1, <1>2, <1>5, <2>4, <3>1 DEF Failing
  <2>5. CASE LastOf(todo, FailureCalls, 5, 5) /\ fds = {"control", "loop", "file"} /\ loop = "attached"
    <3>1. Head(todo) = "clear" /\ LastOf(todo', FailureCalls, 5, 4)
      BY <1>3, <2>5, CallsAre
    <3> QED
      BY <1>1, <1>2, <1>5, <2>5, <3>1 DEF Failing
  <2>6. CASE LastOf(todo, FailureCalls, 5, 0)
    BY <1>1, <2>6, EmptySeq DEF LastOf
  <2> QED
    BY <1>5, <2>1, <2>2, <2>3, <2>4, <2>5, <2>6 DEF Failing
<1>6. CASE Succeeding
  <2>1. container' = image' /\ loop = "attached"
    BY <1>1, <1>6 DEF Succeeding
  <2>2. CASE LastOf(todo, SuccessCalls, 3, 1) /\ fds = {"file"}
    <3>1. Head(todo) = "close file" /\ LastOf(todo', SuccessCalls, 3, 0)
      BY <1>4, <2>2, CallsAre
    <3> QED
      BY <1>1, <1>2, <2>1, <2>2, <3>1 DEF Succeeding
  <2>3. CASE LastOf(todo, SuccessCalls, 3, 2) /\ fds = {"control", "file"}
    <3>1. Head(todo) = "close control" /\ LastOf(todo', SuccessCalls, 3, 1)
      BY <1>4, <2>3, CallsAre
    <3> QED
      BY <1>1, <1>2, <2>1, <2>3, <3>1 DEF Succeeding
  <2>4. CASE LastOf(todo, SuccessCalls, 3, 3) /\ fds = {"control", "loop", "file"}
    <3>1. Head(todo) = "close loop" /\ LastOf(todo', SuccessCalls, 3, 2)
      BY <1>4, <2>4, CallsAre
    <3> QED
      BY <1>1, <1>2, <2>1, <2>4, <3>1 DEF Succeeding
  <2>5. CASE LastOf(todo, SuccessCalls, 3, 0)
    BY <1>1, <2>5, EmptySeq DEF LastOf
  <2> QED
    BY <1>6, <2>2, <2>3, <2>4, <2>5 DEF Succeeding
<1> QED
  BY <1>1, <1>5, <1>6 DEF ResourceInv, Failing

\* Whichever call of the library failed, the context is given up whole.
LEMMA GivenUpIsNone ==
  ASSUME NEW c \in {"none", "initialised", "configured", "opened"}
  PROVE  GivenUp(c) = "none"
BY DEF GivenUp, ExitEnv, CloseEnv

LEMMA ResourceStep == ResourceInv /\ ContentInv /\ [Next]_vars => ResourceInv'
<1> SUFFICES ASSUME ResourceInv, ContentInv, [Next]_vars PROVE ResourceInv'
  OBVIOUS
<1>1. CASE Initialize \/ ReadConfig \/ OpenEnv
  BY <1>1 DEF Initialize, ReadConfig, OpenEnv, Proceed, Reading, dev, ResourceInv, Acquired
<1>2. CASE GetVariableFails \/ MissingVariable \/ GetVariable \/ DetermineImage
  <2>1. GivenUp(ctx) = "none"
    BY GivenUpIsNone DEF ResourceInv
  <2> QED
    BY <1>2, <2>1 DEF GetVariableFails, MissingVariable, GetVariable, DetermineImage, Reading,
                      Throw, dev, ResourceInv, Acquired, PCs
<1>3. CASE ImageFound \/ ImageNotFound \/ OpenControl \/ GetFreeDevice \/ OpenLoop
  BY <1>3 DEF ImageFound, ImageNotFound, OpenControl, GetFreeDevice, OpenLoop, Goto, env, dev,
              ResourceInv, Acquired, PCs
<1>4. CASE OpenFile \/ Attach
  BY <1>4 DEF OpenFile, Attach, Goto, env, ResourceInv, Acquired, PCs
<1>5. CASE MountImage
  <2>1. todo' = SuccessCalls /\ pc = "mount" /\ pc' = "leave"
        /\ container' = image' /\ UNCHANGED <<ctx, fds, loop>>
    BY <1>5 DEF MountImage, Goto, env, SuccessCalls
  <2>2. LastOf(todo', SuccessCalls, 3, 3)
    <3>1. SuccessCalls \in Seq(Calls) /\ Len(SuccessCalls) = 3
      BY DEF SuccessCalls, Calls
    <3> QED
      BY <2>1, <3>1 DEF LastOf
  <2>3. Succeeding'
    BY <2>1, <2>2 DEF ResourceInv, Acquired, Succeeding
  <2> QED
    BY <2>1, <2>3 DEF ResourceInv, PCs
<1>6. CASE CallFails
  <2>1. pc' = "leave" /\ todo' = Cleanup[pc] /\ UNCHANGED <<env, fds, loop, container>>
    BY <1>6 DEF CallFails, Goto
  <2>2. pc \in {"control", "free", "loop", "file", "attach", "mount"}
    BY <1>6 DEF CallFails, Cleanup
  <2>3. ASSUME pc = "control" PROVE Failing'
    <3>1. LastOf(todo', FailureCalls, 5, 0)
      BY <2>1, <2>3, CleanupIsLast DEF Cleanup
    <3> QED
      BY <2>1, <2>3, <3>1 DEF ResourceInv, Acquired, Failing
  <2>4. ASSUME pc = "free" PROVE Failing'
    <3>1. LastOf(todo', FailureCalls, 5, 1)
      BY <2>1, <2>4, CleanupIsLast DEF Cleanup
    <3> QED
      BY <2>1, <2>4, <3>1 DEF ResourceInv, Acquired, Failing
  <2>5. ASSUME pc = "loop" PROVE Failing'
    <3>1. LastOf(todo', FailureCalls, 5, 2)
      BY <2>1, <2>5, CleanupIsLast DEF Cleanup
    <3> QED
      BY <2>1, <2>5, <3>1 DEF ResourceInv, Acquired, Failing
  <2>6. ASSUME pc = "file" PROVE Failing'
    <3>1. LastOf(todo', FailureCalls, 5, 3)
      BY <2>1, <2>6, CleanupIsLast DEF Cleanup
    <3> QED
      BY <2>1, <2>6, <3>1 DEF ResourceInv, Acquired, Failing
  <2>7. ASSUME pc = "attach" PROVE Failing'
    <3>1. LastOf(todo', FailureCalls, 5, 4)
      BY <2>1, <2>7, CleanupIsLast DEF Cleanup
    <3> QED
      BY <2>1, <2>7, <3>1 DEF ResourceInv, Acquired, Failing
  <2>8. ASSUME pc = "mount" PROVE Failing'
    <3>1. LastOf(todo', FailureCalls, 5, 5)
      BY <2>1, <2>8, CleanupIsLast DEF Cleanup
    <3> QED
      BY <2>1, <2>8, <3>1 DEF ResourceInv, Acquired, Failing
  <2> QED
    BY <2>1, <2>2, <2>3, <2>4, <2>5, <2>6, <2>7, <2>8 DEF ResourceInv, env, PCs
<1>7. CASE LeaveCall
  <2>1. pc = "leave" /\ pc' = "leave" /\ ctx' = ctx
    BY <1>7 DEF LeaveCall, Goto, env
  <2> QED
    BY <1>7, <2>1, LeaveCallStep DEF ResourceInv
<1>8. CASE Leave
  <2>1. /\ pc = "leave" /\ todo = <<>>
        /\ pc' = (IF container = "none" THEN "thrown" ELSE "mounted")
        /\ UNCHANGED <<ctx, image, fds, loop, container, todo>>
    BY <1>8 DEF Leave, Goto, env, dev
  <2>2. image # "none"
    BY <2>1 DEF ContentInv
  <2>3. CASE Failing
    BY <2>1, <2>3 DEF Failing, LastOf, ResourceInv, Acquired, PCs
  <2>4. CASE Succeeding
    BY <2>1, <2>2, <2>4 DEF Succeeding, LastOf, ResourceInv, Acquired, PCs
  <2> QED
    BY <2>1, <2>3, <2>4 DEF ResourceInv
<1>9. CASE UNCHANGED vars
  BY <1>9 DEF vars, env, dev, ResourceInv, Acquired, Failing, Succeeding, LastOf
<1> QED
  BY <1>1, <1>2, <1>3, <1>4, <1>5, <1>6, <1>7, <1>8, <1>9 DEF Next

-----------------------------------------------------------------------------
(* The conversion of numbers                                               *)

\* std::stoul of a number that is not negative, and of a negative one.
LEMMA Stoul ==
  ASSUME NEW n \in Int, Converts(n)
  PROVE  stoul(n) = IF n >= 0 THEN n ELSE n + Modulus
<1>1. Modulus \in Nat \ {0} /\ -Modulus < n /\ n < Modulus
  BY ModulusAssumption DEF Converts
<1>2. CASE n >= 0
  <2>1. n % Modulus = n
    BY <1>1, <1>2
  <2> QED
    BY <1>2, <2>1 DEF stoul
<1>3. CASE n < 0
  <2>1. n % Modulus = n + Modulus
    BY <1>1, <1>3
  <2> QED
    BY <1>3, <2>1 DEF stoul
<1> QED
  BY <1>2, <1>3

\* An accepted number is the one in the environment, or a negative one near -2^w.
LEMMA Accepted ==
  ASSUME NEW v \in Numeric, NEW n \in Int, AcceptsNumber(v, n)
  PROVE  /\ stoul(n) % 256 = stoul(n) /\ stoul(n) \in 0 .. 255
         /\ n > 256 - Modulus => n = stoul(n)
         /\ stoul(n) = 0 <=> n = 0
<1>1. Converts(n) /\ stoul(n) <= 255 /\ Modulus \in Nat /\ Modulus > 256
  BY ModulusAssumption DEF AcceptsNumber
<1>2. stoul(n) = IF n >= 0 THEN n ELSE n + Modulus
  BY <1>1, Stoul
<1>3. -Modulus < n /\ n < Modulus
  BY <1>1 DEF Converts
<1> DEFINE m == stoul(n)
<1> HIDE DEF m
<1>4. m \in 0 .. 255 /\ (n > 256 - Modulus => n = m) /\ (m = 0 <=> n = 0)
  BY <1>1, <1>2, <1>3 DEF m
<1>5. m % 256 = m
  BY <1>4
<1> QED
  BY <1>4, <1>5 DEF m

\* What is known of the content of a variable that was read and accepted.
LEMMA ReadContent ==
  ASSUME ContentInv, Read, NEW i \in 1 .. next - 1
  PROVE  /\ i \in 1 .. 7
         /\ content[Reads[i]] \in Contents(Reads[i])
         /\ Accepts(Reads[i], content[Reads[i]])
BY ReadsAre DEF ContentInv

LEMMA NumericContent ==
  ASSUME ContentInv, Read, NEW v \in Numeric, v \in DOMAIN content
  PROVE  content[v].number \in Int /\ AcceptsNumber(v, content[v].number)
<1>1. PICK i \in 1 .. next - 1 : v = Reads[i]
  BY DEF ContentInv
<1>2. content[v] \in Contents(v) /\ Accepts(v, content[v])
  BY <1>1, ReadContent
<1>3. v \in {"BOOT_A_LEFT", "BOOT_B_LEFT", "update_reboot_state"}
  BY DEF Numeric, Tries
<1>4. content[v] \in [text : {""}, number : Numbers \cup {NotANumber}]
  BY <1>2, <1>3 DEF Contents
<1>5. AcceptsNumber(v, content[v].number)
  BY <1>2, <1>3 DEF Accepts
<1>6. content[v].number # NotANumber
  BY <1>5 DEF AcceptsNumber, Converts
<1> QED
  BY <1>4, <1>5, <1>6, NumbersAssumption

\* After six variables: the texts are among the allowed ones.
LEMMA TextContent ==
  ASSUME ContentInv, Read, next >= Last
  PROVE  /\ Text("application") \in {"A", "B"}
         /\ Text("BOOT_ORDER") \in {"A B", "B A"}
         /\ Text("BOOT_ORDER_OLD") \in {"A B", "B A"}
         /\ Text("rauc_cmd") \in {"rauc.slot=A", "rauc.slot=B"}
         /\ Tries \subseteq DOMAIN content
<1>1. Last = 7 /\ next \in 7 .. 8
  BY ReadsAre DEF ContentInv
<1>2. \A i \in 1 .. 6 : Accepts(Reads[i], content[Reads[i]]) /\ Reads[i] \in DOMAIN content
  BY <1>1 DEF ContentInv
<1>3. Accepts("application", content["application"])
  BY <1>2, ReadsAre
<1>4. Accepts("BOOT_ORDER", content["BOOT_ORDER"])
  BY <1>2, ReadsAre
<1>5. Accepts("BOOT_ORDER_OLD", content["BOOT_ORDER_OLD"])
  BY <1>2, ReadsAre
<1>6. Accepts("rauc_cmd", content["rauc_cmd"])
  BY <1>2, ReadsAre
<1>7. Tries \subseteq DOMAIN content
  BY <1>2, ReadsAre DEF Tries
<1> QED
  BY <1>3, <1>4, <1>5, <1>6, <1>7 DEF Accepts, Text

-----------------------------------------------------------------------------
(* Steps                                                                   *)

\* What neither reads a variable nor chooses the image.
LEMMA ContentKept ==
  ASSUME ContentInv, UNCHANGED <<next, content, image>>,
         \/ pc' = pc
         \/ pc = "env" /\ pc' = "thrown"
         \/ pc \notin {"env", "thrown"} /\ pc' # "env"
  PROVE  ContentInv'
<1>1. Read' => Read
  BY DEF Read, ContentInv
<1>2. FailedUpdate' <=> FailedUpdate
  BY DEF FailedUpdate, Text, Number
<1>3. pc' = "env" => image' = "none"
  BY DEF ContentInv
<1>4. pc' \notin {"env", "thrown"} => image' # "none"
  BY DEF ContentInv
<1> QED
  BY <1>1, <1>2, <1>3, <1>4 DEF ContentInv

LEMMA GetVariableStep == ContentInv /\ GetVariable => ContentInv'
<1> SUFFICES ASSUME ContentInv, GetVariable PROVE ContentInv'
  OBVIOUS
<1>1. /\ pc = "env" /\ image = "none" /\ image' = "none" /\ Read
      /\ next < Last \/ (next = Last /\ FailedUpdate)
  BY DEF GetVariable, Reading, ContentInv, Read
<1>2. Last = 7 /\ next \in 1 .. 7
  BY <1>1, ReadsAre DEF ContentInv
<1>3. PICK c \in Contents(Reads[next]) :
        /\ content' = [v \in DOMAIN content \cup {Reads[next]} |->
                         IF v = Reads[next] THEN c ELSE content[v]]
        /\ \/ Accepts(Reads[next], c) /\ next' = next + 1 /\ pc' = pc
           \/ pc' = "thrown" /\ next' = next
  BY DEF GetVariable, Throw
<1>4. CASE pc' = "thrown" /\ next' = next
  BY <1>1, <1>4 DEF ContentInv, Read
<1>5. CASE Accepts(Reads[next], c) /\ next' = next + 1 /\ pc' = pc
  <2>1. /\ DOMAIN content' = {Reads[i] : i \in 1 .. next}
        /\ \A i \in 1 .. next - 1 : content'[Reads[i]] = content[Reads[i]]
        /\ content'[Reads[next]] = c
    BY <1>1, <1>2, <1>3, ContentGrows
  <2>2. next' - 1 = next /\ next' \in 1 .. Last + 1
    BY <1>2, <1>5
  <2>3. ASSUME NEW i \in 1 .. next
        PROVE  /\ content'[Reads[i]] \in Contents(Reads[i])
               /\ Accepts(Reads[i], content'[Reads[i]])
    <3>1. CASE i = next
      BY <1>3, <1>5, <2>1, <3>1
    <3>2. CASE i \in 1 .. next - 1
      BY <1>1, <2>1, <3>2, ReadContent
    <3> QED
      BY <1>2, <3>1, <3>2
  <2>4. next' = Last + 1 => FailedUpdate'
    <3> SUFFICES ASSUME next' = Last + 1 PROVE FailedUpdate'
      OBVIOUS
    <3>1. next = 7 /\ FailedUpdate
      BY <1>1, <1>2, <1>5
    <3>2. \A i \in 1 .. 6 : content'[Reads[i]] = content[Reads[i]]
      BY <2>1, <3>1
    <3>3. /\ content'["rauc_cmd"] = content["rauc_cmd"]
          /\ content'["BOOT_ORDER"] = content["BOOT_ORDER"]
          /\ content'["BOOT_ORDER_OLD"] = content["BOOT_ORDER_OLD"]
          /\ \A v \in Tries : content'[v] = content[v]
      BY <3>2, ReadsAre DEF Tries
    <3> QED
      BY <3>1, <3>3 DEF FailedUpdate, Text, Number
  <2> QED
    BY <1>1, <1>5, <2>1, <2>2, <2>3, <2>4 DEF ContentInv, Read
<1> QED
  BY <1>3, <1>4, <1>5

LEMMA DetermineStep == ContentInv /\ DetermineImage => ContentInv'
<1> SUFFICES ASSUME ContentInv, DetermineImage PROVE ContentInv'
  OBVIOUS
<1>1. /\ pc = "env" /\ pc' = "exists" /\ UNCHANGED <<next, content>> /\ Read
      /\ next >= Last
  BY ReadsAre DEF DetermineImage, Read
<1>2. image' \in {"A", "B"}
  BY <1>1, TextContent DEF DetermineImage
<1>3. FailedUpdate' <=> FailedUpdate
  BY <1>1 DEF FailedUpdate, Text, Number
<1> QED
  BY <1>1, <1>2, <1>3 DEF ContentInv

Elsewhere ==
  /\ UNCHANGED <<next, content, image>>
  /\ \/ pc' = pc
     \/ pc = "env" /\ pc' = "thrown"
     \/ pc \notin {"env", "thrown"} /\ pc' # "env"

LEMMA NextIs == [Next]_vars => GetVariable \/ DetermineImage \/ Elsewhere
<1> SUFFICES ASSUME [Next]_vars PROVE GetVariable \/ DetermineImage \/ Elsewhere
  OBVIOUS
<1>1. CASE Initialize \/ ReadConfig \/ OpenEnv \/ GetVariableFails \/ MissingVariable
  BY <1>1 DEF Initialize, ReadConfig, OpenEnv, Proceed, GetVariableFails, MissingVariable,
              Reading, Throw, Elsewhere
<1>2. CASE ImageFound \/ ImageNotFound \/ OpenControl \/ GetFreeDevice \/ OpenLoop
  BY <1>2 DEF ImageFound, ImageNotFound, OpenControl, GetFreeDevice, OpenLoop, Goto, env, Elsewhere
<1>3. CASE OpenFile \/ Attach \/ MountImage \/ LeaveCall \/ Leave
  BY <1>3 DEF OpenFile, Attach, MountImage, LeaveCall, Leave, Goto, env, Elsewhere
<1>4. CASE CallFails
  BY <1>4 DEF CallFails, Cleanup, Goto, env, Elsewhere
<1>5. CASE UNCHANGED vars
  BY <1>5 DEF vars, env, Elsewhere
<1> QED
  BY <1>1, <1>2, <1>3, <1>4, <1>5 DEF Next

LEMMA ContentStep == ContentInv /\ [Next]_vars => ContentInv'
BY NextIs, GetVariableStep, DetermineStep, ContentKept DEF Elsewhere

ImageInv == ResourceInv /\ ContentInv

LEMMA ImageInvAlways == Spec => []ImageInv
<1>1. Init => ImageInv
  <2> SUFFICES ASSUME Init PROVE ImageInv
    OBVIOUS
  <2>1. ResourceInv
    BY DEF Init, ResourceInv, Acquired, PCs
  <2>2. next = 1 /\ pc = "env" /\ image = "none" /\ DOMAIN content = {} /\ Last = 7
    BY ReadsAre DEF Init
  <2>3. ContentInv
    BY <2>2 DEF ContentInv
  <2> QED
    BY <2>1, <2>3 DEF ImageInv
<1>2. ImageInv /\ [Next]_vars => ImageInv'
  BY ResourceStep, ContentStep DEF ImageInv
<1> QED
  BY <1>1, <1>2, PTL DEF Spec

\* The variables keep their types.
THEOREM TypeCorrect == Spec => []TypeOK
<1>1. ImageInv => TypeOK
  <2> SUFFICES ASSUME ResourceInv, ContentInv PROVE TypeOK
    BY DEF ImageInv
  <2>1. /\ fds \subseteq {"control", "loop", "file"}
        /\ loop \in {"none", "allocated", "attached"} /\ container \in {"none", "A", "B"}
    BY DEF ResourceInv, ContentInv, Acquired, Failing, Succeeding, PCs
  <2>2. todo \in Seq(Calls)
    <3>1. CASE pc = "leave"
      BY <3>1 DEF ResourceInv, Failing, Succeeding, LastOf
    <3>2. CASE pc # "leave"
      <4>1. todo = <<>>
        BY <3>2 DEF ResourceInv, Acquired, PCs
      <4> QED
        BY <4>1
    <3> QED
      BY <3>1, <3>2
  <2>3. DOMAIN content = {Reads[i] : i \in 1 .. next - 1} \/ pc = "thrown"
    BY DEF ContentInv, Read
  <2> QED
    BY <2>1, <2>2, <2>3 DEF TypeOK, Contexts, ResourceInv, ContentInv
<1> QED
  BY <1>1, ImageInvAlways, PTL

\* Whichever call fails, no context, descriptor or loop device is left behind,
\* and a mounted image keeps its loop device.
THEOREM NothingIsLeft == Spec => []NothingLeft
<1>1. ImageInv => NothingLeft
  BY DEF ImageInv, ResourceInv, Acquired, NothingLeft
<1> QED
  BY <1>1, ImageInvAlways, PTL

\* No number is cut down on its way from the environment, whatever is in it and
\* however wide unsigned long is.
THEOREM NumbersAreKept == Spec => []NumbersKept
<1>1. ImageInv => NumbersKept
  <2> SUFFICES ASSUME ContentInv, NEW v \in Numeric \cap DOMAIN content, pc # "thrown",
                      content[v].number > 256 - Modulus
               PROVE  content[v].number = Number(v)
    BY DEF ImageInv, NumbersKept
  <2>1. content[v].number \in Int /\ AcceptsNumber(v, content[v].number)
    BY NumericContent DEF Read
  <2> QED
    BY <2>1, Accepted DEF Number
<1> QED
  BY <1>1, ImageInvAlways, PTL

\* detect_failedUpdate_app_fw_reboot, in terms of the environment.
UpdateFailed ==
  /\ {Text("BOOT_ORDER"), Text("BOOT_ORDER_OLD")} = {"A B", "B A"}
  /\ Text("rauc_cmd") = (IF Text("BOOT_ORDER_OLD") = "A B" THEN "rauc.slot=A" ELSE "rauc.slot=B")
  /\ 0 \in {content[v].number : v \in Tries}

LEMMA FailedUpdateIs ==
  ASSUME ContentInv, Read, next >= Last
  PROVE  FailedUpdate <=> UpdateFailed
<1>1. /\ Text("BOOT_ORDER") \in {"A B", "B A"}
      /\ Text("BOOT_ORDER_OLD") \in {"A B", "B A"}
      /\ Text("rauc_cmd") \in {"rauc.slot=A", "rauc.slot=B"}
      /\ Tries \subseteq DOMAIN content
  BY TextContent
<1>2. {Text("BOOT_ORDER"), Text("BOOT_ORDER_OLD")} = {"A B", "B A"}
        <=> Text("BOOT_ORDER_OLD") # Text("BOOT_ORDER")
  <2> DEFINE b == Text("BOOT_ORDER")
             o == Text("BOOT_ORDER_OLD")
  <2>1. b \in {"A B", "B A"} /\ o \in {"A B", "B A"} /\ "A B" # "B A"
    BY <1>1
  <2> HIDE DEF b, o
  <2>2. CASE b = o
    <3>1. "A B" \notin {b, o} \/ "B A" \notin {b, o}
      BY <2>1, <2>2
    <3> QED
      BY <2>2, <3>1 DEF b, o
  <2>3. CASE b # o
    <3>1. (b = "A B" /\ o = "B A") \/ (b = "B A" /\ o = "A B")
      BY <2>1, <2>3
    <3>2. {b, o} = {"A B", "B A"}
      BY <3>1
    <3> QED
      BY <2>3, <3>2 DEF b, o
  <2> QED
    BY <2>2, <2>3
<1>3. Slot(Text("rauc_cmd")) = First(Text("BOOT_ORDER_OLD"))
        <=> Text("rauc_cmd") = (IF Text("BOOT_ORDER_OLD") = "A B" THEN "rauc.slot=A"
                                ELSE "rauc.slot=B")
  BY <1>1 DEF Slot, First
<1>4. ASSUME NEW v \in Tries PROVE Number(v) = 0 <=> content[v].number = 0
  <2>1. v \in Numeric /\ v \in DOMAIN content
    BY <1>1 DEF Numeric
  <2>2. content[v].number \in Int /\ AcceptsNumber(v, content[v].number)
    BY <2>1, NumericContent
  <2> QED
    BY <2>1, <2>2, Accepted DEF Number
<1>5. (\E v \in Tries : Number(v) = 0) <=> 0 \in {content[v].number : v \in Tries}
  BY <1>4
<1> QED
  BY <1>2, <1>3, <1>5 DEF FailedUpdate, UpdateFailed

\* The image is the right one for every content of the variables, when none of
\* them begins with a number that stoul wraps round to a small one.
THEOREM ImageIsRight ==
  ASSUME \A n \in Numbers : n > 256 - Modulus
  PROVE  Spec => []RightImage
<1>1. Init => RightImage
  BY DEF Init, RightImage
<1>2. ImageInv /\ RightImage /\ [Next]_vars => RightImage'
  <2> SUFFICES ASSUME ImageInv, RightImage, [Next]_vars PROVE RightImage'
    OBVIOUS
  <2>1. CASE GetVariable
    <3>1. image' = "none"
      BY <2>1 DEF GetVariable, Reading, ImageInv, ContentInv
    <3> QED
      BY <3>1 DEF RightImage
  <2>2. CASE Elsewhere
    <3>1. content' = content /\ image' = image
      BY <2>2 DEF Elsewhere
    <3> QED
      BY <3>1 DEF RightImage, Text
  <2>3. CASE DetermineImage
    <3>1. ContentInv /\ Read /\ next >= Last /\ content' = content /\ Last = 7
      BY <2>3, ReadsAre DEF DetermineImage, ImageInv, Read
    <3>2. Text("application") \in {"A", "B"}
      BY <3>1, TextContent
    <3>3. image' = IF UpdateFailed /\ content["update_reboot_state"].number \notin {9, 12}
                   THEN Other(Text("application")) ELSE Text("application")
      <4>1. CASE next = Last /\ ~FailedUpdate /\ image' = Text("application")
        BY <3>1, <4>1, FailedUpdateIs
      <4>2. CASE /\ next = Last + 1
                 /\ image' =
                      IF \/ /\ Text("application") = "B"
                            /\ Number("update_reboot_state") \in Rollback
                         \/ /\ Text("application") = "A"
                            /\ Number("update_reboot_state") \notin Rollback
                      THEN "B" ELSE "A"
        <5>1. UpdateFailed
          BY <3>1, <4>2, FailedUpdateIs DEF ContentInv
        <5>2. Number("update_reboot_state") = content["update_reboot_state"].number
          <6> DEFINE v == "update_reboot_state"
          <6>1. v \in Numeric
            BY DEF Numeric
          <6>2. Reads[7] = v /\ 7 \in 1 .. next - 1
            BY <3>1, <4>2, ReadsAre
          <6>3. v \in DOMAIN content /\ content[v] \in Contents(v)
            BY <3>1, <6>2 DEF ContentInv
          <6>4. content[v].number \in Int /\ AcceptsNumber(v, content[v].number)
            BY <3>1, <6>1, <6>3, NumericContent
          <6>5. content[v].number \in Numbers
            <7>1. content[v] \in [text : {""}, number : Numbers \cup {NotANumber}]
              BY <6>3 DEF Contents
            <7> QED
              BY <6>4, <7>1, NumbersAssumption
          <6>6. content[v].number > 256 - Modulus
            BY <6>5
          <6> QED
            BY <6>1, <6>4, <6>6, Accepted DEF Number
        <5> QED
          BY <3>2, <4>2, <5>1, <5>2 DEF Rollback, Other
      <4> QED
        BY <2>3, <4>1, <4>2 DEF DetermineImage
    <3>4. UpdateFailed' <=> UpdateFailed
      BY <3>1 DEF UpdateFailed, Text
    <3>5. Text("application")' = Text("application")
      BY <3>1 DEF Text
    <3>6. RightImage' <=>
            (image' # "none" =>
               image' = IF /\ UpdateFailed'
                           /\ content'["update_reboot_state"].number \notin {9, 12}
                        THEN Other(Text("application"))' ELSE Text("application")')
      BY DEF RightImage, UpdateFailed
    <3>7. Other(Text("application"))' = Other(Text("application"))
      BY <3>5 DEF Other
    <3> QED
      BY <3>1, <3>3, <3>4, <3>5, <3>6, <3>7
  <2> QED
    BY <2>1, <2>2, <2>3, NextIs
<1> QED
  BY <1>1, <1>2, ImageInvAlways, PTL DEF Spec

-----------------------------------------------------------------------------
(* The steps descend                                                       *)

Position(p) ==
  CASE p = "env" -> 10 [] p = "exists" -> 9 [] p = "control" -> 8 [] p = "free" -> 7
    [] p = "loop" -> 6 [] p = "file" -> 5 [] p = "attach" -> 4 [] p = "mount" -> 3
    [] p = "leave" -> 2 [] OTHER -> 0

\* How much of getVariable is still to come.
Calling(c) ==
  CASE c = "none" -> 3 [] c = "initialised" -> 2 [] c = "configured" -> 1 [] OTHER -> 0

\* The function comes to a later call, has one variable less to read, comes
\* further in reading it, or has one call less to make on the way out.
Descends ==
  \/ Position(pc') < Position(pc)
  \/ /\ pc = "env" /\ pc' = "env"
     /\ \/ next' = next + 1 /\ next' <= Last + 1
        \/ next' = next /\ Calling(ctx') < Calling(ctx)
  \/ /\ pc = "leave" /\ pc' = "leave"
     /\ Len(todo) \in Nat \ {0}
     /\ Len(todo') = Len(todo) - 1

LEMMA StepDescends == TypeOK /\ Next => Descends
<1> SUFFICES ASSUME TypeOK, Next PROVE Descends
  OBVIOUS
<1>1. CASE Initialize \/ ReadConfig \/ OpenEnv
  BY <1>1 DEF Initialize, ReadConfig, OpenEnv, Proceed, Reading, Descends, Calling
<1>2. CASE GetVariableFails \/ MissingVariable
  BY <1>2 DEF GetVariableFails, MissingVariable, Reading, Throw, Descends, Position
<1>3. CASE GetVariable
  <2>1. pc = "env" /\ next <= Last /\ next \in Nat
    BY <1>3, ReadsAre DEF GetVariable, Reading, TypeOK
  <2>2. pc' = "thrown" \/ (pc' = pc /\ next' = next + 1)
    BY <1>3 DEF GetVariable, Throw
  <2> QED
    BY <2>1, <2>2, ReadsAre DEF Descends, Position
<1>4. CASE DetermineImage
  BY <1>4 DEF DetermineImage, Descends, Position
<1>5. CASE LeaveCall
  <2>1. pc = "leave" /\ pc' = "leave" /\ todo # <<>> /\ todo' = Tail(todo) /\ todo \in Seq(Calls)
    BY <1>5 DEF LeaveCall, Goto, TypeOK
  <2>2. Len(todo) \in Nat \ {0} /\ Len(todo') = Len(todo) - 1
    BY <2>1
  <2> QED
    BY <2>1, <2>2 DEF Descends
<1>6. CASE ImageFound \/ ImageNotFound \/ OpenControl \/ GetFreeDevice
  BY <1>6 DEF ImageFound, ImageNotFound, OpenControl, GetFreeDevice, Goto, Descends, Position
<1>7. CASE OpenLoop \/ OpenFile \/ Attach \/ MountImage
  <2>1. \/ pc = "loop" /\ pc' = "file"
        \/ pc = "file" /\ pc' = "attach"
        \/ pc = "attach" /\ pc' = "mount"
        \/ pc = "mount" /\ pc' = "leave"
    BY <1>7 DEF OpenLoop, OpenFile, Attach, MountImage, Goto
  <2> QED
    BY <2>1 DEF Descends, Position
<1>8. CASE CallFails
  <2>1. pc \in {"control", "free", "loop", "file", "attach", "mount"} /\ pc' = "leave"
    BY <1>8 DEF CallFails, Cleanup, Goto
  <2> QED
    BY <2>1 DEF Descends, Position
<1>9. CASE Leave
  <2>1. pc = "leave" /\ (pc' = "thrown" \/ pc' = "mounted")
    BY <1>9 DEF Leave, Goto
  <2> QED
    BY <2>1 DEF Descends, Position
<1> QED
  BY <1>1, <1>2, <1>3, <1>4, <1>5, <1>6, <1>7, <1>8, <1>9 DEF Next

\* Each step of mount_application reads one variable further, comes to a later
\* system call or makes one call less on the way out: no variable is read twice
\* and no call is tried again, whatever the environment holds.
THEOREM SelectionDescends == Spec => [][Next => Descends]_vars
BY StepDescends, TypeCorrect, PTL DEF Spec

=============================================================================
