----------------------------- MODULE BootProofs -----------------------------
(***************************************************************************)
(* Theorems about main(): the lifetime of /proc, /sys and the persistent   *)
(* memory on every way through its catch blocks, for every set of          *)
(* failures, with and without the certificate store.                       *)
(***************************************************************************)
EXTENDS Boot, Integers, SequenceTheorems, InductionLemmas, TLAPS

Proc == kernel["proc"]
Sys  == kernel["sys"]
Persistent == kernel["persistent"]

\* The lists of mounts that occur.
NoList     == <<>>
ProcList   == <<"proc">>
BothList   == <<"proc", "sys">>
VolumeList == <<"persistent">>

\* Between stage 1 and the removals.
Running == {"detect", "path", "stage2", "system_conf", "fw_env_conf", "ramdisk", "extract",
            "spins", "engine", "remove_sys"}

\* The ledger of stage 1 and its loops' index say what of /proc and /sys is mounted.
Mounting ==
  \/ at1 = 1 /\ paths1 = NoList /\ Proc = 0 /\ Sys = 0
  \/ at1 = 2 /\ paths1 = ProcList /\ Proc = 1 /\ Sys = 0
  \/ at1 = 3 /\ paths1 = BothList /\ Proc = 1 /\ Sys = 1

RollingBack ==
  \/ at1 = 1 /\ paths1 = NoList /\ Proc = 0 /\ Sys = 0
  \/ at1 = 1 /\ paths1 = ProcList /\ Proc = 1 /\ Sys = 0
  \/ at1 = 2 /\ paths1 = ProcList /\ Proc = 0 /\ Sys = 0

StageOne ==
  /\ kernel \in [Targets -> Int]
  /\ pc \in {"add_proc", "add_sys", "prepare"} =>
       status1 = "open" /\ at1 = 1 /\ paths1 = NoList /\ Proc = 0 /\ Sys = 0
  /\ pc = "add_proc" => prep1 = NoList
  /\ pc = "add_sys" => prep1 = ProcList
  /\ pc \in {"prepare", "stage1"} => prep1 = BothList
  /\ pc = "stage1" =>
       \/ status1 = "mounting" /\ Mounting
       \/ status1 \in {"rollback", "failed"} /\ RollingBack
       \/ status1 = "ok" /\ Proc = 1 /\ Sys = 1
  /\ pc \in Running => Proc = 1 /\ Sys = 1
  /\ pc = "remove_proc" => Proc = 1 /\ Sys = 0
  /\ pc # "end" => exit = ""
  /\ exit = "normal" => Proc = 0 /\ Sys = 0
  /\ exit = "prepare" => RollingBack

\* What its ledger and index say of the persistent memory.
Volume ==
  \/ status2 \in {"open", "mounting"} /\ at2 = 1 /\ paths2 = NoList /\ Persistent = 0
  \/ status2 \in {"mounting", "ok"} /\ at2 = 2 /\ paths2 = VolumeList /\ Persistent = 1
  \/ status2 \in {"rollback", "failed"} /\ at2 = 1 /\ paths2 = NoList /\ Persistent = 0

\* The same for stage 2, which mounts one volume.
StageTwo ==
  /\ pc \in {"add_proc", "add_sys", "prepare", "stage1", "detect", "path"} => prep2 = NoList
  /\ pc = "stage2" => prep2 # NoList
  /\ prep2 = NoList => status2 = "open" /\ at2 = 1 /\ paths2 = NoList /\ Persistent = 0
  /\ prep2 # NoList =>
       /\ prep2 = VolumeList
       /\ Volume

BootInv == StageOne /\ StageTwo

\* What the loops over the lists see of them.
LEMMA ListProperties ==
  /\ DOMAIN NoList = {} /\ DOMAIN ProcList = {1} /\ DOMAIN VolumeList = {1}
  /\ DOMAIN BothList = {1, 2}
  /\ ProcList[1] = "proc" /\ VolumeList[1] = "persistent"
  /\ BothList[1] = "proc" /\ BothList[2] = "sys"
  /\ Append(NoList, "proc") = ProcList /\ Append(NoList, "persistent") = VolumeList
  /\ Append(ProcList, "sys") = BothList
  /\ VolumeList # NoList
<1> USE DEF NoList, ProcList, BothList, VolumeList
<1> DEFINE S == {"proc", "sys"}
<1>1. ProcList \in Seq(S) /\ BothList \in Seq(S)
  OBVIOUS
<1>2. /\ Append(ProcList, "sys") \in Seq(S)
      /\ Len(Append(ProcList, "sys")) = 2
      /\ Append(ProcList, "sys")[1] = "proc"
      /\ Append(ProcList, "sys")[2] = "sys"
  BY <1>1, AppendProperties
<1>3. Len(BothList) = 2 /\ BothList[1] = "proc" /\ BothList[2] = "sys"
  OBVIOUS
<1>4. \A i \in 1 .. 2 : Append(ProcList, "sys")[i] = BothList[i]
  BY <1>2, <1>3
<1>5. Append(ProcList, "sys") = BothList
  <2> HIDE DEF S
  <2> QED
    BY <1>1, <1>2, <1>3, <1>4, SeqEqual
<1> QED
  BY <1>5

LEMMA BootInvInit == Init => BootInv
<1> SUFFICES ASSUME Init PROVE BootInv
  OBVIOUS
<1>1. /\ pc = "add_proc" /\ exit = "" /\ kernel = [t \in Targets |-> 0]
      /\ prep1 = NoList /\ paths1 = NoList /\ at1 = 1 /\ status1 = "open"
      /\ prep2 = NoList /\ paths2 = NoList /\ at2 = 1 /\ status2 = "open"
  BY DEF Init, Stage1!Empty, Stage2!Empty, NoList
<1>2. kernel \in [Targets -> Int] /\ Proc = 0 /\ Sys = 0 /\ Persistent = 0
  <2>1. kernel = [t \in Targets |-> 0]
    BY <1>1
  <2> QED
    BY <2>1 DEF Targets, Proc, Sys, Persistent
<1>3. StageOne
  BY <1>1, <1>2 DEF StageOne, Running
<1>4. StageTwo
  BY <1>1, <1>2 DEF StageTwo
<1> QED
  BY <1>3, <1>4 DEF BootInv

\* A step that leaves both lists of mounts and what they mount alone.
LEMMA ElsewhereKeeps ==
  ASSUME BootInv, UNCHANGED <<stage1, stage2, mem, source, exit>>,
         kernel' \in [Targets -> Int],
         \A t \in {"proc", "sys", "persistent"} : kernel'[t] = kernel[t],
         pc \in Running, pc' \in Running \ {"detect", "path", "stage2"}
  PROVE  BootInv'
<1>1. StageOne'
  BY DEF BootInv, StageOne, stage1, Running, Proc, Sys, Mounting, RollingBack
<1>2. StageTwo'
  BY DEF BootInv, StageTwo, stage2, Running, Volume, Persistent
<1> QED
  BY <1>1, <1>2 DEF BootInv

\* A step of stage 1.
LEMMA StageOneStep ==
  ASSUME BootInv, Stage1Step
  PROVE  BootInv'
<1>0. "proc" \in Targets /\ "sys" \in Targets /\ "persistent" \in Targets
  BY DEF Targets
<1>1. /\ pc = "stage1" /\ pc' = "stage1" /\ exit' = exit
      /\ UNCHANGED <<prep2, paths2, at2, status2, mem, source>> /\ Stage1!PrepareStep
  BY DEF Stage1Step, Goto, stage2, locals
<1>2. /\ prep1 = BothList /\ kernel \in [Targets -> Int] /\ exit = ""
      /\ \/ status1 = "mounting" /\ Mounting
         \/ status1 \in {"rollback", "failed"} /\ RollingBack
         \/ status1 = "ok" /\ Proc = 1 /\ Sys = 1
  BY <1>1 DEF BootInv, StageOne
<1>2a. kernel \in [Targets -> Int]
  BY <1>2
<1>3. prep2 = NoList
  BY <1>1 DEF BootInv, StageTwo
<1>4. SUFFICES /\ kernel' \in [Targets -> Int] /\ kernel'["persistent"] = kernel["persistent"]
               /\ prep1' = prep1
               /\ \/ status1' = "mounting" /\ Mounting'
                  \/ status1' \in {"rollback", "failed"} /\ RollingBack'
                  \/ status1' = "ok" /\ Proc' = 1 /\ Sys' = 1
  BY <1>1, <1>2, <1>3 DEF BootInv, StageOne, StageTwo, Running, Persistent
<1>5. CASE Stage1!MountNext
  <2>1. /\ at1 \in DOMAIN prep1 /\ kernel' = [kernel EXCEPT ![prep1[at1]] = kernel[prep1[at1]] + 1]
        /\ paths1' = Append(paths1, prep1[at1]) /\ at1' = at1 + 1
        /\ UNCHANGED <<prep1, status1>> /\ status1 = "mounting"
    BY <1>5 DEF Stage1!MountNext, Stage1!Mount
  <2>2. CASE at1 = 1 /\ paths1 = NoList /\ Proc = 0 /\ Sys = 0
    <3>1. prep1[1] = "proc"
      BY <1>2, ListProperties
    <3>2. prep1[at1] = "proc"
      BY <2>2, <3>1
    <3>3. at1' = 2
      BY <2>1, <2>2
    <3>4. paths1' = Append(NoList, "proc")
      BY <2>1, <2>2, <3>2
    <3>5. paths1' = ProcList
      BY <3>4, ListProperties
    <3>6. kernel' = [kernel EXCEPT !["proc"] = kernel["proc"] + 1]
      BY <2>1, <3>2
    <3>7. kernel' = [kernel EXCEPT !["proc"] = 1]
      BY <2>2, <3>6 DEF Proc
    <3>8. /\ kernel' \in [Targets -> Int] /\ kernel'["proc"] = 1
          /\ \A u \in Targets \ {"proc"} : kernel'[u] = kernel[u]
      BY <1>0, <1>2a, <3>7
    <3>9. Proc' = 1 /\ Sys' = 0 /\ kernel'["persistent"] = kernel["persistent"]
      BY <1>0, <2>2, <3>8 DEF Proc, Sys
    <3> QED
      BY <2>1, <3>3, <3>5, <3>8, <3>9 DEF Mounting
  <2>3. CASE at1 = 2 /\ paths1 = ProcList /\ Proc = 1 /\ Sys = 0
    <3>1. prep1[2] = "sys"
      BY <1>2, ListProperties
    <3>2. prep1[at1] = "sys"
      BY <2>3, <3>1
    <3>3. at1' = 3
      BY <2>1, <2>3
    <3>4. paths1' = Append(ProcList, "sys")
      BY <2>1, <2>3, <3>2
    <3>5. paths1' = BothList
      BY <3>4, ListProperties
    <3>6. kernel' = [kernel EXCEPT !["sys"] = kernel["sys"] + 1]
      BY <2>1, <3>2
    <3>7. kernel' = [kernel EXCEPT !["sys"] = 1]
      BY <2>3, <3>6 DEF Sys
    <3>8. /\ kernel' \in [Targets -> Int] /\ kernel'["sys"] = 1
          /\ \A u \in Targets \ {"sys"} : kernel'[u] = kernel[u]
      BY <1>0, <1>2a, <3>7
    <3>9. Proc' = 1 /\ Sys' = 1 /\ kernel'["persistent"] = kernel["persistent"]
      BY <1>0, <2>3, <3>8 DEF Proc, Sys
    <3> QED
      BY <2>1, <3>3, <3>5, <3>8, <3>9 DEF Mounting
  <2>4. at1 # 3
    <3>1. at1 \in DOMAIN BothList
      BY <1>2, <2>1
    <3> QED
      BY <3>1, ListProperties
  <2> QED
    BY <1>2, <2>1, <2>2, <2>3, <2>4 DEF Mounting
<1>6. CASE Stage1!MountFails
  <2>1. /\ at1 \in DOMAIN prep1 /\ status1 = "mounting" /\ status1' = "rollback" /\ at1' = 1
        /\ UNCHANGED <<prep1, paths1, kernel>>
    BY <1>6 DEF Stage1!MountFails
  <2>2. at1 # 3
    <3>1. at1 \in DOMAIN BothList
      BY <1>2, <2>1
    <3> QED
      BY <3>1, ListProperties
  <2> QED
    BY <1>2, <2>1, <2>2 DEF Mounting, RollingBack, Proc, Sys
<1>7. CASE Stage1!PrepareEnds
  <2>1. /\ at1 \notin DOMAIN prep1 /\ status1 = "mounting" /\ status1' = "ok"
        /\ UNCHANGED <<prep1, paths1, at1, kernel>>
    BY <1>7 DEF Stage1!PrepareEnds
  <2>2. at1 \notin DOMAIN BothList
    BY <1>2, <2>1
  <2>3. at1 # 1 /\ at1 # 2
    BY <2>2, ListProperties
  <2> QED
    BY <1>2, <2>1, <2>3 DEF Mounting, Proc, Sys
<1>8. CASE Stage1!RollbackNext
  <2>1. /\ at1 \in DOMAIN paths1 /\ kernel' = [kernel EXCEPT ![paths1[at1]] = kernel[paths1[at1]] - 1]
        /\ status1 = "rollback" /\ at1' = at1 + 1 /\ UNCHANGED <<prep1, paths1, status1>>
    BY <1>8 DEF Stage1!RollbackNext, Stage1!Umount
  <2>2. at1 = 1 /\ paths1 = ProcList /\ Proc = 1 /\ Sys = 0
    <3>1. RollingBack
      BY <1>2, <2>1
    <3>2. paths1 # NoList
      BY <2>1, ListProperties
    <3>3. ~ (at1 = 2 /\ paths1 = ProcList)
      BY <2>1, ListProperties
    <3> QED
      BY <3>1, <3>2, <3>3 DEF RollingBack
  <2>3. paths1[1] = "proc"
    BY <2>2, ListProperties
  <2>4. paths1[at1] = "proc"
    BY <2>2, <2>3
  <2>5. kernel' = [kernel EXCEPT !["proc"] = kernel["proc"] - 1]
    BY <2>1, <2>4
  <2>6. at1' = 2
    BY <2>1, <2>2
  <2>7. kernel' = [kernel EXCEPT !["proc"] = 0]
    BY <2>2, <2>5 DEF Proc
  <2>8. /\ kernel' \in [Targets -> Int] /\ kernel'["proc"] = 0
        /\ \A u \in Targets \ {"proc"} : kernel'[u] = kernel[u]
    BY <1>0, <1>2a, <2>7
  <2>9. Proc' = 0 /\ Sys' = 0 /\ kernel'["persistent"] = kernel["persistent"]
    BY <1>0, <2>2, <2>8 DEF Proc, Sys
  <2> QED
    BY <2>1, <2>2, <2>6, <2>8, <2>9 DEF RollingBack
<1>9. CASE Stage1!RollbackFails \/ Stage1!RollbackEnds
  BY <1>2, <1>9 DEF Stage1!RollbackFails, Stage1!RollbackEnds, RollingBack, Proc, Sys
<1> QED
  BY <1>1, <1>5, <1>6, <1>7, <1>8, <1>9 DEF Stage1!PrepareStep

\* A step of stage 2.
LEMMA StageTwoStep ==
  ASSUME BootInv, Stage2Step
  PROVE  BootInv'
<1>0. "proc" \in Targets /\ "sys" \in Targets /\ "persistent" \in Targets
  BY DEF Targets
<1>1. /\ pc = "stage2" /\ pc' = "stage2" /\ exit' = exit
      /\ UNCHANGED <<prep1, paths1, at1, status1, mem, source>>
      /\ Stage2!Prepare \/ Stage2!PrepareStep
  BY DEF Stage2Step, Goto, stage1, locals
<1>2. /\ kernel \in [Targets -> Int] /\ exit = "" /\ kernel["proc"] = 1 /\ kernel["sys"] = 1
  BY <1>1 DEF BootInv, StageOne, Running, Proc, Sys
<1>2a. kernel \in [Targets -> Int]
  BY <1>2
<1>3. prep2 = VolumeList /\ Volume
  BY <1>1 DEF BootInv, StageTwo
<1>5. SUFFICES /\ kernel' \in [Targets -> Int] /\ prep2' = prep2
               /\ kernel'["proc"] = kernel["proc"] /\ kernel'["sys"] = kernel["sys"]
               /\ Volume'
  <2>1. StageOne'
    BY <1>1, <1>2, <1>5 DEF StageOne, Running, Proc, Sys
  <2>2. StageTwo'
    BY <1>1, <1>3, <1>5, ListProperties DEF StageTwo
  <2> QED
    BY <2>1, <2>2 DEF BootInv
<1>6. CASE Stage2!Prepare
  BY <1>2, <1>3, <1>6 DEF Stage2!Prepare, Volume, Persistent
<1>7. CASE Stage2!MountNext
  <2>1. /\ at2 \in DOMAIN prep2 /\ kernel' = [kernel EXCEPT ![prep2[at2]] = kernel[prep2[at2]] + 1]
        /\ paths2' = Append(paths2, prep2[at2]) /\ at2' = at2 + 1
        /\ UNCHANGED <<prep2, status2>> /\ status2 = "mounting"
    BY <1>7 DEF Stage2!MountNext, Stage2!Mount
  <2>2. at2 \in DOMAIN VolumeList
    BY <1>3, <2>1
  <2>3. at2 = 1
    BY <2>2, ListProperties
  <2>4. paths2 = NoList /\ Persistent = 0
    BY <1>3, <2>1, <2>3 DEF Volume
  <2>5. prep2[1] = "persistent"
    BY <1>3, ListProperties
  <2>6. prep2[at2] = "persistent"
    BY <2>3, <2>5
  <2>7. paths2' = Append(NoList, "persistent")
    BY <2>1, <2>4, <2>6
  <2>8. paths2' = VolumeList /\ at2' = 2
    BY <2>1, <2>3, <2>7, ListProperties
  <2>9. kernel' = [kernel EXCEPT !["persistent"] = kernel["persistent"] + 1]
    BY <2>1, <2>6
  <2>10. kernel' = [kernel EXCEPT !["persistent"] = 1]
    BY <2>4, <2>9 DEF Persistent
  <2>11. /\ kernel' \in [Targets -> Int] /\ kernel'["persistent"] = 1
         /\ \A u \in Targets \ {"persistent"} : kernel'[u] = kernel[u]
    BY <1>0, <1>2a, <2>10
  <2> QED
    BY <1>0, <2>1, <2>8, <2>11 DEF Volume, Persistent
<1>8. CASE Stage2!MountFails
  <2>1. /\ at2 \in DOMAIN prep2 /\ status2 = "mounting" /\ status2' = "rollback" /\ at2' = 1
        /\ UNCHANGED <<prep2, paths2, kernel>>
    BY <1>8 DEF Stage2!MountFails
  <2>2. at2 \in DOMAIN VolumeList
    BY <1>3, <2>1
  <2>3. at2 = 1
    BY <2>2, ListProperties
  <2>4. paths2 = NoList /\ Persistent = 0
    BY <1>3, <2>1, <2>3 DEF Volume
  <2> QED
    BY <1>2, <2>1, <2>4 DEF Volume, Persistent
<1>9. CASE Stage2!PrepareEnds
  <2>1. /\ at2 \notin DOMAIN prep2 /\ status2 = "mounting" /\ status2' = "ok"
        /\ UNCHANGED <<prep2, paths2, at2, kernel>>
    BY <1>9 DEF Stage2!PrepareEnds
  <2>2. at2 \notin DOMAIN VolumeList
    BY <1>3, <2>1
  <2>3. at2 # 1
    BY <2>2, ListProperties
  <2> QED
    BY <1>2, <1>3, <2>1, <2>3 DEF Volume, Persistent
<1>10. CASE Stage2!RollbackNext
  <2>1. at2 \in DOMAIN paths2 /\ status2 = "rollback"
    BY <1>10 DEF Stage2!RollbackNext
  <2>2. paths2 = NoList
    BY <1>3, <2>1 DEF Volume
  <2> QED
    BY <2>1, <2>2, ListProperties
<1>11. CASE Stage2!RollbackFails \/ Stage2!RollbackEnds
  BY <1>2, <1>3, <1>11 DEF Stage2!RollbackFails, Stage2!RollbackEnds, Volume, Persistent
<1> QED
  BY <1>1, <1>6, <1>7, <1>8, <1>9, <1>10, <1>11 DEF Stage2!PrepareStep

LEMMA BuildsLists == BootInv /\ (AddProc \/ AddSys \/ PathFound) => BootInv'
<1> SUFFICES ASSUME BootInv, AddProc \/ AddSys \/ PathFound PROVE BootInv'
  OBVIOUS
<1>1. CASE AddProc
  <2>1. /\ pc = "add_proc" /\ pc' = "add_sys" /\ prep1' = Append(prep1, "proc")
        /\ UNCHANGED <<paths1, at1, status1, prep2, paths2, at2, status2, kernel, exit>>
    BY <1>1 DEF AddProc, Goto, Stage1!Add, stage2
  <2>2. prep1 = NoList
    BY <2>1 DEF BootInv, StageOne
  <2>3. prep1' = ProcList
    BY <2>1, <2>2, ListProperties
  <2>4. StageOne'
    BY <2>1, <2>3 DEF BootInv, StageOne, Running, Proc, Sys
  <2>5. StageTwo'
    BY <2>1 DEF BootInv, StageTwo, Persistent
  <2> QED
    BY <2>4, <2>5 DEF BootInv
<1>2. CASE AddSys
  <2>1. /\ pc = "add_sys" /\ pc' = "prepare" /\ prep1' = Append(prep1, "sys")
        /\ UNCHANGED <<paths1, at1, status1, prep2, paths2, at2, status2, kernel, exit>>
    BY <1>2 DEF AddSys, Goto, Stage1!Add, stage2
  <2>2. prep1 = ProcList
    BY <2>1 DEF BootInv, StageOne
  <2>3. prep1' = BothList
    BY <2>1, <2>2, ListProperties
  <2>4. StageOne'
    BY <2>1, <2>3 DEF BootInv, StageOne, Running, Proc, Sys
  <2>5. StageTwo'
    BY <2>1 DEF BootInv, StageTwo, Persistent
  <2> QED
    BY <2>4, <2>5 DEF BootInv
<1>3. CASE PathFound
  <2>1. /\ pc = "path" /\ pc' = "stage2" /\ prep2' = Append(prep2, "persistent")
        /\ UNCHANGED <<prep1, paths1, at1, status1, paths2, at2, status2, kernel, exit, mem>>
    BY <1>3 DEF PathFound, Goto, Stage2!Add, stage1
  <2>4. prep2 = NoList
    BY <2>1 DEF BootInv, StageTwo
  <2>5. prep2' = VolumeList
    BY <2>1, <2>4, ListProperties
  <2>6. status2 = "open" /\ at2 = 1 /\ paths2 = NoList /\ Persistent = 0
    BY <2>4 DEF BootInv, StageTwo
  <2>7. Volume'
    BY <2>1, <2>6 DEF Volume, Persistent
  <2>8. StageOne'
    BY <2>1 DEF BootInv, StageOne, Running, Proc, Sys
  <2>9. StageTwo'
    BY <2>1, <2>5, <2>7, ListProperties DEF StageTwo
  <2> QED
    BY <2>8, <2>9 DEF BootInv
<1> QED
  BY <1>1, <1>2, <1>3

\* The steps between the stages, up to the first removal.
LEMMA GoesOn ==
  BootInv /\ (PrepareStage1 \/ Stage1Ok \/ Stage1Failed \/ DetectMemory \/ PathFails) => BootInv'
<1> SUFFICES ASSUME BootInv,
                    PrepareStage1 \/ Stage1Ok \/ Stage1Failed \/ DetectMemory \/ PathFails
             PROVE  BootInv'
  OBVIOUS
<1>1. CASE PrepareStage1
  <2>1. /\ pc = "prepare" /\ pc' = "stage1" /\ status1' = "mounting" /\ at1' = 1
        /\ UNCHANGED <<prep1, paths1, prep2, paths2, at2, status2, kernel, exit>>
    BY <1>1 DEF PrepareStage1, Goto, Stage1!Prepare, stage2
  <2>2. paths1 = NoList /\ Proc = 0 /\ Sys = 0 /\ prep1 = BothList
    BY <2>1 DEF BootInv, StageOne
  <2>3. StageOne'
    BY <2>1, <2>2 DEF BootInv, StageOne, Running, Mounting, Proc, Sys
  <2>4. StageTwo'
    BY <2>1 DEF BootInv, StageTwo, Persistent
  <2> QED
    BY <2>3, <2>4 DEF BootInv
<1>2. CASE Stage1Ok
  <2>1. /\ pc = "stage1" /\ status1 = "ok" /\ pc' = "detect"
        /\ UNCHANGED <<prep1, paths1, at1, status1, prep2, paths2, at2, status2, kernel, exit>>
    BY <1>2 DEF Stage1Ok, Goto, stage1, stage2
  <2>2. StageOne'
    BY <2>1 DEF BootInv, StageOne, Running, Proc, Sys
  <2>3. StageTwo'
    BY <2>1 DEF BootInv, StageTwo, Persistent
  <2> QED
    BY <2>2, <2>3 DEF BootInv
<1>3. CASE Stage1Failed
  <2>1. /\ pc = "stage1" /\ status1 = "failed" /\ pc' = "end" /\ exit' = "prepare"
        /\ UNCHANGED <<prep1, paths1, at1, status1, prep2, paths2, at2, status2, kernel>>
    BY <1>3 DEF Stage1Failed, Leave, stage1, stage2
  <2>2. RollingBack
    BY <2>1 DEF BootInv, StageOne
  <2>3. StageOne'
    BY <2>1, <2>2 DEF BootInv, StageOne, Running, RollingBack, Proc, Sys
  <2>4. StageTwo'
    BY <2>1 DEF BootInv, StageTwo, Persistent
  <2> QED
    BY <2>3, <2>4 DEF BootInv
<1>4. CASE DetectMemory
  <2>0. Goto("path") \/ Leave("detect")
    BY <1>4, Zenon DEF DetectMemory
  <2>1. /\ pc = "detect"
        /\ \/ pc' = "path" /\ exit' = exit
           \/ pc' = "end" /\ exit' = "detect"
        /\ UNCHANGED <<prep1, paths1, at1, status1, prep2, paths2, at2, status2, kernel>>
    <3>1. pc = "detect" /\ UNCHANGED <<stage1, stage2, kernel>>
      BY <1>4 DEF DetectMemory
    <3> QED
      BY <2>0, <3>1 DEF Goto, Leave, stage1, stage2
  <2>2. StageOne'
    BY <2>1 DEF BootInv, StageOne, Running, Proc, Sys
  <2>3. prep2 = NoList /\ status2 = "open" /\ at2 = 1 /\ paths2 = NoList /\ Persistent = 0
    BY <2>1 DEF BootInv, StageTwo
  <2>4. StageTwo'
    BY <2>1, <2>3 DEF StageTwo, Persistent
  <2> QED
    BY <2>2, <2>4 DEF BootInv
<1>5. CASE PathFails
  BY <1>5, ElsewhereKeeps DEF PathFails, Goto, stage1, stage2, locals, Running, BootInv, StageOne
<1> QED
  BY <1>1, <1>2, <1>3, <1>4, <1>5

\* The steps that leave /proc, /sys and the persistent memory alone.
LEMMA Passes ==
  BootInv /\ (Stage2Ends \/ SystemConf \/ FwEnvConf \/ PrepareRamdisk \/ PrepareRamdiskFails
              \/ Extract \/ ExtractSpins \/ RunEngine) => BootInv'
<1> SUFFICES ASSUME BootInv,
                    \/ Stage2Ends \/ SystemConf \/ FwEnvConf \/ PrepareRamdisk
                    \/ PrepareRamdiskFails \/ Extract \/ ExtractSpins \/ RunEngine
             PROVE  BootInv'
  OBVIOUS
<1>1. kernel \in [Targets -> Int]
  BY DEF BootInv, StageOne
<1>2. CASE kernel' = kernel
  <2>1. /\ UNCHANGED <<stage1, stage2, mem, source, exit>>
        /\ pc \in Running /\ pc' \in Running \ {"detect", "path", "stage2"}
    BY <1>2 DEF Stage2Ends, SystemConf, FwEnvConf, PrepareRamdisk, PrepareRamdiskFails, Extract,
                ExtractSpins, RunEngine, Goto, locals, Running
  <2> QED
    BY <1>1, <1>2, <2>1, ElsewhereKeeps
<1>3. CASE kernel' = [kernel EXCEPT !["ramdisk"] = 1]
  <2>1. /\ UNCHANGED <<stage1, stage2, mem, source, exit>>
        /\ pc \in Running /\ pc' \in Running \ {"detect", "path", "stage2"}
    BY DEF Stage2Ends, SystemConf, FwEnvConf, PrepareRamdisk, PrepareRamdiskFails, Extract,
           ExtractSpins, RunEngine, Goto, locals, Running
  <2>2. kernel' \in [Targets -> Int] /\ \A t \in {"proc", "sys", "persistent"} : kernel'[t] = kernel[t]
    BY <1>1, <1>3 DEF Targets
  <2> QED
    BY <2>1, <2>2, ElsewhereKeeps
<1> QED
  BY <1>2, <1>3 DEF Stage2Ends, SystemConf, FwEnvConf, PrepareRamdisk, PrepareRamdiskFails,
                    Extract, ExtractSpins, RunEngine, locals

\* The two removals at the end of main().
LEMMA Removes == BootInv /\ (RemoveSys \/ RemoveProc) => BootInv'
<1> SUFFICES ASSUME BootInv, RemoveSys \/ RemoveProc PROVE BootInv'
  OBVIOUS
<1>1. kernel \in [Targets -> Int] /\ "proc" \in Targets /\ "sys" \in Targets /\ "persistent" \in Targets
  BY DEF BootInv, StageOne, Targets
<1>2. CASE RemoveSys
  <2>1. /\ pc = "remove_sys" /\ UNCHANGED <<prep2, paths2, at2, status2, mem, source>>
        /\ \/ /\ kernel' = [kernel EXCEPT !["sys"] = kernel["sys"] - 1]
              /\ pc' = "remove_proc" /\ exit' = exit
           \/ kernel' = kernel /\ pc' = "end" /\ exit' = "remove_sys"
    BY <1>2 DEF RemoveSys, Goto, Leave, Stage1!RemoveOk, Stage1!RemoveFails, Stage1!Umount,
                stage2, locals
  <2>2. exit = "" /\ kernel["proc"] = 1 /\ kernel["sys"] = 1
    BY <2>1 DEF BootInv, StageOne, Running, Proc, Sys
  <2>3. CASE kernel' = [kernel EXCEPT !["sys"] = kernel["sys"] - 1] /\ pc' = "remove_proc" /\ exit' = exit
    <3>0. kernel["sys"] = 1
      BY <2>2
    <3>1. kernel' = [kernel EXCEPT !["sys"] = 0]
      BY <2>3, <3>0
    <3>2. /\ kernel' \in [Targets -> Int] /\ kernel'["proc"] = 1 /\ kernel'["sys"] = 0
          /\ kernel'["persistent"] = kernel["persistent"]
      <4>1. kernel \in [Targets -> Int]
        BY <1>1
      <4>2. kernel' \in [Targets -> Int] /\ \A u \in Targets \ {"sys"} : kernel'[u] = kernel[u]
        BY <1>1, <3>1, <4>1
      <4>3. kernel'["sys"] = 0
        BY <1>1, <3>1, <4>1
      <4> QED
        BY <1>1, <2>2, <4>2, <4>3
    <3>3. StageOne'
      BY <2>2, <2>3, <3>2 DEF StageOne, Running, Proc, Sys
    <3>4. StageTwo'
      BY <2>1, <2>3, <3>2 DEF BootInv, StageTwo, Volume, Persistent
    <3> QED
      BY <3>3, <3>4 DEF BootInv
  <2>4. CASE kernel' = kernel /\ pc' = "end" /\ exit' = "remove_sys"
    <3>1. StageOne'
      BY <1>1, <2>4 DEF StageOne, Running
    <3>2. StageTwo'
      BY <2>1, <2>4 DEF BootInv, StageTwo, Volume, Persistent
    <3> QED
      BY <3>1, <3>2 DEF BootInv
  <2> QED
    BY <2>1, <2>3, <2>4
<1>3. CASE RemoveProc
  <2>1. /\ pc = "remove_proc" /\ UNCHANGED <<prep2, paths2, at2, status2, mem, source>>
        /\ \/ /\ kernel' = [kernel EXCEPT !["proc"] = kernel["proc"] - 1]
              /\ pc' = "end" /\ exit' = "normal"
           \/ kernel' = kernel /\ pc' = "end" /\ exit' = "remove_proc"
    BY <1>3 DEF RemoveProc, Leave, Stage1!RemoveOk, Stage1!RemoveFails, Stage1!Umount,
                stage2, locals
  <2>2. kernel["proc"] = 1 /\ kernel["sys"] = 0
    BY <2>1 DEF BootInv, StageOne, Proc, Sys
  <2>3. CASE kernel' = [kernel EXCEPT !["proc"] = kernel["proc"] - 1] /\ pc' = "end" /\ exit' = "normal"
    <3>1. kernel' = [kernel EXCEPT !["proc"] = 0]
      BY <2>2, <2>3
    <3>2. /\ kernel' \in [Targets -> Int] /\ kernel'["proc"] = 0 /\ kernel'["sys"] = 0
          /\ kernel'["persistent"] = kernel["persistent"]
      BY <1>1, <2>2, <3>1
    <3>3. StageOne'
      BY <2>3, <3>2 DEF StageOne, Running, Proc, Sys
    <3>4. StageTwo'
      BY <2>1, <2>3, <3>2 DEF BootInv, StageTwo, Volume, Persistent
    <3> QED
      BY <3>3, <3>4 DEF BootInv
  <2>4. CASE kernel' = kernel /\ pc' = "end" /\ exit' = "remove_proc"
    <3>1. StageOne'
      BY <1>1, <2>4 DEF StageOne, Running
    <3>2. StageTwo'
      BY <2>1, <2>4 DEF BootInv, StageTwo, Volume, Persistent
    <3> QED
      BY <3>1, <3>2 DEF BootInv
  <2> QED
    BY <2>1, <2>3, <2>4
<1> QED
  BY <1>2, <1>3

LEMMA BootInvStep == BootInv /\ [Next]_vars => BootInv'
<1>1. ASSUME BootInv, UNCHANGED vars PROVE BootInv'
  BY <1>1 DEF BootInv, StageOne, StageTwo, Volume, Mounting, RollingBack, Proc, Sys, Persistent,
              vars, stage1, stage2
<1> QED
  BY <1>1, BuildsLists, GoesOn, Passes, Removes, StageOneStep, StageTwoStep DEF Next

LEMMA BootInvAlways == Spec => []BootInv
<1> QED
  BY BootInvInit, BootInvStep, PTL DEF Spec

-----------------------------------------------------------------------------
(* The ledgers and the types                                               *)

\* What BootInv leaves open of the two PreInit objects once main() has gone on:
\* the ledger of stage 1 after each removal, and the types of what is left
\* behind.
ObjectType ==
  /\ prep1 \in Seq(Targets) /\ paths1 \in Seq(Targets)
  /\ prep2 \in Seq(Targets) /\ paths2 \in Seq(Targets)
  /\ at1 \in Nat \ {0} /\ at2 \in Nat \ {0}
  /\ status1 \in {"open", "mounting", "rollback", "ok", "failed"}
  /\ status2 \in {"open", "mounting", "rollback", "ok", "failed"}
  /\ kernel \in [Targets -> Nat]

MemType == mem = Throws \/ \E b \in BdInfos, c \in CmdLines : mem = Detect(b, c)

LocalType ==
  /\ pc \in PCs
  /\ MemType
  /\ source \in Volumes \cup {NoVolume}
  /\ ramdisk \in {"none", "tmpfs", "overlay", "readonly"}
  /\ engine \in BOOLEAN
  /\ error_during_mount_persistent \in BOOLEAN
  /\ exit \in Exits

\* The ledger of stage 1 outlives prepare(): it lists what is still mounted, and
\* nothing but /proc and /sys.
Kept ==
  /\ pc \notin {"add_proc", "add_sys", "prepare", "stage1"} => status1 \in {"ok", "failed"}
  /\ status1 = "ok" => \A t \in Targets : Lists(paths1, t) => t \in {"proc", "sys"} /\ kernel[t] = 1

LedgerInv == ObjectType /\ LocalType /\ Kept

\* remove() leaves a ledger of the same entries without the one removed.
LEMMA RemovedLedger ==
  ASSUME paths1 \in Seq(Targets), NEW t, paths1' = Stage1!Without(t)
  PROVE  /\ paths1' \in Seq(Targets)
         /\ \A u \in Targets : Lists(paths1', u) <=> u # t /\ Lists(paths1, u)
<1>1. Stage1!Without(t) = Erased(paths1, t)
  BY DEF Stage1!Without, Erased
<1> QED
  BY <1>1, ErasedProperties

\* A mount and a umount in the kernel's table.
LEMMA CountType ==
  ASSUME NEW k \in [Targets -> Nat], NEW t \in Targets
  PROVE  /\ [k EXCEPT ![t] = k[t] + 1] \in [Targets -> Nat]
         /\ k[t] = 1 => [k EXCEPT ![t] = k[t] - 1] \in [Targets -> Nat]
<1>1. k[t] + 1 \in Nat /\ (k[t] = 1 => k[t] - 1 \in Nat)
  OBVIOUS
<1>2. \A n \in Nat : [k EXCEPT ![t] = n] \in [Targets -> Nat]
  OBVIOUS
<1> QED
  BY <1>1, <1>2

\* Steps that leave the ledger of stage 1 and what it lists alone.
LEMMA KeptStays ==
  ASSUME Kept, UNCHANGED <<paths1, status1>>,
         kernel'["proc"] = kernel["proc"], kernel'["sys"] = kernel["sys"],
         pc' \in {"add_proc", "add_sys", "prepare", "stage1"} \/ status1 \in {"ok", "failed"}
  PROVE  Kept'
  BY DEF Kept, Lists

LEMMA StageOneLedger == ASSUME BootInv, LedgerInv, Stage1Step PROVE ObjectType' /\ Kept'
<1>1. /\ pc = "stage1" /\ pc' = "stage1" /\ UNCHANGED stage2 /\ Stage1!PrepareStep
      /\ prep1 = BothList
  BY DEF Stage1Step, Goto, BootInv, StageOne
<1>2. ObjectType /\ kernel \in [Targets -> Nat] /\ prep1 \in Seq(Targets) /\ paths1 \in Seq(Targets)
      /\ at1 \in Nat \ {0}
  BY DEF LedgerInv, ObjectType
<1>3. UNCHANGED <<prep2, paths2, at2, status2>>
  BY <1>1 DEF stage2
<1>4. CASE Stage1!MountNext
  <2>1. /\ at1 \in DOMAIN prep1 /\ kernel' = [kernel EXCEPT ![prep1[at1]] = kernel[prep1[at1]] + 1]
        /\ paths1' = Append(paths1, prep1[at1]) /\ at1' = at1 + 1
        /\ UNCHANGED <<prep1, status1>> /\ status1 = "mounting"
    BY <1>4 DEF Stage1!MountNext, Stage1!Mount
  <2>2. prep1[at1] \in Targets
    BY <1>2, <2>1
  <2>3. kernel' \in [Targets -> Nat]
    BY <1>2, <2>1, <2>2, CountType
  <2>4. paths1' \in Seq(Targets) /\ at1' \in Nat \ {0}
    BY <1>2, <2>1, <2>2
  <2> QED
    BY <1>1, <1>2, <1>3, <2>1, <2>3, <2>4 DEF ObjectType, Kept
<1>5. CASE Stage1!MountFails \/ Stage1!RollbackFails \/ Stage1!RollbackEnds
  BY <1>1, <1>2, <1>3, <1>5
     DEF Stage1!MountFails, Stage1!RollbackFails, Stage1!RollbackEnds, ObjectType, Kept
<1>6. CASE Stage1!PrepareEnds
  <2>1. /\ at1 \notin DOMAIN prep1 /\ status1 = "mounting" /\ status1' = "ok"
        /\ UNCHANGED <<prep1, paths1, at1, kernel>>
    BY <1>6 DEF Stage1!PrepareEnds
  <2>2. at1 # 1 /\ at1 # 2
    BY <1>1, <2>1, ListProperties
  <2>3. paths1 = BothList /\ Proc = 1 /\ Sys = 1
    BY <1>1, <2>1, <2>2 DEF BootInv, StageOne, Mounting
  <2>4. \A t : Lists(BothList, t) => t \in {"proc", "sys"}
    BY ListProperties DEF Lists
  <2>5. paths1' = BothList /\ Proc' = 1 /\ Sys' = 1
    BY <2>1, <2>3 DEF Proc, Sys
  <2>6. Kept'
    BY <1>1, <2>4, <2>5 DEF Kept, Proc, Sys
  <2> QED
    BY <1>2, <1>3, <2>1, <2>6 DEF ObjectType
<1>7. CASE Stage1!RollbackNext
  <2>1. /\ at1 \in DOMAIN paths1 /\ kernel' = [kernel EXCEPT ![paths1[at1]] = kernel[paths1[at1]] - 1]
        /\ status1 = "rollback" /\ at1' = at1 + 1 /\ UNCHANGED <<prep1, paths1, status1>>
    BY <1>7 DEF Stage1!RollbackNext, Stage1!Umount
  <2>2. RollingBack
    BY <1>1, <2>1 DEF BootInv, StageOne
  <2>3. at1 = 1 /\ paths1 = ProcList /\ Proc = 1
    BY <2>1, <2>2, ListProperties DEF RollingBack
  <2>4. paths1[at1] = "proc" /\ kernel["proc"] = 1 /\ "proc" \in Targets
    BY <2>3, ListProperties DEF Proc, Targets
  <2>5. kernel' = [kernel EXCEPT !["proc"] = kernel["proc"] - 1]
    BY <2>1, <2>4
  <2>6. kernel' \in [Targets -> Nat]
    BY <1>2, <2>4, <2>5, CountType
  <2>7. at1' \in Nat \ {0}
    BY <1>2, <2>1
  <2> QED
    BY <1>1, <1>2, <1>3, <2>1, <2>6, <2>7 DEF ObjectType, Kept
<1> QED
  BY <1>1, <1>4, <1>5, <1>6, <1>7 DEF Stage1!PrepareStep

LEMMA StageTwoLedger == ASSUME BootInv, BootInv', LedgerInv, Stage2Step PROVE ObjectType' /\ Kept'
<1>1. /\ pc = "stage2" /\ pc' = "stage2" /\ UNCHANGED stage1
      /\ Stage2!Prepare \/ Stage2!PrepareStep
      /\ prep2 = VolumeList /\ Volume
  BY DEF Stage2Step, Goto, BootInv, StageTwo
<1>2. ObjectType /\ Kept /\ kernel \in [Targets -> Nat] /\ prep2 \in Seq(Targets)
      /\ paths2 \in Seq(Targets) /\ at2 \in Nat \ {0}
  BY DEF LedgerInv, ObjectType
<1>3. UNCHANGED <<prep1, paths1, at1, status1>>
  BY <1>1 DEF stage1
<1>4. Kept'
  <2>1. kernel["proc"] = 1 /\ kernel["sys"] = 1
    BY <1>1 DEF BootInv, StageOne, Running, Proc, Sys
  <2>2. kernel'["proc"] = 1 /\ kernel'["sys"] = 1
    BY <1>1 DEF BootInv, StageOne, Running, Proc, Sys
  <2>3. status1 \in {"ok", "failed"}
    BY <1>1, <1>2 DEF Kept
  <2> QED
    BY <1>2, <1>3, <2>1, <2>2, <2>3, KeptStays
<1>5. CASE Stage2!MountNext
  <2>1. /\ at2 \in DOMAIN prep2 /\ kernel' = [kernel EXCEPT ![prep2[at2]] = kernel[prep2[at2]] + 1]
        /\ paths2' = Append(paths2, prep2[at2]) /\ at2' = at2 + 1
        /\ UNCHANGED <<prep2, status2>>
    BY <1>5 DEF Stage2!MountNext, Stage2!Mount
  <2>2. prep2[at2] \in Targets
    BY <1>2, <2>1
  <2>3. kernel' \in [Targets -> Nat]
    BY <1>2, <2>1, <2>2, CountType
  <2>4. paths2' \in Seq(Targets) /\ at2' \in Nat \ {0}
    BY <1>2, <2>1, <2>2
  <2> QED
    BY <1>2, <1>3, <1>4, <2>1, <2>3, <2>4 DEF ObjectType
<1>6. CASE \/ Stage2!Prepare \/ Stage2!MountFails \/ Stage2!PrepareEnds
           \/ Stage2!RollbackFails \/ Stage2!RollbackEnds
  BY <1>2, <1>3, <1>4, <1>6
     DEF Stage2!Prepare, Stage2!MountFails, Stage2!PrepareEnds, Stage2!RollbackFails,
         Stage2!RollbackEnds, ObjectType
<1>7. CASE Stage2!RollbackNext
  <2>1. at2 \in DOMAIN paths2 /\ status2 = "rollback"
    BY <1>7 DEF Stage2!RollbackNext
  <2>2. paths2 = NoList
    BY <1>1, <2>1 DEF Volume
  <2> QED
    BY <2>1, <2>2, ListProperties
<1> QED
  BY <1>1, <1>5, <1>6, <1>7 DEF Stage2!PrepareStep

LEMMA ListsLedger == LedgerInv /\ (AddProc \/ AddSys \/ PathFound) => ObjectType' /\ Kept'
<1> SUFFICES ASSUME LedgerInv, AddProc \/ AddSys \/ PathFound PROVE ObjectType' /\ Kept'
  OBVIOUS
<1>1. ObjectType /\ Kept /\ "proc" \in Targets /\ "sys" \in Targets /\ "persistent" \in Targets
  BY DEF LedgerInv, Targets
<1>2. CASE AddProc \/ AddSys
  <2>1. /\ \E t \in {"proc", "sys"} : prep1' = Append(prep1, t)
        /\ UNCHANGED <<paths1, at1, status1, kernel, prep2, paths2, at2, status2>>
        /\ pc' \in {"add_sys", "prepare"}
    BY <1>2 DEF AddProc, AddSys, Goto, Stage1!Add, stage2
  <2>2. prep1' \in Seq(Targets)
    BY <1>1, <2>1 DEF ObjectType
  <2>3. Kept'
    BY <1>1, <2>1, KeptStays
  <2> QED
    BY <1>1, <2>1, <2>2, <2>3 DEF ObjectType
<1>3. CASE PathFound
  <2>1. /\ prep2' = Append(prep2, "persistent")
        /\ UNCHANGED <<paths2, at2, status2, kernel, prep1, paths1, at1, status1>>
        /\ pc = "path" /\ pc' = "stage2"
    BY <1>3 DEF PathFound, Goto, Stage2!Add, stage1
  <2>2. prep2' \in Seq(Targets)
    BY <1>1, <2>1 DEF ObjectType
  <2>3. status1 \in {"ok", "failed"}
    BY <1>1, <2>1 DEF Kept
  <2>4. Kept'
    BY <1>1, <2>1, <2>3, KeptStays
  <2> QED
    BY <1>1, <2>1, <2>2, <2>4 DEF ObjectType
<1> QED
  BY <1>2, <1>3

LEMMA RemovesLedger == BootInv /\ LedgerInv /\ (RemoveSys \/ RemoveProc) => ObjectType' /\ Kept'
<1> SUFFICES ASSUME BootInv, LedgerInv, RemoveSys \/ RemoveProc PROVE ObjectType' /\ Kept'
  OBVIOUS
<1>1. PICK t \in {"proc", "sys"} :
        /\ paths1' = Stage1!Without(t)
        /\ UNCHANGED <<prep1, at1, status1, prep2, paths2, at2, status2>>
        /\ kernel' = [kernel EXCEPT ![t] = kernel[t] - 1] \/ kernel' = kernel
        /\ pc = IF t = "sys" THEN "remove_sys" ELSE "remove_proc"
        /\ pc' \in {"remove_proc", "end"}
  BY DEF RemoveSys, RemoveProc, Goto, Leave, Stage1!RemoveOk, Stage1!RemoveFails,
         Stage1!Umount, stage2, locals
<1>2. ObjectType /\ Kept /\ t \in Targets /\ kernel \in [Targets -> Nat] /\ paths1 \in Seq(Targets)
  BY DEF LedgerInv, ObjectType, Targets
<1>3. kernel[t] = 1
  BY <1>1 DEF BootInv, StageOne, Running, Proc, Sys
<1>4. paths1' \in Seq(Targets) /\ \A u \in Targets : Lists(paths1', u) => u # t /\ Lists(paths1, u)
  BY <1>1, <1>2, RemovedLedger
<1>5. kernel' \in [Targets -> Nat]
  BY <1>1, <1>2, <1>3, CountType
<1>6. \A u \in Targets : u # t => kernel'[u] = kernel[u]
  BY <1>1, <1>2
<1>7. status1 \in {"ok", "failed"}
  BY <1>1, <1>2 DEF Kept
<1>8. Kept'
  BY <1>1, <1>2, <1>4, <1>6, <1>7 DEF Kept
<1> QED
  BY <1>1, <1>2, <1>4, <1>5, <1>8 DEF ObjectType

\* The steps between the stages, and those that leave both objects alone.
LEMMA ElsewhereLedger ==
  ASSUME BootInv, LedgerInv,
         \/ PrepareStage1 \/ Stage1Ok \/ Stage1Failed \/ DetectMemory \/ PathFails
         \/ Stage2Ends \/ SystemConf \/ FwEnvConf \/ PrepareRamdisk \/ PrepareRamdiskFails
         \/ Extract \/ ExtractSpins \/ RunEngine
  PROVE  ObjectType' /\ Kept'
<1>1. ObjectType /\ Kept /\ kernel \in [Targets -> Nat]
  BY DEF LedgerInv, ObjectType
<1>2. CASE PrepareStage1
  <2>1. /\ pc' = "stage1" /\ status1' = "mounting" /\ at1' = 1
        /\ UNCHANGED <<prep1, paths1, kernel, prep2, paths2, at2, status2>>
    BY <1>2 DEF PrepareStage1, Goto, Stage1!Prepare, stage2
  <2> QED
    BY <1>1, <2>1 DEF ObjectType, Kept
<1>3. CASE ~PrepareStage1
  <2>1. /\ UNCHANGED <<stage1, stage2>>
        /\ kernel' = kernel \/ kernel' = [kernel EXCEPT !["ramdisk"] = 1]
    BY <1>3 DEF Stage1Ok, Stage1Failed, DetectMemory, PathFails, Stage2Ends, SystemConf, FwEnvConf,
                PrepareRamdisk, PrepareRamdiskFails, Extract, ExtractSpins, RunEngine, locals
  <2>2. status1 \in {"ok", "failed"}
    <3>1. pc \in {"add_proc", "add_sys", "prepare", "stage1"} => status1 \in {"ok", "failed"}
      BY <1>3 DEF Stage1Ok, Stage1Failed, DetectMemory, PathFails, Stage2Ends, SystemConf,
                  FwEnvConf, PrepareRamdisk, PrepareRamdiskFails, Extract, ExtractSpins, RunEngine
    <3> QED
      BY <1>1, <3>1 DEF Kept
  <2>3. kernel' \in [Targets -> Nat] /\ kernel'["proc"] = kernel["proc"] /\ kernel'["sys"] = kernel["sys"]
    BY <1>1, <2>1 DEF Targets
  <2>4. UNCHANGED <<prep1, paths1, at1, status1, prep2, paths2, at2, status2>>
    BY <2>1 DEF stage1, stage2
  <2> QED
    BY <1>1, <2>2, <2>3, <2>4, KeptStays DEF ObjectType
<1> QED
  BY <1>2, <1>3

LEMMA LocalStep == LocalType /\ [Next]_vars => LocalType'
<1> SUFFICES ASSUME LocalType, [Next]_vars PROVE LocalType'
  OBVIOUS
<1>0. mem' = mem => MemType'
  BY DEF LocalType, MemType
<1>1. CASE AddProc \/ AddSys \/ PrepareStage1 \/ Stage1Step \/ Stage1Ok \/ Stage1Failed
  BY <1>0, <1>1 DEF AddProc, AddSys, PrepareStage1, Stage1Step, Stage1Ok, Stage1Failed, Goto, Leave,
              locals, LocalType, PCs, Exits
<1>2. CASE DetectMemory
  <2>1. \E b \in BdInfos, c \in CmdLines : mem' = Detect(b, c)
    BY <1>2 DEF DetectMemory
  <2>1a. MemType'
    BY <2>1, Zenon DEF MemType
  <2>2. Goto("path") \/ Leave("detect")
    BY <1>2, Zenon DEF DetectMemory
  <2>3. UNCHANGED <<source, ramdisk, engine, error_during_mount_persistent>>
    BY <1>2 DEF DetectMemory
  <2> QED
    BY <2>1, <2>2, <2>3, <2>1a DEF Goto, Leave, LocalType, PCs, Exits
<1>3. CASE PathFound
  <2>1. source' \in Volumes
    BY <1>3 DEF PathFound
  <2> QED
    BY <1>0, <1>3, <2>1 DEF PathFound, Goto, LocalType, PCs
<1>4. CASE PathFails \/ Stage2Step \/ Stage2Ends \/ SystemConf \/ FwEnvConf \/ ExtractSpins
  BY <1>0, <1>4 DEF PathFails, Stage2Step, Stage2Ends, SystemConf, FwEnvConf, ExtractSpins, Goto,
              locals, LocalType, PCs
<1>5. CASE PrepareRamdisk \/ PrepareRamdiskFails \/ Extract \/ RunEngine
  BY <1>0, <1>5 DEF PrepareRamdisk, PrepareRamdiskFails, Extract, RunEngine, Goto, LocalType, PCs
<1>6. CASE RemoveSys \/ RemoveProc
  BY <1>0, <1>6 DEF RemoveSys, RemoveProc, Goto, Leave, locals, LocalType, PCs, Exits
<1>7. CASE UNCHANGED vars
  BY <1>0, <1>7 DEF vars, LocalType
<1> QED
  BY <1>1, <1>2, <1>3, <1>4, <1>5, <1>6, <1>7 DEF Next

LEMMA LedgerInvStep == BootInv /\ LedgerInv /\ [Next]_vars => LedgerInv'
<1> SUFFICES ASSUME BootInv, LedgerInv, [Next]_vars PROVE LedgerInv'
  OBVIOUS
<1>1. BootInv'
  BY BootInvStep
<1>2. LocalType'
  BY LocalStep DEF LedgerInv
<1>3. CASE UNCHANGED vars
  <2>1. ObjectType' /\ Kept'
    BY <1>3 DEF LedgerInv, ObjectType, Kept, Lists, vars, stage1, stage2
  <2> QED
    BY <1>2, <2>1 DEF LedgerInv
<1>4. CASE Next
  <2>1. ObjectType' /\ Kept'
    BY <1>1, <1>4, StageOneLedger, StageTwoLedger, ListsLedger, RemovesLedger, ElsewhereLedger
       DEF Next
  <2> QED
    BY <1>2, <2>1 DEF LedgerInv
<1> QED
  BY <1>3, <1>4

LEMMA LedgerInvAlways == Spec => []LedgerInv
<1>1. Init => LedgerInv
  <2> SUFFICES ASSUME Init PROVE LedgerInv
    OBVIOUS
  <2>1. ObjectType
    <3>1. <<>> \in Seq(Targets) /\ [t \in Targets |-> 0] \in [Targets -> Nat]
      OBVIOUS
    <3>2. /\ prep1 = <<>> /\ paths1 = <<>> /\ prep2 = <<>> /\ paths2 = <<>>
          /\ at1 = 1 /\ at2 = 1 /\ status1 = "open" /\ status2 = "open"
          /\ kernel = [t \in Targets |-> 0]
      BY DEF Init, Stage1!Empty, Stage2!Empty
    <3>3. kernel \in [Targets -> Nat]
      BY <3>1, <3>2
    <3> QED
      BY <3>1, <3>2, <3>3 DEF ObjectType
  <2>2. LocalType
    <3>1. MemType
      BY DEF Init, MemType
    <3> QED
      BY <3>1 DEF Init, LocalType, PCs, Exits
  <2>3. Kept
    BY DEF Init, Stage1!Empty, Kept
  <2> QED
    BY <2>1, <2>2, <2>3 DEF LedgerInv
<1> QED
  BY <1>1, BootInvAlways, LedgerInvStep, PTL DEF Spec

\* The variables of main() and of both PreInit objects keep their types; the
\* kernel never has a negative number of mounts.
THEOREM TypeCorrect == Spec => []TypeOK
<1>1. LedgerInv => TypeOK
  BY DEF LedgerInv, ObjectType, LocalType, MemType, TypeOK, Stage1!TypeOK, Stage2!TypeOK,
         Stage1!Statuses, Stage2!Statuses
<1> QED
  BY <1>1, LedgerInvAlways, PTL

\* What a ledger that is in use lists is mounted, once: through the mounts, a
\* rollback, and the removals whose umount works or fails.
THEOREM LedgersAreSound == Spec => []LedgersSound
<1>1. ASSUME BootInv, LedgerInv PROVE Stage1!LedgerSound
  <2>0. \A t : ~Lists(NoList, t)
    BY ListProperties DEF Lists
  <2>0a. \A t : Lists(ProcList, t) => t = "proc"
    BY ListProperties DEF Lists
  <2>0b. \A t : Lists(BothList, t) => t \in {"proc", "sys"}
    BY ListProperties DEF Lists
  <2>1. ASSUME status1 = "mounting", NEW t \in Targets, Lists(paths1, t) PROVE kernel[t] = 1
    <3>1. pc = "stage1"
      BY <1>1, <2>1 DEF BootInv, StageOne, LedgerInv, Kept
    <3>2. Mounting
      BY <1>1, <2>1, <3>1 DEF BootInv, StageOne
    <3> QED
      BY <2>0, <2>0a, <2>0b, <2>1, <3>2 DEF Mounting, Proc, Sys
  <2>2. ASSUME status1 = "ok", NEW t \in Targets, Lists(paths1, t) PROVE kernel[t] = 1
    BY <1>1, <2>2 DEF LedgerInv, Kept
  <2>3. ASSUME status1 = "rollback", NEW i \in DOMAIN paths1, i >= at1 PROVE kernel[paths1[i]] = 1
    <3>1. pc = "stage1"
      BY <1>1, <2>3 DEF BootInv, StageOne, LedgerInv, Kept
    <3>2. RollingBack
      BY <1>1, <2>3, <3>1 DEF BootInv, StageOne
    <3>3. at1 = 1 /\ paths1 = ProcList /\ i = 1 /\ Proc = 1
      BY <2>3, <3>2, ListProperties DEF RollingBack
    <3>4. paths1[i] = "proc"
      BY <3>3, ListProperties
    <3> QED
      BY <3>3, <3>4 DEF Proc
  <2> QED
    BY <2>1, <2>2, <2>3 DEF Stage1!LedgerSound, Stage1!InLedger, Lists
<1>2. ASSUME BootInv PROVE Stage2!LedgerSound
  <2>1. (prep2 = NoList /\ status2 = "open") \/ Volume
    BY <1>2 DEF BootInv, StageTwo
  <2>2. ASSUME status2 \in {"mounting", "ok"}, NEW t \in Targets, NEW i \in DOMAIN paths2, paths2[i] = t
        PROVE  kernel[t] = 1
    <3>1. paths2 = VolumeList /\ Persistent = 1
      BY <2>1, <2>2, ListProperties DEF Volume
    <3>2. t = "persistent"
      BY <2>2, <3>1, ListProperties
    <3> QED
      BY <3>1, <3>2 DEF Persistent
  <2>3. status2 = "rollback" => DOMAIN paths2 = {}
    BY <2>1, ListProperties DEF Volume
  <2> QED
    BY <2>2, <2>3 DEF Stage2!LedgerSound, Stage2!InLedger
<1>3. BootInv /\ LedgerInv => LedgersSound
  BY <1>1, <1>2 DEF LedgersSound
<1> QED
  BY <1>3, BootInvAlways, LedgerInvAlways, PTL

-----------------------------------------------------------------------------

\* The detector, the UBI volumes, the U-Boot environment and the overlay engine
\* read /proc and /sys while both are mounted.
THEOREM ProcAndSysAreMounted == Spec => []ProcAndSysMounted
<1>1. BootInv => ProcAndSysMounted
  BY DEF BootInv, StageOne, Running, Proc, Sys, ProcAndSysMounted
<1> QED
  BY <1>1, BootInvAlways, PTL

\* A run to the end of main(), and a first stage whose rollback ended, leave
\* neither /proc nor /sys mounted.
THEOREM NothingIsLeftBehind == Spec => []NothingLeftBehind
<1>1. ASSUME RollingBack, at1 \notin DOMAIN paths1 PROVE Proc = 0 /\ Sys = 0
  BY <1>1, ListProperties DEF RollingBack
<1>2. BootInv => NothingLeftBehind
  BY <1>1 DEF BootInv, StageOne, Proc, Sys, NothingLeftBehind
<1> QED
  BY <1>2, BootInvAlways, PTL

\* The persistent memory, once stage 2 mounted it, stays mounted.
THEOREM PersistentMemoryStays == Spec => []PersistentStays
<1>1. BootInv => PersistentStays
  BY DEF BootInv, StageTwo, Volume, Persistent, PersistentStays
<1> QED
  BY <1>1, BootInvAlways, PTL

-----------------------------------------------------------------------------
(* No step leaves main() where it was: under the fairness of Spec this is   *)
(* what makes it come to its end.                                           *)

\* How far main() is.
Position ==
  CASE pc = "add_proc" -> 15 [] pc = "add_sys" -> 14 [] pc = "prepare" -> 13
    [] pc = "stage1" -> 12 [] pc = "detect" -> 11 [] pc = "path" -> 10
    [] pc = "stage2" -> 9 [] pc = "system_conf" -> 8 [] pc = "fw_env_conf" -> 7
    [] pc = "ramdisk" -> 6 [] pc = "extract" -> 5 [] pc = "engine" -> 4
    [] pc = "remove_sys" -> 3 [] pc = "remove_proc" -> 2 [] OTHER -> 1

\* How far prepare() is, and the elements its loop has not worked on.
Progress(status) ==
  CASE status = "open" -> 3 [] status = "mounting" -> 2 [] status = "rollback" -> 1 [] OTHER -> 0

Left(prep, paths, at, status) == Len(IF status = "mounting" THEN prep ELSE paths) - at + 1

Left1 == Left(prep1, paths1, at1, status1)
Left2 == Left(prep2, paths2, at2, status2)

Descends ==
  \/ Position' < Position
  \/ /\ pc = "stage1" /\ pc' = pc
     /\ \/ Progress(status1)' < Progress(status1)
        \/ status1' = status1 /\ Left1 > 0 /\ Left1' = Left1 - 1
  \/ /\ pc = "stage2" /\ pc' = pc
     /\ \/ Progress(status2)' < Progress(status2)
        \/ status2' = status2 /\ Left2 > 0 /\ Left2' = Left2 - 1

LEMMA StageOneDescends ==
  ASSUME TypeOK, Stage1!PrepareStep
  PROVE  \/ Progress(status1)' < Progress(status1)
         \/ status1' = status1 /\ Left1 > 0 /\ Left1' = Left1 - 1
<1>0. /\ at1 \in Nat /\ Len(prep1) \in Nat /\ Len(paths1) \in Nat
      /\ DOMAIN prep1 = 1 .. Len(prep1) /\ DOMAIN paths1 = 1 .. Len(paths1)
  BY LenProperties DEF TypeOK, Stage1!TypeOK
<1>1. CASE Stage1!MountNext
  BY <1>0, <1>1 DEF Stage1!MountNext, Left1, Left
<1>2. CASE Stage1!RollbackNext
  BY <1>0, <1>2 DEF Stage1!RollbackNext, Left1, Left
<1>3. CASE Stage1!MountFails \/ Stage1!PrepareEnds \/ Stage1!RollbackFails \/ Stage1!RollbackEnds
  BY <1>3 DEF Stage1!MountFails, Stage1!PrepareEnds, Stage1!RollbackFails, Stage1!RollbackEnds,
              Progress
<1> QED
  BY <1>1, <1>2, <1>3 DEF Stage1!PrepareStep

LEMMA StageTwoDescends ==
  ASSUME TypeOK, Stage2!Prepare \/ Stage2!PrepareStep
  PROVE  \/ Progress(status2)' < Progress(status2)
         \/ status2' = status2 /\ Left2 > 0 /\ Left2' = Left2 - 1
<1>0. /\ at2 \in Nat /\ Len(prep2) \in Nat /\ Len(paths2) \in Nat
      /\ DOMAIN prep2 = 1 .. Len(prep2) /\ DOMAIN paths2 = 1 .. Len(paths2)
  BY LenProperties DEF TypeOK, Stage2!TypeOK
<1>1. CASE Stage2!MountNext
  BY <1>0, <1>1 DEF Stage2!MountNext, Left2, Left
<1>2. CASE Stage2!RollbackNext
  BY <1>0, <1>2 DEF Stage2!RollbackNext, Left2, Left
<1>3. CASE \/ Stage2!Prepare \/ Stage2!MountFails \/ Stage2!PrepareEnds
           \/ Stage2!RollbackFails \/ Stage2!RollbackEnds
  BY <1>3 DEF Stage2!Prepare, Stage2!MountFails, Stage2!PrepareEnds, Stage2!RollbackFails,
              Stage2!RollbackEnds, Progress
<1> QED
  BY <1>1, <1>2, <1>3 DEF Stage2!PrepareStep

LEMMA MainStepDescends == TypeOK /\ Next => Descends
<1> SUFFICES ASSUME TypeOK, Next PROVE Descends
  OBVIOUS
<1>1. CASE Stage1Step
  BY <1>1, StageOneDescends DEF Stage1Step, Goto, Descends
<1>2. CASE Stage2Step
  BY <1>2, StageTwoDescends DEF Stage2Step, Goto, Descends
<1>3. CASE AddProc \/ AddSys \/ PrepareStage1 \/ Stage1Ok \/ Stage1Failed
  BY <1>3 DEF AddProc, AddSys, PrepareStage1, Stage1Ok, Stage1Failed, Goto, Leave, Descends,
              Position
<1>4. CASE DetectMemory
  <2>1. pc = "detect" /\ (pc' = "path" \/ pc' = "end")
    BY <1>4, Zenon DEF DetectMemory, Goto, Leave
  <2> QED
    BY <2>1 DEF Descends, Position
<1>5. CASE PathFails \/ PathFound \/ Stage2Ends \/ SystemConf \/ FwEnvConf
  BY <1>5 DEF PathFails, PathFound, Stage2Ends, SystemConf, FwEnvConf, Goto, Descends, Position
<1>6. CASE PrepareRamdisk \/ PrepareRamdiskFails \/ Extract \/ ExtractSpins \/ RunEngine
  BY <1>6 DEF PrepareRamdisk, PrepareRamdiskFails, Extract, ExtractSpins, RunEngine, Goto,
              Descends, Position
<1>7. CASE RemoveSys \/ RemoveProc
  BY <1>7 DEF RemoveSys, RemoveProc, Goto, Leave, Descends, Position
<1> QED
  BY <1>1, <1>2, <1>3, <1>4, <1>5, <1>6, <1>7 DEF Next

\* Each step of main() goes to a later position, works on one more element of
\* the list that is mounted or rolled back, or ends the loop over it: no catch
\* block leads back, whatever fails.
THEOREM MainDescends == Spec => [][Next => Descends]_vars
BY MainStepDescends, TypeCorrect, PTL DEF Spec

=============================================================================
