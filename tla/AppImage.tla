------------------------------ MODULE AppImage ------------------------------
(***************************************************************************)
(* DynamicMounting::mount_application: choose the application image from   *)
(* the U-Boot environment (determine_application_image,                    *)
(* detect_failedUpdate_app_fw_reboot, UBoot::getVariable) and mount it     *)
(* through a loop device (Mount::mount_application_image).  Any call of    *)
(* libubootenv and any system call can fail, and a variable can have any   *)
(* of the listed contents or be missing.                                   *)
(*                                                                         *)
(* The text of a number is the integer it begins with, as std::stoul reads *)
(* it, or NotANumber.                                                      *)
(***************************************************************************)
EXTENDS Integers, Sequences

CONSTANTS
  Numbers,       \* integers a numeric variable can begin with
  NotANumber,    \* the content of a variable that does not begin with one
  Modulus        \* ULONG_MAX + 1

ASSUME NumbersAssumption == Numbers \subseteq Int /\ NotANumber \notin Int
ASSUME ModulusAssumption == Modulus \in Nat /\ Modulus > 256

VARIABLES
  pc,        \* where mount_application is
  next,      \* index of the variable that is read
  ctx,       \* the libubootenv context of getVariable
  content,   \* the contents that were read, accepted or not
  image,     \* application_image
  fds,       \* loopctlfd, loopfd and backingfile, when open
  loop,      \* the loop device
  todo,      \* system calls still to make before the function is left
  container  \* what is mounted at PATH_TO_MOUNT_APPIMAGE

env  == <<next, ctx, content, image>>
dev  == <<fds, loop, todo, container>>
vars == <<pc, env, dev>>

\* In the order in which they are read; the last one only after a failed update.
Reads == <<"application", "BOOT_ORDER", "BOOT_ORDER_OLD", "rauc_cmd",
           "BOOT_A_LEFT", "BOOT_B_LEFT", "update_reboot_state">>
Last == Len(Reads)
Tries   == {"BOOT_A_LEFT", "BOOT_B_LEFT"}
Numeric == Tries \cup {"update_reboot_state"}

\* A content has a text, and the number it begins with.
Texts(S) == [text : S, number : {NotANumber}]

Contents(v) ==
  CASE v = "application" -> Texts({"A", "B", "AB", "C"})
    [] v \in {"BOOT_ORDER", "BOOT_ORDER_OLD"} -> Texts({"A B", "B A", "A"})
    [] v = "rauc_cmd" -> Texts({"rauc.slot=A", "rauc.slot=B", "rauc.slot="})
    [] OTHER -> [text : {""}, number : Numbers \cup {NotANumber}]

\* "lost": the context was freed while the environment was still open in it.
Contexts == {"none", "initialised", "configured", "opened", "lost"}

PCs   == {"env", "exists", "control", "free", "loop", "file", "attach", "mount",
          "leave", "mounted", "thrown"}
Calls == {"clear", "close file", "close loop", "remove", "close control"}

TypeOK ==
  /\ pc \in PCs
  /\ next \in 1..Last + 1
  /\ ctx \in Contexts
  /\ DOMAIN content = {Reads[i] : i \in 1..next - 1} \/ pc = "thrown"
  /\ image \in {"none", "A", "B"}
  /\ fds \subseteq {"control", "loop", "file"}
  /\ loop \in {"none", "allocated", "attached"}
  /\ todo \in Seq(Calls)
  /\ container \in {"none", "A", "B"}

Init ==
  /\ pc = "env"
  /\ next = 1
  /\ ctx = "none"
  /\ content = <<>>
  /\ image = "none"
  /\ fds = {}
  /\ loop = "none"
  /\ todo = <<>>
  /\ container = "none"

-----------------------------------------------------------------------------
(* UBoot::getVariable                                                      *)

\* std::stoul: a negative number is taken modulo 2^w; what does not fit throws.
Converts(n) == n # NotANumber /\ -Modulus < n /\ n < Modulus
stoul(n)    == n % Modulus

Allowed == [v \in Numeric |-> IF v \in Tries THEN 0..3 ELSE 0..12]

AcceptsNumberCast(v, n) == Converts(n) /\ stoul(n) % 256 \in Allowed[v]   \* mutant

\* Only numbers up to UCHAR_MAX are converted to uint8_t.
AcceptsNumber(v, n) ==
  /\ Converts(n)
  /\ stoul(n) <= 255
  /\ stoul(n) % 256 \in Allowed[v]

Accepts(v, c) ==
  CASE v = "application" -> c.text \in {"A", "B"}
    [] v \in {"BOOT_ORDER", "BOOT_ORDER_OLD"} -> c.text \in {"A B", "B A"}
    [] v = "rauc_cmd" -> c.text \in {"rauc.slot=A", "rauc.slot=B"}
    [] OTHER -> AcceptsNumber(v, c.number)

\* What the engine works with.
Number(v) == stoul(content[v].number) % 256
Text(v)   == content[v].text

First(order) == IF order = "A B" THEN "A" ELSE "B"
Slot(cmd)    == IF cmd = "rauc.slot=A" THEN "A" ELSE "B"

\* detect_failedUpdate_app_fw_reboot
FailedUpdate ==
  /\ Slot(Text("rauc_cmd")) = First(Text("BOOT_ORDER_OLD"))
  /\ \E v \in Tries : Number(v) = 0
  /\ Text("BOOT_ORDER_OLD") # Text("BOOT_ORDER")

\* The variable that is read next; the last one only if the update failed.
Reading ==
  /\ pc = "env"
  /\ next < Last \/ (next = Last /\ FailedUpdate)

Throw == pc' = "thrown"

Proceed(from, to) ==
  /\ Reading
  /\ ctx = from
  /\ ctx' = to
  /\ UNCHANGED <<pc, next, content, image, dev>>

Initialize == Proceed("none", "initialised")
ReadConfig == Proceed("initialised", "configured")
OpenEnv    == Proceed("configured", "opened")

\* libuboot_close and libuboot_exit: the second does not do the work of the
\* first.
CloseEnv(c) == IF c = "opened" THEN "configured" ELSE c
ExitEnv(c)  == IF c = "opened" THEN "lost" ELSE "none"

\* Mutant: an open environment is not closed.
GivenUpOpen(c) == IF c = "none" THEN "none" ELSE ExitEnv(c)

\* What each way out of getVariable calls, by how far it came: nothing when
\* libuboot_initialize failed, both when the environment is open.
GivenUp(c) ==
  CASE c = "none" -> "none"
    [] c = "opened" -> ExitEnv(CloseEnv(c))
    [] OTHER -> ExitEnv(c)

\* libuboot_initialize, libuboot_read_config or libuboot_open fails.
GetVariableFails ==
  /\ Reading
  /\ ctx \in {"none", "initialised", "configured"}
  /\ ctx' = GivenUp(ctx)
  /\ Throw
  /\ UNCHANGED <<next, content, image, dev>>

\* Mutant: a missing variable is passed over.
MissingVariableIgnored ==
  /\ Reading
  /\ ctx = "opened"
  /\ ctx' = GivenUp(ctx)
  /\ next' = next + 1
  /\ UNCHANGED <<pc, content, image, dev>>

\* Mutant: a missing variable is read again.
MissingVariableRetried ==
  /\ Reading
  /\ ctx = "opened"
  /\ ctx' = GivenUp(ctx)
  /\ UNCHANGED <<pc, next, content, image, dev>>

\* libuboot_get_env returns NULL.
MissingVariable ==
  /\ Reading
  /\ ctx = "opened"
  /\ ctx' = GivenUp(ctx)
  /\ Throw
  /\ UNCHANGED <<next, content, image, dev>>

\* The context is given up before the content is converted and compared with
\* the list of allowed values.
GetVariable ==
  /\ Reading
  /\ ctx = "opened"
  /\ ctx' = GivenUp(ctx)
  /\ \E c \in Contents(Reads[next]) :
       /\ content' = [v \in DOMAIN content \cup {Reads[next]} |->
                        IF v = Reads[next] THEN c ELSE content[v]]
       /\ IF Accepts(Reads[next], c)
          THEN next' = next + 1 /\ UNCHANGED pc
          ELSE Throw /\ UNCHANGED next
  /\ UNCHANGED <<image, dev>>

-----------------------------------------------------------------------------
(* determine_application_image                                             *)

\* ROLLBACK_APP_FW_REBOOT_PENDING and INCOMPLETE_APP_FW_ROLLBACK
RollbackPending == {9}   \* mutant: one of the two states
Rollback == {9, 12}

DetermineImage ==
  /\ pc = "env"
  /\ ctx = "none"
  /\ \/ next = Last /\ ~FailedUpdate /\ image' = Text("application")
     \/ /\ next = Last + 1
        /\ image' =
             IF \/ Text("application") = "B" /\ Number("update_reboot_state") \in Rollback
                \/ Text("application") = "A" /\ Number("update_reboot_state") \notin Rollback
             THEN "B" ELSE "A"
  /\ pc' = "exists"
  /\ UNCHANGED <<next, ctx, content, dev>>

-----------------------------------------------------------------------------
(* mount_application and mount_application_image                           *)

Goto(p) == pc' = p /\ UNCHANGED env

ImageFound ==
  /\ pc = "exists"
  /\ Goto("control")
  /\ UNCHANGED dev

ImageNotFound ==
  /\ pc = "exists"
  /\ Goto("thrown")
  /\ UNCHANGED dev

OpenControl ==
  /\ pc = "control"
  /\ fds' = fds \cup {"control"}
  /\ Goto("free")
  /\ UNCHANGED <<loop, todo, container>>

GetFreeDevice ==
  /\ pc = "free"
  /\ loop' = "allocated"
  /\ Goto("loop")
  /\ UNCHANGED <<fds, todo, container>>

OpenLoop ==
  /\ pc = "loop"
  /\ fds' = fds \cup {"loop"}
  /\ Goto("file")
  /\ UNCHANGED <<loop, todo, container>>

OpenFile ==
  /\ pc = "file"
  /\ fds' = fds \cup {"file"}
  /\ Goto("attach")
  /\ UNCHANGED <<loop, todo, container>>

Attach ==
  /\ pc = "attach"
  /\ loop' = "attached"
  /\ Goto("mount")
  /\ UNCHANGED <<fds, todo, container>>

MountImage ==
  /\ pc = "mount"
  /\ container' = image
  /\ todo' = <<"close loop", "close control", "close file">>
  /\ Goto("leave")
  /\ UNCHANGED <<fds, loop>>

CleanupUnordered ==   \* mutant: the device is removed while it is open
  [p \in {"control", "free", "loop", "file", "attach", "mount"} |->
     CASE p = "control" -> <<>>
       [] p = "free" -> <<"close control">>
       [] p = "loop" -> <<"remove", "close control">>
       [] OTHER -> <<"clear", "remove", "close control", "close loop", "close file">>]

\* What is called before the exception is thrown, by the call that failed.
Cleanup ==
  [p \in {"control", "free", "loop", "file", "attach", "mount"} |->
     CASE p = "control" -> <<>>
       [] p = "free" -> <<"close control">>
       [] p = "loop" -> <<"remove", "close control">>
       [] p = "file" -> <<"close loop", "remove", "close control">>
       [] p = "attach" -> <<"close file", "close loop", "remove", "close control">>
       [] p = "mount" -> <<"clear", "close file", "close loop", "remove", "close control">>]

CallFails ==
  /\ pc \in DOMAIN Cleanup
  /\ todo' = Cleanup[pc]
  /\ Goto("leave")
  /\ UNCHANGED <<fds, loop, container>>

Closes == [c \in Calls |-> CASE c = "close file" -> {"file"} [] c = "close loop" -> {"loop"}
                             [] c = "close control" -> {"control"} [] OTHER -> {}]

\* One of the calls on the way out.  LOOP_CTL_REMOVE fails, and nobody looks,
\* while the device is open or attached.
LeaveCall ==
  /\ pc = "leave"
  /\ todo # <<>>
  /\ fds' = fds \ Closes[Head(todo)]
  /\ loop' = CASE Head(todo) = "clear" -> "allocated"
               [] Head(todo) = "remove" /\ "loop" \notin fds /\ loop = "allocated" -> "none"
               [] OTHER -> loop
  /\ todo' = Tail(todo)
  /\ Goto("leave")
  /\ UNCHANGED container

Leave ==
  /\ pc = "leave"
  /\ todo = <<>>
  /\ Goto(IF container = "none" THEN "thrown" ELSE "mounted")
  /\ UNCHANGED dev

Next ==
  \/ Initialize \/ ReadConfig \/ OpenEnv \/ GetVariableFails \/ MissingVariable
  \/ GetVariable \/ DetermineImage
  \/ ImageFound \/ ImageNotFound
  \/ OpenControl \/ GetFreeDevice \/ OpenLoop \/ OpenFile \/ Attach \/ MountImage
  \/ CallFails \/ LeaveCall \/ Leave

\* The library's calls and the system calls return.
Spec == Init /\ [][Next]_vars /\ WF_vars(Next)

-----------------------------------------------------------------------------
(* Correctness                                                             *)

Other(a) == IF a = "A" THEN "B" ELSE "A"

\* The image is the one the variable application names, except after a firmware
\* update that failed to boot and is not being rolled back: then it is the
\* other one.  (The code lists the cases, for numbers after the conversion.)
RightImage ==
  image # "none" =>
    LET orders == {Text("BOOT_ORDER"), Text("BOOT_ORDER_OLD")}
        old    == Text("BOOT_ORDER_OLD")
        failed == /\ orders = {"A B", "B A"}
                  /\ Text("rauc_cmd") = (IF old = "A B" THEN "rauc.slot=A" ELSE "rauc.slot=B")
                  /\ 0 \in {content[v].number : v \in Tries}
    IN  image = IF failed /\ content["update_reboot_state"].number \notin {9, 12}
                THEN Other(Text("application")) ELSE Text("application")

\* Every number the engine works with is the one in the environment: no
\* content is cut down to eight bits (a negative one near -2^w, which stoul
\* turns into a small number, is left out).
NumbersKept ==
  \A v \in Numeric \cap DOMAIN content :
     (pc # "thrown" /\ content[v].number > 256 - Modulus) => content[v].number = Number(v)

\* However far the function came, it leaves with no library context and no file
\* descriptor open; the loop device is attached exactly when the chosen image
\* is mounted, and otherwise it is gone.
NothingLeft ==
  /\ pc \in {"mounted", "thrown"} => ctx = "none" /\ fds = {}
  /\ pc = "mounted" => loop = "attached" /\ container = image
  /\ pc = "thrown" => loop = "none" /\ container = "none"

\* The function returns or throws.
Termination == <>(pc \in {"mounted", "thrown"})

=============================================================================
