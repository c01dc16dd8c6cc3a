------------------------- MODULE BoincConfiguration -------------------------
(***************************************************************************)
(* The configuration: its parameters in memory, each read and written      *)
(* under the mutex, and config.xml, which boincConfigurationStore          *)
(* replaces: a temporary file is written, the old file unlinked, the new   *)
(* one renamed.  Two threads store: the main loop, after each update from  *)
(* the server and each work unit it counts, and the user interface, when   *)
(* the user changes the login.  No lock is held over a store, and both     *)
(* write one temporary file.  A program that is killed starts again, and   *)
(* loads what it finds.                                                    *)
(*                                                                         *)
(* Of the parameters the model has the ones with a life: the host id that  *)
(* the server gives, the login in its two parts, the number of work units, *)
(* and the authenticator, which is not stored.  The file is shorter than a *)
(* stdio buffer: what a store prints reaches the disk in fclose.           *)
(***************************************************************************)
EXTENDS Naturals, Sequences

CONSTANTS
    Logins,     \* logins that the server accepts
    AppLogin,   \* the one that the application sets when it starts
    HostIds,    \* host ids that the server gives
    MaxTotal,   \* bound: work units counted
    MaxKills,   \* bound: kills
    MaxChanges, \* bound: changes of the login
    Faults

FaultKinds == {
    "kill", \* the process is killed
    "open", \* the temporary file cannot be opened
    "full"} \* the disk is full when the file is closed

ASSUME LoginsAssumption == AppLogin \in Logins
ASSUME BoundsAssumption == {MaxTotal, MaxKills, MaxChanges} \subseteq Nat
ASSUME FaultsAssumption == Faults \subseteq FaultKinds

VARIABLES
    conf,    \* the parameters in memory
    phase,   \* the program: down, loading, running, or failed
    pc,      \* what each thread does next
    buffer,  \* what it has printed of its store, not yet on the disk
    handle,  \* where the file that it writes is now: tmp, file, gone, or none
    login,   \* the login that it works with: of the call, or read
    disk,    \* config.xml.tmp and config.xml
    kills, changes,
    stored,  \* history: what the last store put in place
    counted, \* history: work units whose store was done
    saved,   \* history: the login of the last change that returned without error
    overlap, \* history: two calls overlapped
    full,    \* history: a flush failed
    torn     \* history: a kill came between unlink and rename (cut), and then a
             \* start found no file (lost), or neither (no)

vars == <<conf, phase, pc, buffer, handle, login, disk, kills, changes,
          stored, counted, saved, overlap, full, torn>>
history == <<stored, counted, saved, overlap, full, torn>>

Threads == {"main", "ui"}
Other(t) == CHOOSE u \in Threads : u # t

Unset == "unset"
Missing == <<"missing">>
Empty == <<"empty">>
Garbled == <<"garbled">>
NoHost == "0"

\* The parameters that are stored, in the order of their indices.
Storable == <<"hostid", "email", "password", "total">>
Position(parameter) == CHOOSE k \in DOMAIN Storable : Storable[k] = parameter
Params == {"hostid", "email", "password", "total", "authenticator"}

IsWhole(content) == Len(content) = Len(Storable)
ValueIn(content, parameter) == content[Position(parameter)]
-----------------------------------------------------------------------------
(* Calls *)

Begins(t) ==
    /\ phase = "running" /\ pc[t] = "idle"
    /\ overlap' = (overlap \/ pc[Other(t)] # "idle")

Set(parameter, value) == conf' = [conf EXCEPT ![parameter] = value]

Goto(t, step) == pc' = [pc EXCEPT ![t] = step]
-----------------------------------------------------------------------------
(* boincConfigurationStore and boincRenameFile *)

Open(t) ==
    /\ pc[t] = "open"
    /\ disk' = [disk EXCEPT !.tmp = Empty]
    /\ handle' = [handle EXCEPT ![t] = "tmp"]
    /\ buffer' = [buffer EXCEPT ![t] = << >>]
    /\ Goto(t, "print")
    /\ UNCHANGED <<conf, phase, login, kills, changes, history>>

PrintParameter(t) ==
    /\ pc[t] = "print"
    /\ LET k == Len(buffer[t]) + 1
       IN  IF k \in DOMAIN Storable
           THEN /\ buffer' = [buffer EXCEPT ![t] = Append(@, conf[Storable[k]])]
                /\ UNCHANGED pc
           ELSE Goto(t, "close") /\ UNCHANGED buffer
    /\ UNCHANGED <<conf, phase, handle, login, disk, kills, changes, history>>

\* What another thread has written to the same file is overwritten from its
\* start; a rest of it may stay at the end.
Written(old, new) == IF old \in {Empty, new} THEN {new} ELSE {new, Garbled}

\* A slip: what was printed is still in the buffer when the file is renamed.
CloseUnflushed(t) ==
    /\ pc[t] = "close"
    /\ handle' = [handle EXCEPT ![t] = "none"]
    /\ buffer' = [buffer EXCEPT ![t] = << >>]
    /\ Goto(t, "unlink")
    /\ UNCHANGED <<conf, phase, login, disk, kills, changes, history>>

\* The result of fclose is not looked at.
Close(t) ==
    /\ pc[t] = "close"
    /\ \/ /\ IF handle[t] = "gone" THEN UNCHANGED disk
             ELSE \E content \in Written(disk[handle[t]], buffer[t]) :
                     disk' = [disk EXCEPT ![handle[t]] = content]
          /\ UNCHANGED full
       \/ "full" \in Faults /\ full' = TRUE /\ UNCHANGED disk
    /\ handle' = [handle EXCEPT ![t] = "none"]
    /\ buffer' = [buffer EXCEPT ![t] = << >>]
    /\ Goto(t, "unlink")
    /\ UNCHANGED <<conf, phase, login, kills, changes, stored, counted, saved, overlap, torn>>

\* The handles of the threads after config.xml is unlinked, or replaced by the other.
Unlinked(h) == IF h = "file" THEN "gone" ELSE h
Renamed(h) == IF h = "tmp" THEN "file" ELSE Unlinked(h)

Unlink(t) ==
    /\ pc[t] = "unlink"
    /\ disk' = [disk EXCEPT !.file = Missing]
    /\ handle' = [u \in Threads |-> Unlinked(handle[u])]
    /\ Goto(t, "rename")
    /\ UNCHANGED <<conf, phase, buffer, login, kills, changes, history>>

\* What follows a store.  An error of boincConfigurationLoad is fatal to the
\* program; one of the main loop is logged, one of a change is returned.
Returns(t, ok) ==
    /\ Goto(t, "idle")
    /\ login' = [login EXCEPT ![t] = << >>]
    /\ phase' = CASE phase = "loading" /\ ok -> "running"
                  [] phase = "loading" /\ ~ok -> "failed"
                  [] OTHER -> phase
    /\ saved' = IF t = "ui" /\ ok THEN login[t][1] ELSE saved
    /\ counted' = IF t = "main" /\ ok /\ conf["total"] > counted THEN conf["total"] ELSE counted

Rename(t) ==
    /\ pc[t] = "rename"
    /\ IF disk.tmp = Missing
       THEN Returns(t, FALSE) /\ UNCHANGED <<disk, handle, stored>>
       ELSE /\ disk' = [tmp |-> Missing, file |-> disk.tmp]
            /\ handle' = [u \in Threads |-> Renamed(handle[u])]
            /\ stored' = disk.tmp
            /\ Returns(t, TRUE)
    /\ UNCHANGED <<conf, buffer, kills, changes, overlap, full, torn>>

OpenFails(t) ==
    /\ pc[t] = "open" /\ "open" \in Faults
    /\ Returns(t, FALSE)
    /\ UNCHANGED <<conf, buffer, handle, disk, kills, changes, stored, overlap, full, torn>>
-----------------------------------------------------------------------------
(* The main loop *)

\* boincProxyInit, of each start: project.xml has the URL of the scheduler, which is
\* not stored; what is stored is what there was.
InitProxy ==
    /\ Begins("main") /\ conf["authenticator"] = Unset
    /\ Goto("main", "open")
    /\ UNCHANGED <<conf, phase, buffer, handle, login, disk, kills, changes,
                   stored, counted, saved, full, torn>>

\* boincConfigurationUpdateFromFile with an answer of the server, which parses to
\* its end and is stored, or does not, and then what was set stays set.
Update(host) ==
    /\ Begins("main")
    /\ conf["authenticator"] # Unset /\ conf["hostid"] \in {NoHost, host}
    /\ Set("hostid", host)
    /\ \/ Goto("main", "open")
       \/ UNCHANGED pc
    /\ UNCHANGED <<phase, buffer, handle, login, disk, kills, changes,
                   stored, counted, saved, full, torn>>

\* A slip: the number is kept in memory until the next store.
CountUnstored ==
    /\ Begins("main") /\ conf["total"] < MaxTotal
    /\ conf["authenticator"] # Unset
    /\ Set("total", conf["total"] + 1)
    /\ counted' = conf["total"] + 1
    /\ UNCHANGED <<phase, pc, buffer, handle, login, disk, kills, changes,
                   stored, saved, full, torn>>

\* The end of a work unit in boincSchedulerHandleEvent.
Count ==
    /\ Begins("main") /\ conf["total"] < MaxTotal
    /\ conf["authenticator"] # Unset
    /\ Set("total", conf["total"] + 1)
    /\ Goto("main", "open")
    /\ UNCHANGED <<phase, buffer, handle, login, disk, kills, changes,
                   stored, counted, saved, full, torn>>

\* boincProxyAuthenticate: both parts of the login are read ...
ReadLogin ==
    /\ IF login["main"] = << >>
       THEN Begins("main") /\ conf["authenticator"] = Unset
       ELSE pc["main"] = "authenticate" /\ Len(login["main"]) = 1 /\ UNCHANGED overlap
    /\ login' = [login EXCEPT !["main"] =
                    Append(@, conf[IF @ = << >> THEN "email" ELSE "password"])]
    /\ Goto("main", "authenticate")
    /\ UNCHANGED <<conf, phase, buffer, handle, disk, kills, changes,
                   stored, counted, saved, full, torn>>

\* ... and the server answers with an authenticator if they belong together.
Authenticate ==
    /\ pc["main"] = "authenticate" /\ Len(login["main"]) = 2
    /\ IF login["main"][1] = login["main"][2]
       THEN /\ Set("authenticator", login["main"][1])
            /\ Goto("main", "open") /\ UNCHANGED login
       ELSE /\ Goto("main", "idle") /\ login' = [login EXCEPT !["main"] = << >>]
            /\ UNCHANGED conf
    /\ UNCHANGED <<phase, buffer, handle, disk, kills, changes, history>>
-----------------------------------------------------------------------------
(* boincProxyChangeAuthentication, called by the user interface *)

StartChange(l) ==
    /\ Begins("ui") /\ changes < MaxChanges
    /\ changes' = changes + 1
    /\ login' = [login EXCEPT !["ui"] = <<l>>]
    /\ Goto("ui", "authenticator")
    /\ UNCHANGED <<conf, phase, buffer, handle, disk, kills, stored, counted, saved,
                   full, torn>>

NextParameter == [authenticator |-> "email", email |-> "password", password |-> "open"]

\* A slip: the parts of the login that are stored are not changed.
SetAuthenticatorOnly ==
    /\ pc["ui"] \in DOMAIN NextParameter
    /\ Set("authenticator", login["ui"][1])
    /\ Goto("ui", "open")
    /\ UNCHANGED <<phase, buffer, handle, login, disk, kills, changes, history>>
SetLogin ==
    /\ pc["ui"] \in DOMAIN NextParameter
    /\ Set(pc["ui"], login["ui"][1])
    /\ Goto("ui", NextParameter[pc["ui"]])
    /\ UNCHANGED <<phase, buffer, handle, login, disk, kills, changes, history>>

-----------------------------------------------------------------------------
(* Start and kill *)

\* The values that the application sets before it loads.
Preset == [hostid |-> Unset, email |-> AppLogin, password |-> AppLogin, total |-> 0,
           authenticator |-> Unset]

\* A slip: the parameters are left as the application set them.
NoDefault == Preset

\* boincConfigurationCreateDefault.
Default == [Preset EXCEPT !.hostid = NoHost]

InFile(content) == [parameter \in Params |->
    IF parameter = "authenticator" THEN Unset ELSE ValueIn(content, parameter)]

\* boincConfigurationLoad: a missing file is not an error, a file that does not
\* parse is, for ever; a whole one is stored again.
Load ==
    /\ phase \in {"down", "failed"}
    /\ \/ /\ disk.file = Missing
          /\ conf' = Default
          /\ phase' = "running"
          /\ torn' = IF torn = "cut" THEN "lost" ELSE torn
          /\ UNCHANGED pc
       \/ /\ IsWhole(disk.file)
          /\ conf' = InFile(disk.file)
          /\ phase' = "loading" /\ Goto("main", "open")
          /\ UNCHANGED torn
       \/ /\ disk.file \in {Empty, Garbled}
          /\ phase' = "failed"
          /\ UNCHANGED <<conf, pc, torn>>
    /\ UNCHANGED <<buffer, handle, login, disk, kills, changes,
                   stored, counted, saved, overlap, full>>

Kill ==
    /\ "kill" \in Faults /\ kills < MaxKills
    /\ phase \in {"loading", "running"}
    /\ kills' = kills + 1
    /\ phase' = "down" /\ conf' = Preset
    /\ pc' = [t \in Threads |-> "idle"]
    /\ buffer' = [t \in Threads |-> << >>]
    /\ handle' = [t \in Threads |-> "none"]
    /\ login' = [t \in Threads |-> << >>]
    /\ torn' = IF torn = "no" /\ \E t \in Threads : pc[t] = "rename" THEN "cut" ELSE torn
    /\ UNCHANGED <<disk, changes, stored, counted, saved, overlap, full>>
-----------------------------------------------------------------------------
Init ==
    /\ conf = Preset /\ phase = "down"
    /\ pc = [t \in Threads |-> "idle"]
    /\ buffer = [t \in Threads |-> << >>]
    /\ handle = [t \in Threads |-> "none"]
    /\ login = [t \in Threads |-> << >>]
    /\ disk = [tmp |-> Missing, file |-> Missing]
    /\ kills = 0 /\ changes = 0
    /\ stored = Missing /\ counted = 0 /\ saved = Unset
    /\ overlap = FALSE /\ full = FALSE /\ torn = "no"

Store(t) == Open(t) \/ OpenFails(t) \/ PrintParameter(t) \/ Close(t) \/ Unlink(t) \/ Rename(t)

Next ==
    \/ Load \/ Kill
    \/ \E t \in Threads : Store(t)
    \/ \E host \in HostIds : Update(host)
    \/ InitProxy \/ Count \/ ReadLogin \/ Authenticate
    \/ \E l \in Logins : StartChange(l)
    \/ SetLogin

Spec == Init /\ [][Next]_vars
-----------------------------------------------------------------------------
(* Safety *)

Contents == {Missing, Empty, Garbled}
    \cup {<<h, e, p, n>> : h \in HostIds \cup {NoHost}, e \in Logins, p \in Logins,
                           n \in 0..MaxTotal}

\* Types of the configuration.
TypeOK ==
    /\ conf["hostid"] \in HostIds \cup {NoHost, Unset}
    /\ {conf["email"], conf["password"]} \subseteq Logins
    /\ conf["total"] \in 0..MaxTotal
    /\ conf["authenticator"] \in Logins \cup {Unset}
    /\ phase \in {"down", "loading", "running", "failed"}
    /\ disk \in [{"tmp", "file"} -> Contents]
    /\ \A t \in Threads : Len(buffer[t]) <= Len(Storable)
    /\ handle \in [Threads -> {"tmp", "file", "gone", "none"}]
    /\ stored \in Contents
    /\ torn \in {"no", "cut", "lost"}

\* Whatever is killed, config.xml has what the last store put there, or is missing
\* because a store has just unlinked it, and then the whole new file waits under
\* its temporary name.  Excepted are overlapping calls, a full disk, and what follows
\* a start after a kill in that gap: it does not look for the temporary file, and its
\* first store writes over the only copy.
OneCopyIsWhole ==
    \/ overlap \/ full \/ torn = "lost"
    \/ disk.file = stored
    \/ disk.file = Missing /\ IsWhole(disk.tmp)

\* A work unit that was counted and stored stays counted, through kills and restarts,
\* with the same exceptions: only overlapping calls, a full disk, or a kill between
\* the unlink and the rename of a store lose the count.
CountIsKept ==
    phase \in {"loading", "running"} /\ ~overlap /\ ~full /\ torn # "lost"
        => conf["total"] >= counted

Quiet == \A t \in Threads : pc[t] = "idle"

LoginsAgree ==
    \/ conf["authenticator"] = Unset
    \/ conf["authenticator"] = conf["email"] /\ conf["email"] = conf["password"]

\* The requests use the authenticator of the login that is configured, unless two calls
\* overlapped: authentications and changes, each of several locked steps, leave one
\* whole login behind when they come one after the other, with kills between any two.
OneLoginInUse ==
    Quiet /\ phase = "running" /\ ~overlap => LoginsAgree

\* The same without the exception: "After a successful call to this function, all
\* subsequent request to the server will use the new login" (BoincLite.h:300-302).
\* Here saved is the login of the last successful call.
NewLoginInUse ==
    Quiet /\ phase = "running" /\ saved # Unset
        => conf["authenticator"] \in {Unset, saved}

\* boincSchedulerChangeAuthentication "saves it for future use" (BoincLite.h:300).
SavedForFutureUse ==
    Quiet /\ phase = "running" /\ saved # Unset
        => /\ IsWhole(disk.file)
           /\ ValueIn(disk.file, "email") = saved
           /\ ValueIn(disk.file, "password") = saved
=============================================================================
