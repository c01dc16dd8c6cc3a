---------------------- MODULE BoincConfigurationProofs ----------------------
(***************************************************************************)
(* Proofs about BoincConfiguration, for any logins, host ids, bounds and   *)
(* faults: what is on disk after a kill anywhere, that the count of work   *)
(* units does not fall, and that one login is in use.                      *)
(*                                                                         *)
(* All three are about calls that do not overlap, so that one thread at    *)
(* most is in a call (OneCaller).  Then the file under the temporary name  *)
(* is that thread's (Storing): empty while it prints, with the parameters  *)
(* as they are in memory from its closing on.  OnDisk says that the old    *)
(* file stays until then, and what counts there; Agreement, which parts of *)
(* the login are already the new ones.                                     *)
(***************************************************************************)
EXTENDS BoincConfiguration, SequenceTheorems, TLAPS

Steps == {"idle", "open", "print", "close", "unlink", "rename",
          "authenticate", "authenticator", "email", "password"}
Changing == {"authenticator", "email", "password"}
Phases == {"down", "loading", "running", "failed"}

\* The values that a stored parameter takes.
ValuesOf(parameter) ==
    CASE parameter = "hostid" -> HostIds \cup {NoHost}
      [] parameter = "total" -> 0..MaxTotal
      [] OTHER -> Logins
Values == HostIds \cup {NoHost} \cup Logins \cup 0..MaxTotal

\* The threads, their calls and what they have printed.
Threading ==
    /\ pc \in [Threads -> Steps]
    /\ pc["main"] \notin Changing /\ pc["ui"] # "authenticate"
    /\ phase \in {"down", "failed"} => pc["main"] = "idle"
    /\ phase # "running" => pc["ui"] = "idle"
    /\ phase = "loading" => pc["main"] # "authenticate"
    /\ buffer \in [Threads -> Seq(Values)]
    /\ \A t \in Threads : \A k \in 1..Len(buffer[t]) :
          buffer[t][k] \in ValuesOf(Storable[k])
    /\ \A t \in Threads : pc[t] = "close" => Len(buffer[t]) = 4
    /\ login \in [Threads -> Seq(Logins)]
    /\ pc["ui"] # "idle" => Len(login["ui"]) = 1
    /\ overlap \in BOOLEAN /\ full \in BOOLEAN /\ counted \in 0..MaxTotal

Configured ==
    /\ DOMAIN conf = Params
    /\ phase \in {"loading", "running"} => conf["hostid"] \in HostIds \cup {NoHost}

OneCaller == overlap \/ pc["main"] = "idle" \/ pc["ui"] = "idle"

\* A store in memory and under the temporary name.
Storing ==
    overlap \/ full \/ \A t \in Threads :
        /\ pc[t] \in {"print", "close"} =>
              /\ handle[t] = "tmp" /\ disk.tmp = Empty
              /\ \A k \in 1..Len(buffer[t]) : buffer[t][k] = conf[Storable[k]]
        /\ pc[t] \in {"unlink", "rename"} =>
              /\ IsWhole(disk.tmp)
              /\ \A k \in 1..4 : disk.tmp[k] = conf[Storable[k]]

\* config.xml, and the count in it.
OnDisk ==
    overlap \/ full \/ torn = "lost" \/
        /\ OneCopyIsWhole
        /\ \A t \in Threads : pc[t] = "rename" => disk.file = Missing
        /\ torn = "no" /\ (\A t \in Threads : pc[t] # "rename") => disk.file = stored
        /\ torn = "cut" => phase = "down" /\ disk.file = Missing
        /\ stored = Missing => counted = 0
        /\ IsWhole(disk.file) => disk.file[4] >= counted
        /\ phase \in {"loading", "running"} => conf["total"] >= counted

\* How far a thread is with the login.
Agreement ==
    overlap \/
        /\ pc["ui"] \notin {"email", "password"} => LoginsAgree
        /\ pc["ui"] = "email" => conf["authenticator"] = login["ui"][1]
        /\ pc["ui"] = "password" =>
              conf["authenticator"] = login["ui"][1] /\ conf["email"] = login["ui"][1]
        /\ pc["main"] = "authenticate" =>
              /\ Len(login["main"]) >= 1 => login["main"][1] = conf["email"]
              /\ Len(login["main"]) = 2 => login["main"][2] = conf["password"]

\* The inductive invariant.
IInv == TypeOK /\ Threading /\ Configured /\ OneCaller /\ Storing /\ OnDisk /\ Agreement
-----------------------------------------------------------------------------
(* Constants *)

LEMMA Constants ==
    /\ MaxTotal \in Nat /\ AppLogin \in Logins
    /\ Len(Storable) = 4 /\ DOMAIN Storable = 1..4
    /\ Storable[1] = "hostid" /\ Storable[2] = "email"
    /\ Storable[3] = "password" /\ Storable[4] = "total"
BY BoundsAssumption, LoginsAssumption DEF Storable

LEMMA Positions ==
    /\ Position("hostid") = 1 /\ Position("email") = 2
    /\ Position("password") = 3 /\ Position("total") = 4
BY Constants DEF Position

LEMMA OtherThread == Other("main") = "ui" /\ Other("ui") = "main"
BY DEF Other, Threads

\* Only the whole contents have four values, each of its type.
LEMMA WholeContents ==
    ASSUME NEW content \in Contents
    PROVE  /\ IsWhole(content) =>
                  /\ content[1] \in HostIds \cup {NoHost} /\ content[2] \in Logins
                  /\ content[3] \in Logins /\ content[4] \in 0..MaxTotal
           /\ ~IsWhole(content) <=> content \in {Missing, Empty, Garbled}
<1>1. \A c \in {Missing, Empty, Garbled} : Len(c) = 1
    BY DEF Missing, Empty, Garbled
<1>2. CASE content \in {Missing, Empty, Garbled}
    BY <1>1, <1>2, Constants DEF IsWhole
<1>3. ASSUME NEW h \in HostIds \cup {NoHost}, NEW e \in Logins, NEW p \in Logins,
             NEW n \in 0..MaxTotal, content = <<h, e, p, n>>
      PROVE  /\ IsWhole(content)
             /\ content[1] = h /\ content[2] = e /\ content[3] = p /\ content[4] = n
    BY <1>3, Constants DEF IsWhole
<1> QED
    BY <1>1, <1>2, <1>3, Constants DEF Contents, IsWhole

\* What is printed to its end is a whole content.
LEMMA PrintedContent ==
    ASSUME NEW printed \in Seq(Values), Len(printed) = 4,
           \A k \in 1..4 : printed[k] \in ValuesOf(Storable[k])
    PROVE  printed \in Contents /\ IsWhole(printed)
<1>1. printed = <<printed[1], printed[2], printed[3], printed[4]>>
    OBVIOUS
<1>2. /\ printed[1] \in HostIds \cup {NoHost} /\ printed[2] \in Logins
      /\ printed[3] \in Logins /\ printed[4] \in 0..MaxTotal
    BY Constants DEF ValuesOf
<1> QED
    BY <1>1, <1>2, Constants DEF Contents, IsWhole

-----------------------------------------------------------------------------
(* What the steps on the files and the buffers do *)

LEMMA Lengths ==
    ASSUME TypeOK, Threading, NEW t \in Threads
    PROVE  Len(buffer[t]) \in 0..4
<1> DEFINE n == Len(buffer[t])
<1>1. n \in Nat
    BY LenProperties DEF Threading
<1>2. n <= 4
    BY Constants DEF TypeOK
<1> HIDE DEF n
<1>3. n \in 0..4
    BY <1>1, <1>2
<1> QED
    BY <1>3 DEF n

LEMMA LoginsTyped ==
    ASSUME login \in [Threads -> Seq(Logins)]
    PROVE  [login EXCEPT !["main"] = << >>] \in [Threads -> Seq(Logins)]
BY DEF Threads

\* What a store prints: the next parameter, with its value in memory.
LEMMA Printing ==
    ASSUME TypeOK, Threading, Configured, NEW t \in Threads, pc[t] = "print",
           Len(buffer[t]) < 4
    PROVE  LET k == Len(buffer[t]) + 1
               v == conf[Storable[k]]
               b == Append(buffer[t], v)
           IN  /\ v \in ValuesOf(Storable[k]) /\ b \in Seq(Values)
               /\ Len(b) = k /\ k \in 1..4 /\ b[k] = v
               /\ \A j \in 1..(k - 1) : b[j] = buffer[t][j]
<1> DEFINE k == Len(buffer[t]) + 1
           v == conf[Storable[k]]
<1>1. buffer[t] \in Seq(Values) /\ Len(buffer[t]) \in Nat
    BY DEF Threading
<1>2. k \in 1..4
    BY <1>1
<1>3. phase \in {"loading", "running"}
    BY DEF Threading, TypeOK, Threads
<1>4. v \in ValuesOf(Storable[k])
    BY <1>2, <1>3, Constants DEF ValuesOf, TypeOK, Configured
<1>5. v \in Values
    BY <1>2, <1>4, Constants DEF ValuesOf, Values
<1> QED
    BY <1>1, <1>2, <1>4, <1>5

\* What a store leaves under the name of the file that it wrote.
LEMMA Closing ==
    ASSUME TypeOK, Threading, NEW t \in Threads, Close(t)
    PROVE  /\ buffer[t] \in Contents /\ IsWhole(buffer[t])
           /\ \/ disk' = disk
              \/ \E content \in {buffer[t], Garbled} :
                    disk' = [disk EXCEPT ![handle[t]] = content]
           /\ handle[t] = "tmp" /\ disk.tmp = Empty =>
                 \/ disk' = [disk EXCEPT !.tmp = buffer[t]]
                 \/ disk' = disk /\ full'
<1>1. /\ buffer[t] \in Seq(Values) /\ Len(buffer[t]) = 4
      /\ \A k \in 1..4 : buffer[t][k] \in ValuesOf(Storable[k])
    BY DEF Threading, Close
<1>2. buffer[t] \in Contents /\ IsWhole(buffer[t])
    BY <1>1, PrintedContent
<1>3. CASE handle[t] = "gone"
    BY <1>2, <1>3 DEF Close
<1>4. CASE handle[t] # "gone"
    BY <1>2, <1>4 DEF Close, Written
<1> QED
    BY <1>3, <1>4

\* Types, step by step: what is printed has the types of the parameters, what is
\* closed is one of the contents.
LEMMA TypesNext ==
    ASSUME TypeOK, Threading, Configured, [Next]_vars
    PROVE  TypeOK'
<1> USE DEF TypeOK, Threads, Phases, history, Goto, Set, Begins, Returns
<1>1. ASSUME NEW t \in Threads, Open(t) PROVE TypeOK'
    BY <1>1, Constants DEF Open, Contents
<1>2. ASSUME NEW t \in Threads, OpenFails(t) PROVE TypeOK'
    BY <1>2, Constants DEF OpenFails
<1>3. ASSUME NEW t \in Threads, PrintParameter(t) PROVE TypeOK'
    BY <1>3, Constants DEF PrintParameter, Threading
<1>4. ASSUME NEW t \in Threads, Close(t) PROVE TypeOK'
    <2>1. disk' \in [{"tmp", "file"} -> Contents]
        BY <1>4, Closing DEF Contents
    <2>2. \A u \in Threads : Len(buffer'[u]) <= 4
        BY <1>4, Constants DEF Close, Threading
    <2>3. handle' \in [Threads -> {"tmp", "file", "gone", "none"}]
        BY <1>4 DEF Close
    <2> QED
        BY <1>4, <2>1, <2>2, <2>3, Constants DEF Close
<1>5. ASSUME NEW t \in Threads, Unlink(t) PROVE TypeOK'
    <2>1. Missing \in Contents
        BY DEF Contents
    <2>2. disk' \in [{"tmp", "file"} -> Contents]
        BY <1>5, <2>1 DEF Unlink
    <2>3. handle' \in [Threads -> {"tmp", "file", "gone", "none"}]
        BY <1>5 DEF Unlink, Unlinked
    <2> QED
        BY <1>5, <2>2, <2>3, Constants DEF Unlink
<1>6. ASSUME NEW t \in Threads, Rename(t) PROVE TypeOK'
    BY <1>6, Constants DEF Rename, Contents, Unlinked, Renamed
<1>7. CASE InitProxy
    BY <1>7, Constants DEF InitProxy
<1>8. CASE Count
    BY <1>8, Constants DEF Count, Configured, Params
<1>9. CASE ReadLogin
    BY <1>9, Constants DEF ReadLogin
<1>10. CASE Authenticate
    <2>1. login["main"][1] \in Logins
        BY <1>10, ElementOfSeq DEF Authenticate, Threading
    <2>2. /\ conf'["hostid"] = conf["hostid"] /\ conf'["email"] = conf["email"]
          /\ conf'["password"] = conf["password"] /\ conf'["total"] = conf["total"]
          /\ conf'["authenticator"] \in {conf["authenticator"], login["main"][1]}
        BY <1>10 DEF Authenticate, Configured, Params
    <2> QED
        BY <1>10, <2>1, <2>2 DEF Authenticate
<1>11. CASE SetLogin
    BY <1>11, Constants DEF SetLogin, Threading, NextParameter, Params, Configured
<1>12. CASE Load
    BY <1>12, Positions, WholeContents, Constants DEF Load, InFile, Default, Preset,
                                                      ValueIn, Params
<1>13. CASE Kill
    BY <1>13, Constants DEF Kill, Preset
<1>14. ASSUME NEW host \in HostIds, Update(host) PROVE TypeOK'
    BY <1>14, Constants DEF Update, Configured, Params
<1>15. ASSUME NEW l \in Logins, StartChange(l) PROVE TypeOK'
    BY <1>15, Constants DEF StartChange
<1>16. CASE UNCHANGED vars
    BY <1>16 DEF vars
<1> QED
    BY <1>1, <1>2, <1>3, <1>4, <1>5, <1>6, <1>7, <1>8, <1>9, <1>10, <1>11, <1>12, <1>13,
       <1>14, <1>15, <1>16 DEF Next, Store

\* A call takes its steps in their order, in a program that runs; what it has printed
\* so far has the types of the parameters.
LEMMA ThreadingNext ==
    ASSUME TypeOK, Threading, Configured, [Next]_vars
    PROVE  Threading'
<1> USE DEF TypeOK, Threading, Threads, Steps, Changing, history, Goto, Set, Begins,
            Returns
<1>1. ASSUME NEW t \in Threads, Open(t) PROVE Threading'
    BY <1>1, Constants DEF Open
<1>2. ASSUME NEW t \in Threads, OpenFails(t) PROVE Threading'
    BY <1>2, Constants DEF OpenFails
<1>3. ASSUME NEW t \in Threads, PrintParameter(t) PROVE Threading'
    <2>1. CASE Len(buffer[t]) < 4
        <3> DEFINE k == Len(buffer[t]) + 1
                   b == Append(buffer[t], conf[Storable[k]])
        <3>1. /\ b \in Seq(Values) /\ Len(b) = k /\ k \in 1..4
              /\ b[k] \in ValuesOf(Storable[k])
              /\ \A j \in 1..(k - 1) : b[j] = buffer[t][j]
            BY <1>3, <2>1, Printing DEF PrintParameter
        <3>2. buffer' = [buffer EXCEPT ![t] = b] /\ pc' = pc
            BY <1>3, <3>1, Constants DEF PrintParameter
        <3> HIDE DEF b
        <3>3. \A j \in 1..k : b[j] \in ValuesOf(Storable[j])
            <4>1. \A j \in 1..(k - 1) : buffer[t][j] \in ValuesOf(Storable[j])
                OBVIOUS
            <4>2. Len(buffer[t]) \in Nat
                BY LenProperties
            <4> HIDE DEF Threading, TypeOK
            <4> QED
                BY <3>1, <4>1, <4>2
        <3>4. buffer' \in [Threads -> Seq(Values)]
            BY <3>1, <3>2
        <3>5. \A u \in Threads : \A j \in 1..Len(buffer'[u]) :
                  buffer'[u][j] \in ValuesOf(Storable[j])
            BY <3>1, <3>2, <3>3
        <3>6. \A u \in Threads : pc'[u] = "close" => Len(buffer'[u]) = 4
            BY <1>3, <3>2 DEF PrintParameter
        <3> QED
            BY <1>3, <3>2, <3>4, <3>5, <3>6 DEF PrintParameter
    <2>2. CASE ~(Len(buffer[t]) < 4)
        <3>1. Len(buffer[t]) = 4
            <4> DEFINE n == Len(buffer[t])
            <4>1. n \in 0..4 /\ ~(n < 4)
                BY <2>2, Lengths
            <4> HIDE DEF n
            <4>2. n = 4
                BY <4>1
            <4> QED
                BY <4>2 DEF n
        <3>2. buffer' = buffer /\ pc' = [pc EXCEPT ![t] = "close"]
            BY <1>3, <3>1, Constants DEF PrintParameter
        <3> QED
            BY <1>3, <3>1, <3>2 DEF PrintParameter
    <2> QED
        BY <2>1, <2>2
<1>4. ASSUME NEW t \in Threads, Close(t) PROVE Threading'
    <2>1. buffer' = [buffer EXCEPT ![t] = << >>] /\ pc' = [pc EXCEPT ![t] = "unlink"]
        BY <1>4 DEF Close
    <2>2. buffer' \in [Threads -> Seq(Values)]
        BY <2>1, EmptySeq
    <2>3. \A u \in Threads : \A k \in 1..Len(buffer'[u]) :
              buffer'[u][k] \in ValuesOf(Storable[k])
        BY <2>1
    <2>4. full' \in BOOLEAN
        BY <1>4 DEF Close
    <2> QED
        BY <1>4, <2>1, <2>2, <2>3, <2>4 DEF Close
<1>5. ASSUME NEW t \in Threads, Unlink(t) PROVE Threading'
    BY <1>5, Constants DEF Unlink
<1>6. ASSUME NEW t \in Threads, Rename(t) PROVE Threading'
    <2>1. /\ pc' = [pc EXCEPT ![t] = "idle"] /\ login' = [login EXCEPT ![t] = << >>]
          /\ counted' \in 0..MaxTotal
        BY <1>6 DEF Rename
    <2>2. \/ phase' = phase
          \/ phase = "loading" /\ phase' \in {"running", "failed"}
        BY <1>6 DEF Rename
    <2>3. login' \in [Threads -> Seq(Logins)]
        BY <2>1, EmptySeq
    <2> QED
        BY <1>6, <2>1, <2>2, <2>3 DEF Rename
<1>7. CASE InitProxy
    BY <1>7, Constants DEF InitProxy
<1>8. CASE Count
    BY <1>8, Constants DEF Count
<1>9. CASE ReadLogin
    <2>1. conf["email"] \in Logins /\ conf["password"] \in Logins
        OBVIOUS
    <2>2. \E l \in Logins : login' = [login EXCEPT !["main"] = Append(login["main"], l)]
        BY <1>9, <2>1 DEF ReadLogin
    <2>3. login' \in [Threads -> Seq(Logins)]
        BY <2>2
    <2>4. login'["ui"] = login["ui"]
        BY <2>2
    <2>5. phase = "running"
        BY <1>9 DEF ReadLogin
    <2>6. overlap' \in BOOLEAN
        BY <1>9 DEF ReadLogin
    <2> QED
        BY <1>9, <2>3, <2>4, <2>5, <2>6 DEF ReadLogin
<1>10. CASE Authenticate
    <2>1. login' = login \/ login' = [login EXCEPT !["main"] = << >>]
        BY <1>10 DEF Authenticate
    <2>2. login' \in [Threads -> Seq(Logins)]
        BY <2>1, LoginsTyped
    <2>3. \/ pc' = [pc EXCEPT !["main"] = "open"]
          \/ pc' = [pc EXCEPT !["main"] = "idle"]
        BY <1>10 DEF Authenticate
    <2>4. login'["ui"] = login["ui"]
        BY <2>1
    <2> QED
        BY <1>10, <2>2, <2>3, <2>4 DEF Authenticate
<1>11. CASE SetLogin
    BY <1>11, Constants DEF SetLogin, NextParameter
<1>12. CASE Load
    BY <1>12, Constants DEF Load
<1>13. CASE Kill
    BY <1>13, Constants DEF Kill
<1>14. ASSUME NEW host \in HostIds, Update(host) PROVE Threading'
    BY <1>14, Constants DEF Update
<1>15. ASSUME NEW l \in Logins, StartChange(l) PROVE Threading'
    BY <1>15, Constants DEF StartChange
<1>16. CASE UNCHANGED vars
    BY <1>16 DEF vars
<1> QED
    BY <1>1, <1>2, <1>3, <1>4, <1>5, <1>6, <1>7, <1>8, <1>9, <1>10, <1>11, <1>12, <1>13,
       <1>14, <1>15, <1>16 DEF Next, Store

\* A running program has a host id that can be stored.
LEMMA ConfiguredNext ==
    ASSUME TypeOK, Threading, Configured, [Next]_vars
    PROVE  Configured'
<1> USE DEF TypeOK, Threading, Configured, Params, Threads, history, Goto, Set, Begins,
            Returns
<1>1. ASSUME NEW t \in Threads, Open(t) PROVE Configured'
    BY <1>1, Constants DEF Open
<1>2. ASSUME NEW t \in Threads, OpenFails(t) PROVE Configured'
    BY <1>2, Constants DEF OpenFails
<1>3. ASSUME NEW t \in Threads, PrintParameter(t) PROVE Configured'
    BY <1>3, Constants DEF PrintParameter
<1>4. ASSUME NEW t \in Threads, Close(t) PROVE Configured'
    BY <1>4, Constants DEF Close
<1>5. ASSUME NEW t \in Threads, Unlink(t) PROVE Configured'
    BY <1>5, Constants DEF Unlink
<1>6. ASSUME NEW t \in Threads, Rename(t) PROVE Configured'
    BY <1>6, Constants DEF Rename
<1>7. CASE InitProxy
    BY <1>7, Constants DEF InitProxy
<1>8. CASE Count
    BY <1>8, Constants DEF Count
<1>9. CASE ReadLogin
    BY <1>9, Constants DEF ReadLogin
<1>10. CASE Authenticate
    BY <1>10, Constants DEF Authenticate
<1>11. CASE SetLogin
    BY <1>11, Constants DEF SetLogin, NextParameter
<1>12. CASE Load
    BY <1>12, Positions, WholeContents, Constants DEF Load, InFile, Default, Preset,
                                                      ValueIn
<1>13. CASE Kill
    BY <1>13, Constants DEF Kill, Preset
<1>14. ASSUME NEW host \in HostIds, Update(host) PROVE Configured'
    BY <1>14, Constants DEF Update
<1>15. ASSUME NEW l \in Logins, StartChange(l) PROVE Configured'
    BY <1>15, Constants DEF StartChange
<1>16. CASE UNCHANGED vars
    BY <1>16 DEF vars
<1> QED
    BY <1>1, <1>2, <1>3, <1>4, <1>5, <1>6, <1>7, <1>8, <1>9, <1>10, <1>11, <1>12, <1>13,
       <1>14, <1>15, <1>16 DEF Next, Store

\* Two threads are in a call only after calls overlapped.
LEMMA OneCallerNext ==
    ASSUME TypeOK, Threading, Configured, OneCaller, [Next]_vars
    PROVE  OneCaller'
<1> USE DEF Threading, OneCaller, Threads, history, Goto, Set, Begins, Returns
<1>1. ASSUME NEW t \in Threads, Open(t) PROVE OneCaller'
    BY <1>1, OtherThread DEF Open
<1>2. ASSUME NEW t \in Threads, OpenFails(t) PROVE OneCaller'
    BY <1>2, OtherThread DEF OpenFails
<1>3. ASSUME NEW t \in Threads, PrintParameter(t) PROVE OneCaller'
    BY <1>3, OtherThread DEF PrintParameter
<1>4. ASSUME NEW t \in Threads, Close(t) PROVE OneCaller'
    BY <1>4, OtherThread DEF Close
<1>5. ASSUME NEW t \in Threads, Unlink(t) PROVE OneCaller'
    BY <1>5, OtherThread DEF Unlink
<1>6. ASSUME NEW t \in Threads, Rename(t) PROVE OneCaller'
    BY <1>6, OtherThread DEF Rename
<1>7. CASE InitProxy
    BY <1>7, OtherThread DEF InitProxy
<1>8. CASE Count
    BY <1>8, OtherThread DEF Count
<1>9. CASE ReadLogin
    BY <1>9, OtherThread DEF ReadLogin
<1>10. CASE Authenticate
    BY <1>10, OtherThread DEF Authenticate
<1>11. CASE SetLogin
    BY <1>11, OtherThread DEF SetLogin, NextParameter
<1>12. CASE Load
    BY <1>12, OtherThread DEF Load
<1>13. CASE Kill
    BY <1>13, OtherThread DEF Kill
<1>14. ASSUME NEW host \in HostIds, Update(host) PROVE OneCaller'
    BY <1>14, OtherThread DEF Update
<1>15. ASSUME NEW l \in Logins, StartChange(l) PROVE OneCaller'
    BY <1>15, OtherThread DEF StartChange
<1>16. CASE UNCHANGED vars
    BY <1>16 DEF vars
<1> QED
    BY <1>1, <1>2, <1>3, <1>4, <1>5, <1>6, <1>7, <1>8, <1>9, <1>10, <1>11, <1>12, <1>13,
       <1>14, <1>15, <1>16 DEF Next, Store

\* A store that is alone prints the parameters as they are, from the first to the
\* last, and nothing changes them, or the file, before it is renamed.
LEMMA StoringNext ==
    ASSUME TypeOK, Threading, Configured, OneCaller, Storing, [Next]_vars
    PROVE  Storing'
<1> USE DEF TypeOK, Threading, Configured, OneCaller, Storing, Threads, history, Goto,
            Set, Begins, Returns
<1>1. ASSUME NEW t \in Threads, Open(t) PROVE Storing'
    BY <1>1, Constants, OtherThread DEF Open
<1>2. ASSUME NEW t \in Threads, OpenFails(t) PROVE Storing'
    BY <1>2, Constants, OtherThread DEF OpenFails
<1>3. ASSUME NEW t \in Threads, PrintParameter(t) PROVE Storing'
    <2>1. CASE Len(buffer[t]) < 4
        <3> DEFINE k == Len(buffer[t]) + 1
                   b == Append(buffer[t], conf[Storable[k]])
        <3>1. /\ Len(b) = k /\ k \in 1..4 /\ b[k] = conf[Storable[k]]
              /\ \A j \in 1..(k - 1) : b[j] = buffer[t][j]
            BY <1>3, <2>1, Printing DEF PrintParameter
        <3>2. buffer' = [buffer EXCEPT ![t] = b] /\ pc' = pc
            BY <1>3, <3>1, Constants DEF PrintParameter
        <3> HIDE DEF b
        <3>3. CASE overlap \/ full
            BY <1>3, <3>3 DEF PrintParameter
        <3>4. CASE ~overlap /\ ~full
            <4>1. /\ handle[t] = "tmp" /\ disk.tmp = Empty
                  /\ \A j \in 1..(k - 1) : buffer[t][j] = conf[Storable[j]]
                BY <1>3, <3>4 DEF PrintParameter
            <4>2. \A j \in 1..k : b[j] = conf[Storable[j]]
                BY <3>1, <4>1
            <4>3. \A u \in Threads \ {t} : pc[u] = "idle"
                BY <1>3, <3>4 DEF PrintParameter
            <4> QED
                BY <1>3, <3>1, <3>2, <4>1, <4>2, <4>3 DEF PrintParameter
        <3> QED
            BY <3>3, <3>4
    <2>2. CASE ~(Len(buffer[t]) < 4)
        BY <1>3, <2>2, Constants DEF PrintParameter
    <2> QED
        BY <2>1, <2>2
<1>4. ASSUME NEW t \in Threads, Close(t) PROVE Storing'
    <2>1. CASE overlap \/ full
        BY <1>4, <2>1 DEF Close
    <2>2. CASE ~overlap /\ ~full
        <3>1. \A u \in Threads \ {t} : pc[u] = "idle"
            BY <1>4, <2>2 DEF Close
        <3>2. /\ handle[t] = "tmp" /\ disk.tmp = Empty
              /\ \A k \in 1..4 : buffer[t][k] = conf[Storable[k]]
            BY <1>4, <2>2 DEF Close
        <3>3. CASE full'
            BY <3>3
        <3>4. CASE disk' = [disk EXCEPT !.tmp = buffer[t]]
            BY <1>4, <3>1, <3>2, <3>4, Closing DEF Close, IsWhole
        <3> QED
            BY <1>4, <3>2, <3>3, <3>4, Closing
    <2> QED
        BY <2>1, <2>2
<1>5. ASSUME NEW t \in Threads, Unlink(t) PROVE Storing'
    BY <1>5, Constants, OtherThread DEF Unlink
<1>6. ASSUME NEW t \in Threads, Rename(t) PROVE Storing'
    BY <1>6, WholeContents, Constants, OtherThread DEF Rename
<1>7. CASE InitProxy
    BY <1>7, Constants, OtherThread DEF InitProxy
<1>8. CASE Count
    BY <1>8, Constants, OtherThread DEF Count
<1>9. CASE ReadLogin
    BY <1>9, Constants, OtherThread DEF ReadLogin
<1>10. CASE Authenticate
    BY <1>10, Constants, OtherThread DEF Authenticate
<1>11. CASE SetLogin
    BY <1>11, Constants, OtherThread DEF SetLogin, NextParameter
<1>12. CASE Load
    BY <1>12, Constants, OtherThread DEF Load
<1>13. CASE Kill
    BY <1>13, Constants, OtherThread DEF Kill
<1>14. ASSUME NEW host \in HostIds, Update(host) PROVE Storing'
    BY <1>14, Constants, OtherThread DEF Update
<1>15. ASSUME NEW l \in Logins, StartChange(l) PROVE Storing'
    BY <1>15, Constants, OtherThread DEF StartChange
<1>16. CASE UNCHANGED vars
    BY <1>16 DEF vars
<1> QED
    BY <1>1, <1>2, <1>3, <1>4, <1>5, <1>6, <1>7, <1>8, <1>9, <1>10, <1>11, <1>12, <1>13,
       <1>14, <1>15, <1>16 DEF Next, Store

\* config.xml stays until the temporary file is whole, is missing until that is
\* renamed, and has no lower count than was stored.
LEMMA OnDiskNext ==
    ASSUME TypeOK, Threading, Configured, OneCaller, Storing, OnDisk, [Next]_vars
    PROVE  OnDisk'
<1> USE DEF TypeOK, Threading, Configured, OneCaller, Storing, OnDisk, OneCopyIsWhole,
            Threads, history, Goto, Set, Begins, Returns
<1>1. ASSUME NEW t \in Threads, Open(t) PROVE OnDisk'
    BY <1>1, Constants, OtherThread DEF Open
<1>2. ASSUME NEW t \in Threads, OpenFails(t) PROVE OnDisk'
    BY <1>2, Constants, OtherThread DEF OpenFails
<1>3. ASSUME NEW t \in Threads, PrintParameter(t) PROVE OnDisk'
    BY <1>3, Constants, OtherThread DEF PrintParameter
<1>4. ASSUME NEW t \in Threads, Close(t) PROVE OnDisk'
    BY <1>4, WholeContents, Constants, OtherThread DEF Close, Written
<1>5. ASSUME NEW t \in Threads, Unlink(t) PROVE OnDisk'
    <2>1. CASE overlap \/ full \/ torn = "lost"
        BY <1>5, <2>1 DEF Unlink
    <2>2. CASE ~overlap /\ ~full /\ torn # "lost"
        <3>1. IsWhole(disk.tmp) /\ ~IsWhole(Missing)
            BY <1>5, <2>2, WholeContents DEF Unlink, Contents
        <3>2. /\ disk' = [disk EXCEPT !.file = Missing]
              /\ pc' = [pc EXCEPT ![t] = "rename"]
            BY <1>5 DEF Unlink
        <3>3. disk'.file = Missing /\ disk'.tmp = disk.tmp
            BY <3>2
        <3>4. OneCopyIsWhole'
            BY <3>1, <3>3 DEF IsWhole
        <3> QED
            BY <1>5, <2>2, <3>1, <3>2, <3>3, <3>4 DEF Unlink, IsWhole
    <2> QED
        BY <2>1, <2>2
<1>6. ASSUME NEW t \in Threads, Rename(t) PROVE OnDisk'
    BY <1>6, WholeContents, Constants, OtherThread DEF Rename
<1>7. CASE InitProxy
    BY <1>7, Constants, OtherThread DEF InitProxy
<1>8. CASE Count
    BY <1>8, Constants, OtherThread DEF Count
<1>9. CASE ReadLogin
    BY <1>9, Constants, OtherThread DEF ReadLogin
<1>10. CASE Authenticate
    <2>1. conf'["total"] = conf["total"]
        BY <1>10 DEF Authenticate, Params
    <2>2. pc["main"] = "authenticate" /\ pc' \in [Threads -> Steps]
        BY <1>10, ThreadingNext DEF Authenticate, Next
    <2>3. pc'["main"] \in {"open", "idle"} /\ pc'["ui"] = pc["ui"]
        BY <1>10 DEF Authenticate
    <2> QED
        BY <1>10, <2>1, <2>2, <2>3 DEF Authenticate, IsWhole
<1>11. CASE SetLogin
    BY <1>11, Constants, OtherThread DEF SetLogin, NextParameter
<1>12. CASE Load
    <2>1. /\ \A t \in Threads : pc[t] = "idle"
          /\ \A t \in Threads : pc'[t] # "rename"
          /\ disk' = disk /\ overlap' = overlap /\ full' = full
        BY <1>12 DEF Load
    <2>2. CASE overlap \/ full \/ torn = "lost"
        BY <1>12, <2>1, <2>2 DEF Load
    <2>3. CASE ~overlap /\ ~full /\ torn # "lost" /\ disk.file = Missing
        <3>1. ~IsWhole(Missing)
            BY WholeContents DEF Contents
        <3>2. /\ torn' = IF torn = "cut" THEN "lost" ELSE torn
              /\ stored' = stored /\ counted' = counted /\ conf'["total"] = 0
            BY <1>12, <2>3, <3>1 DEF Load, Missing, Empty, Garbled, Default, Preset
        <3>3. CASE torn = "cut" BY <3>2, <3>3
        <3>4. CASE torn = "no"
            <4>1. stored = Missing /\ counted = 0 /\ torn' = "no" /\ torn # "cut"
                BY <2>1, <2>3, <3>2, <3>4
            <4> QED
                BY <2>1, <2>3, <3>1, <3>2, <4>1 DEF IsWhole
        <3> QED
            BY <2>3, <3>3, <3>4
    <2>4. CASE ~overlap /\ ~full /\ torn # "lost" /\ IsWhole(disk.file)
        <3>1. disk.file \notin {Missing, Empty, Garbled} /\ disk.file[4] \in 0..MaxTotal
            BY <2>4, WholeContents
        <3>2. conf' = InFile(disk.file) /\ UNCHANGED <<stored, counted, torn>>
            BY <1>12, <3>1 DEF Load
        <3>3. conf'["total"] = disk.file[4]
            BY <3>2, Positions DEF InFile, Params, ValueIn
        <3> QED
            BY <2>1, <2>4, <3>1, <3>2, <3>3 DEF IsWhole
    <2>5. CASE ~overlap /\ ~full /\ torn # "lost" /\ disk.file \in {Empty, Garbled}
        <3>1. ~IsWhole(disk.file) /\ disk.file # Missing
            BY <2>5, WholeContents DEF Contents, Missing, Empty, Garbled
        <3>2. phase' = "failed" /\ UNCHANGED <<stored, counted, torn>>
            BY <1>12, <2>5, <3>1 DEF Load
        <3> QED
            BY <2>1, <2>5, <3>1, <3>2 DEF IsWhole
    <2> QED
        BY <1>12, <2>2, <2>3, <2>4, <2>5 DEF Load
<1>13. CASE Kill
    BY <1>13, Constants, OtherThread DEF Kill
<1>14. ASSUME NEW host \in HostIds, Update(host) PROVE OnDisk'
    BY <1>14, Constants, OtherThread DEF Update
<1>15. ASSUME NEW l \in Logins, StartChange(l) PROVE OnDisk'
    BY <1>15, Constants, OtherThread DEF StartChange
<1>16. CASE UNCHANGED vars
    BY <1>16 DEF vars
<1> QED
    BY <1>1, <1>2, <1>3, <1>4, <1>5, <1>6, <1>7, <1>8, <1>9, <1>10, <1>11, <1>12, <1>13,
       <1>14, <1>15, <1>16 DEF Next, Store

\* A change of the login, or an authentication, goes from one login that agrees to
\* another.
LEMMA AgreementNext ==
    ASSUME TypeOK, Threading, Configured, OneCaller, Agreement, [Next]_vars
    PROVE  Agreement'
<1> USE DEF TypeOK, Threading, Configured, OneCaller, Agreement, LoginsAgree, Params,
            Threads, history, Goto, Set, Begins, Returns
<1>1. ASSUME NEW t \in Threads, Open(t) PROVE Agreement'
    BY <1>1, Constants, OtherThread DEF Open
<1>2. ASSUME NEW t \in Threads, OpenFails(t) PROVE Agreement'
    BY <1>2, Constants, OtherThread DEF OpenFails
<1>3. ASSUME NEW t \in Threads, PrintParameter(t) PROVE Agreement'
    BY <1>3, Constants, OtherThread DEF PrintParameter
<1>4. ASSUME NEW t \in Threads, Close(t) PROVE Agreement'
    BY <1>4, Constants, OtherThread DEF Close
<1>5. ASSUME NEW t \in Threads, Unlink(t) PROVE Agreement'
    BY <1>5, Constants, OtherThread DEF Unlink
<1>6. ASSUME NEW t \in Threads, Rename(t) PROVE Agreement'
    BY <1>6, Constants, OtherThread DEF Rename
<1>7. CASE InitProxy
    BY <1>7, Constants, OtherThread DEF InitProxy
<1>8. CASE Count
    BY <1>8, Constants, OtherThread DEF Count
<1>9. CASE ReadLogin
    BY <1>9, Constants, OtherThread DEF ReadLogin
<1>10. CASE Authenticate
    BY <1>10, Constants, OtherThread DEF Authenticate
<1>11. CASE SetLogin
    BY <1>11, Constants, OtherThread DEF SetLogin, NextParameter
<1>12. CASE Load
    BY <1>12, Constants, OtherThread DEF Load, InFile, Default, Preset, ValueIn
<1>13. CASE Kill
    BY <1>13, Constants, OtherThread DEF Kill, Preset
<1>14. ASSUME NEW host \in HostIds, Update(host) PROVE Agreement'
    BY <1>14, Constants, OtherThread DEF Update
<1>15. ASSUME NEW l \in Logins, StartChange(l) PROVE Agreement'
    BY <1>15, Constants, OtherThread DEF StartChange
<1>16. CASE UNCHANGED vars
    BY <1>16 DEF vars
<1> QED
    BY <1>1, <1>2, <1>3, <1>4, <1>5, <1>6, <1>7, <1>8, <1>9, <1>10, <1>11, <1>12, <1>13,
       <1>14, <1>15, <1>16 DEF Next, Store

LEMMA InvariantInit == Init => IInv
<1> SUFFICES ASSUME Init PROVE IInv
    OBVIOUS
<1> USE DEF Init, Threads, Preset
<1>1. Missing \in Contents /\ ~IsWhole(Missing)
    BY WholeContents DEF Contents
<1>2. TypeOK
    BY <1>1, Constants DEF TypeOK
<1>3. Threading
    <2>1. buffer \in [Threads -> Seq(Values)] /\ login \in [Threads -> Seq(Logins)]
        BY EmptySeq
    <2>2. \A t \in Threads : Len(buffer[t]) = 0 /\ pc[t] = "idle"
        OBVIOUS
    <2>3. pc \in [Threads -> Steps]
        BY DEF Steps
    <2>4. overlap \in BOOLEAN /\ full \in BOOLEAN
        OBVIOUS
    <2>5. counted \in 0..MaxTotal
        BY Constants
    <2> QED
        BY <2>1, <2>2, <2>3, <2>4, <2>5 DEF Threading, Changing
<1>4. Configured /\ OneCaller /\ Storing
    BY DEF Configured, Params, OneCaller, Storing
<1>5. OnDisk /\ Agreement
    BY <1>1 DEF OnDisk, OneCopyIsWhole, Agreement, LoginsAgree
<1> QED
    BY <1>2, <1>3, <1>4, <1>5 DEF IInv

LEMMA InvariantNext == IInv /\ [Next]_vars => IInv'
BY TypesNext, ThreadingNext, ConfiguredNext, OneCallerNext, StoringNext, OnDiskNext,
   AgreementNext DEF IInv

LEMMA Invariant == Spec => []IInv
BY InvariantInit, InvariantNext, PTL DEF Spec
-----------------------------------------------------------------------------
(* What users of the configuration see *)

\* Every parameter, stream and file has its type at all times, whatever the server
\* answers, the user changes and the kills interrupt.
THEOREM ConfigurationIsTyped == Spec => []TypeOK
<1>1. IInv => TypeOK
    BY DEF IInv
<1> QED
    BY <1>1, Invariant, PTL

\* boincConfigurationStore replaces config.xml so that a kill anywhere leaves what the
\* last store put there, or the whole new file under its temporary name.  Excepted are
\* overlapping calls, a full disk, and what follows a start that found no file because
\* of a kill between unlink and rename.
THEOREM StoreKeepsACopy == Spec => []OneCopyIsWhole
<1>1. IInv => OneCopyIsWhole
    BY DEF IInv, OnDisk, OneCopyIsWhole
<1> QED
    BY <1>1, Invariant, PTL

\* A work unit that the scheduler counted and stored stays counted over any number of
\* kills and restarts; but a kill between the unlink and the rename of a store, after
\* which the start finds no file, loses the count, as overlapping calls or a full disk
\* may.  Nothing else does.
THEOREM NoCountIsLost == Spec => []CountIsKept
<1>1. IInv => CountIsKept
    BY DEF IInv, OnDisk, CountIsKept
<1> QED
    BY <1>1, Invariant, PTL

\* As long as no two calls have overlapped: whenever none is under way, the requests to
\* the server use the authenticator of the login that is configured, of which both
\* parts are of one login.  With overlapping calls it is false (NewLoginInUse).
THEOREM RequestsUseTheLogin == Spec => []OneLoginInUse
<1>1. IInv => OneLoginInUse
    BY DEF IInv, Agreement, LoginsAgree, OneLoginInUse, Quiet, Threads
<1> QED
    BY <1>1, Invariant, PTL
=============================================================================
