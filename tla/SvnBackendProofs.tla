---------------------------- MODULE SvnBackendProofs ---------------------------
(* Proofs about SvnBackend for any number of requests, clients, installers *)
(* and revisions.                                                          *)
EXTENDS SvnBackend, SequenceTheorems, WellFoundedInduction, FiniteSetTheorems, TLAPS

(* The hook files.  What was settled nobody opens; what is empty is being  *)
(* written, what cannot run yet is about to be made executable, unless its *)
(* installer has failed; and where the script has been ready it is there,  *)
(* or being written again.                                                 *)
Active(i) == install[i].pc # "rest"
Safe(i) ==
    /\ Active(i) => install[i].hook \in Hooks
    /\ install[i].pc \in {"open", "write", "chmod"} => install[i].hook \notin settled
    /\ Active(i) /\ install[i].force => settled = {}
Writing(i, h) == install[i].pc = "write" /\ install[i].hook = h /\ install[i].held
Finishing(i, h) == install[i].pc = "chmod" /\ install[i].hook = h

HookOK(h) ==
    /\ h \in settled => file[h] = "other"
    /\ h \notin spoiled /\ file[h] = "empty" => \E i \in Installers : Writing(i, h)
    /\ h \notin spoiled /\ file[h] = "script" /\ h \notin exec =>
          \E i \in Installers : Finishing(i, h)
    /\ h \in ours => file[h] \in {"script", "empty"} /\ h \in exec
HooksOK == HooksTypeOK /\ (\A i \in Installers : Safe(i)) /\ (\A h \in Hooks : HookOK(h))

---------------------------------------------------------------------------
LEMMA HooksStart == HooksInit => HooksOK
<1> SUFFICES ASSUME HooksInit PROVE HooksOK
  OBVIOUS
<1>1. file \in [Hooks -> {"absent", "other", "script"}]
  BY HooksAssumption DEF HooksInit
<1>2. HooksTypeOK
  BY <1>1, BackendAssumption DEF HooksInit, HooksTypeOK, Rest, Contents
<1>3. \A i \in Installers : install[i].pc = "rest"
  BY DEF HooksInit, Rest
<1>4. ASSUME NEW h \in Hooks
      PROVE  HookOK(h)
  <2>1. file[h] \in {"absent", "other", "script"}
    BY <1>1
  <2> QED
    BY <2>1 DEF HooksInit, HookOK
<1> QED
  BY <1>2, <1>3, <1>4 DEF HooksOK, Safe, Active

\* An installer at rest, or the next state of one.
InstallSet == [pc : {"rest", "mkdir", "check", "open", "write", "chmod"},
               hook : Hooks \cup {NoHook}, force : BOOLEAN, held : BOOLEAN]

LEMMA Turned ==
    ASSUME HooksTypeOK, NEW i \in Installers, NEW new \in InstallSet, Turns(i, new)
    PROVE  /\ install' \in [Installers -> InstallSet] /\ install'[i] = new
           /\ \A j \in Installers \ {i} : install'[j] = install[j]
BY DEF HooksTypeOK, Turns, InstallSet

\* The end of the work of an installer settles what the administrator has.
LEMMA Settling ==
    ASSUME HooksTypeOK, NEW i \in Installers
    PROVE  /\ SettledIn(Installing \ {i}) \subseteq Hooks
           /\ \/ SettledIn(Installing \ {i}) = settled
              \/ /\ \A j \in Installers \ {i} : ~Active(j)
                 /\ SettledIn(Installing \ {i}) = {h \in Hooks : file[h] = "other"}
BY DEF HooksTypeOK, SettledIn, Installing, Active

LEMMA Raising ==
    ASSUME HooksTypeOK, NEW i \in Installers, Raises(i)
    PROVE  /\ install' \in [Installers -> InstallSet] /\ install'[i] = Rest
           /\ \A j \in Installers \ {i} : install'[j] = install[j]
           /\ settled' \subseteq Hooks
           /\ \/ settled' = settled
              \/ /\ \A j \in Installers \ {i} : ~Active(j)
                 /\ settled' = {h \in Hooks : file[h] = "other"}
<1>1. Rest \in InstallSet
  BY DEF Rest, InstallSet
<1> QED
  BY <1>1, Turned, Settling DEF Raises

LEMMA GoingOn ==
    ASSUME HooksTypeOK, NEW i \in Installers, Active(i), install[i].hook \in Hooks, GoesOn(i)
    PROVE  /\ install' \in [Installers -> InstallSet]
           /\ \A j \in Installers \ {i} : install'[j] = install[j]
           /\ settled' \subseteq Hooks
           /\ \/ /\ install'[i].pc = "check" /\ install'[i].hook = "post"
                 /\ install'[i].force = install[i].force /\ settled' = settled
              \/ /\ install'[i] = Rest
                 /\ \/ settled' = settled
                    \/ /\ \A j \in Installers \ {i} : ~Active(j)
                       /\ settled' = {h \in Hooks : file[h] = "other"}
<1>1. install[i] \in InstallSet
  BY DEF HooksTypeOK, InstallSet
<1>2. CASE install[i].hook = "pre"
  <2>1. PICK new : new = [install[i] EXCEPT !.pc = "check", !.hook = "post", !.held = FALSE]
    OBVIOUS
  <2>2. new \in InstallSet /\ new.pc = "check" /\ new.hook = "post" /\ new.force = install[i].force
    BY <1>1, <2>1 DEF InstallSet, Hooks
  <2>3. Turns(i, new) /\ settled' = settled
    BY <1>2, <2>1 DEF GoesOn, After
  <2> QED
    BY <2>2, <2>3, Turned DEF HooksTypeOK
<1>3. CASE install[i].hook = "post"
  <2>1. Turns(i, Rest) /\ settled' = SettledIn(Installing \ {i})
    BY <1>3 DEF GoesOn, After
  <2>2. Rest \in InstallSet
    BY DEF Rest, InstallSet
  <2> QED
    BY <2>1, <2>2, Turned, Settling
<1> QED
  BY <1>2, <1>3 DEF Hooks

\* An installer has moved and touched nothing, or left its file spoiled.
LEMMA LeavesHooks ==
    ASSUME HooksOK, NEW i \in Installers,
           install' \in [Installers -> InstallSet],
           \A j \in Installers \ {i} : install'[j] = install[j],
           file' = file, exec' = exec, ours' = ours,
           spoiled \subseteq spoiled',
           install[i].pc \in {"write", "chmod"} => install[i].hook \in spoiled',
           \/ settled' \subseteq settled
           \/ /\ \A j \in Installers \ {i} : ~Active(j)
              /\ settled' = {h \in Hooks : file[h] = "other"},
           Safe(i)'
    PROVE  (\A j \in Installers : Safe(j)') /\ (\A h \in Hooks : HookOK(h)')
<1>1. ASSUME NEW j \in Installers, j # i
      PROVE  Safe(j)'
  BY <1>1 DEF HooksOK, Safe, Active
<1>2. ASSUME NEW h \in Hooks
      PROVE  HookOK(h)'
  <2>1. HookOK(h)
    BY DEF HooksOK
  <2>2. h \in settled' => file'[h] = "other"
    BY <2>1 DEF HookOK
  <2>3. ASSUME h \notin spoiled', NEW j \in Installers, Writing(j, h) \/ Finishing(j, h)
        PROVE  j # i /\ (Writing(j, h) => Writing(j, h)') /\ (Finishing(j, h) => Finishing(j, h)')
    <3>1. j # i
      BY <2>3 DEF Writing, Finishing
    <3> QED
      BY <3>1 DEF Writing, Finishing
  <2>4. h \notin spoiled' => h \notin spoiled
    OBVIOUS
  <2>5. h \notin spoiled' /\ file'[h] = "empty" => \E j \in Installers : Writing(j, h)'
    BY <2>1, <2>3, <2>4 DEF HookOK
  <2>6. h \notin spoiled' /\ file'[h] = "script" /\ h \notin exec' =>
            \E j \in Installers : Finishing(j, h)'
    BY <2>1, <2>3, <2>4 DEF HookOK
  <2>7. h \in ours' => file'[h] \in {"script", "empty"} /\ h \in exec'
    BY <2>1 DEF HookOK
  <2> QED
    BY <2>2, <2>5, <2>6, <2>7 DEF HookOK
<1> QED
  BY <1>1, <1>2

LEMMA CountersStep ==
    ASSUME HooksTypeOK, (\E i \in Installers : InstallStep(i) \/ InstallerKilled(i)) \/ UserStep
    PROVE  installs' \in 0..MaxInstalls /\ userActs' \in 0..MaxUserActs /\ faults' \in 0..MaxFaults
<1> USE BackendAssumption DEF HooksTypeOK
<1>1. /\ installs \in Nat /\ userActs \in Nat /\ faults \in Nat
      /\ MaxInstalls \in Nat /\ MaxUserActs \in Nat /\ MaxFaults \in Nat
  OBVIOUS
<1> DEFINE I == installs' = installs \/ (installs < MaxInstalls /\ installs' = installs + 1)
           U == userActs' = userActs \/ (userActs < MaxUserActs /\ userActs' = userActs + 1)
           F == faults' = faults \/ (faults < MaxFaults /\ faults' = faults + 1)
<1>2. I /\ U /\ F
  BY DEF InstallStep, CallsInstall, MakesDirectory, ChecksHook, OpensHook, CannotOpen, WritesHook,
     CannotWrite, MakesExecutable, InstallerKilled, UserStep, UserActs, Faults
<1> HIDE DEF I, U, F
<1>3. installs' \in 0..MaxInstalls
  BY <1>1, <1>2 DEF I
<1>4. userActs' \in 0..MaxUserActs
  BY <1>1, <1>2 DEF U
<1>5. faults' \in 0..MaxFaults
  BY <1>1, <1>2 DEF F
<1> QED
  BY <1>3, <1>4, <1>5

LEMMA InstallerStep ==
    ASSUME HooksOK, NEW i \in Installers, InstallStep(i) \/ InstallerKilled(i)
    PROVE  HooksOK' /\ ours \subseteq ours'
<1> USE DEF HooksOK
<1>0. /\ installs' \in 0..MaxInstalls /\ userActs' \in 0..MaxUserActs /\ faults' \in 0..MaxFaults
  BY CountersStep
<1>1. /\ HooksTypeOK /\ Safe(i) /\ install[i] \in InstallSet
      /\ file \in [Hooks -> Contents] /\ exec \subseteq Hooks /\ spoiled \subseteq Hooks
      /\ ours \subseteq Hooks /\ settled \subseteq Hooks /\ directory \in BOOLEAN
  BY DEF HooksTypeOK, InstallSet
<1>2. Rest \in InstallSet /\ Rest.pc = "rest"
  BY DEF Rest, InstallSet
<1> DEFINE Typed == /\ install' \in [Installers -> InstallSet] /\ file' \in [Hooks -> Contents]
                    /\ exec' \subseteq Hooks /\ settled' \subseteq Hooks /\ spoiled' \subseteq Hooks
                    /\ ours' \subseteq Hooks /\ directory' \in BOOLEAN
<1>3. SUFFICES Typed /\ (\A j \in Installers : Safe(j)') /\ (\A h \in Hooks : HookOK(h)')
               /\ ours \subseteq ours'
  BY <1>0 DEF HooksTypeOK, InstallSet
<1>4. CASE CallsInstall(i)
  <2>1. PICK force \in BOOLEAN :
          /\ Turns(i, [Rest EXCEPT !.pc = IF directory THEN "check" ELSE "mkdir",
                                   !.hook = "pre", !.force = force])
          /\ settled' = IF force THEN {} ELSE settled
    BY <1>4 DEF CallsInstall
  <2>2. PICK new : new = [Rest EXCEPT !.pc = IF directory THEN "check" ELSE "mkdir",
                                      !.hook = "pre", !.force = force]
    OBVIOUS
  <2>3. /\ new \in InstallSet /\ new.pc \in {"check", "mkdir"} /\ new.hook \in Hooks
        /\ new.force = force
    BY <2>2 DEF Rest, InstallSet, Hooks
  <2>4. /\ install' \in [Installers -> InstallSet] /\ install'[i] = new
        /\ \A j \in Installers \ {i} : install'[j] = install[j]
    BY <1>1, <2>1, <2>2, <2>3, Turned
  <2>5. /\ file' = file /\ exec' = exec /\ ours' = ours /\ spoiled' = spoiled
        /\ directory' = directory /\ install[i].pc = "rest"
    BY <1>4 DEF CallsInstall
  <2>6. Safe(i)' /\ settled' \subseteq settled
    BY <2>1, <2>3, <2>4 DEF Safe, Active
  <2> QED
    BY <1>1, <2>4, <2>5, <2>6, LeavesHooks
<1>5. CASE MakesDirectory(i)
  <2>1. /\ file' = file /\ exec' = exec /\ ours' = ours /\ spoiled' = spoiled
        /\ directory' = TRUE /\ install[i].pc = "mkdir"
    BY <1>5 DEF MakesDirectory
  <2>2. CASE directory
    <3>1. Raises(i)
      BY <1>5, <2>2 DEF MakesDirectory
    <3>2. Safe(i)'
      BY <1>1, <1>2, <3>1, Raising DEF Safe, Active
    <3> QED
      BY <1>1, <2>1, <3>1, <3>2, Raising, LeavesHooks
  <2>3. CASE ~directory
    <3>1. PICK new : new = [install[i] EXCEPT !.pc = "check"]
      OBVIOUS
    <3>2. Turns(i, new) /\ settled' = settled
      BY <1>5, <2>3, <3>1 DEF MakesDirectory
    <3>3. new \in InstallSet /\ new.pc = "check" /\ new.hook = install[i].hook /\ new.force = install[i].force
      BY <1>1, <3>1 DEF InstallSet
    <3>4. Safe(i)'
      BY <1>1, <2>1, <3>2, <3>3, Turned DEF Safe, Active
    <3> QED
      BY <1>1, <2>1, <3>2, <3>3, <3>4, Turned, LeavesHooks
  <2> QED
    BY <2>2, <2>3
<1>6. CASE ChecksHook(i)
  <2>1. /\ file' = file /\ exec' = exec /\ ours' = ours /\ spoiled' = spoiled
        /\ directory' = directory /\ install[i].pc = "check"
    BY <1>6 DEF ChecksHook
  <2>2. install[i].hook \in Hooks /\ Active(i)
    BY <1>1, <2>1 DEF Safe, Active
  <2>3. CASE Recognised(install[i].hook) \/ install[i].force
    <3>1. PICK new : new = [install[i] EXCEPT !.pc = "open"]
      OBVIOUS
    <3>2. Turns(i, new) /\ settled' = settled
      BY <1>6, <2>3, <3>1 DEF ChecksHook
    <3>3. new \in InstallSet /\ new.pc = "open" /\ new.hook = install[i].hook /\ new.force = install[i].force
      BY <1>1, <3>1 DEF InstallSet
    <3>4. install[i].hook \notin settled
      BY <1>1, <2>2, <2>3 DEF Recognised, Safe, HookOK
    <3>5. Safe(i)'
      BY <1>1, <2>2, <3>2, <3>3, <3>4, Turned DEF Safe, Active
    <3> QED
      BY <1>1, <2>1, <3>2, <3>3, <3>5, Turned, LeavesHooks
  <2>4. CASE ~(Recognised(install[i].hook) \/ install[i].force)
    <3>1. GoesOn(i)
      BY <1>6, <2>4 DEF ChecksHook
    <3>2. Safe(i)'
      BY <1>1, <1>2, <2>2, <3>1, GoingOn DEF Safe, Active, Hooks
    <3> QED
      BY <1>1, <2>1, <2>2, <3>1, <3>2, GoingOn, LeavesHooks
  <2> QED
    BY <2>3, <2>4
<1>7. CASE CannotOpen(i)
  <2>1. /\ file' = file /\ exec' = exec /\ ours' = ours /\ spoiled' = spoiled
        /\ directory' = directory /\ install[i].pc = "open" /\ GoesOn(i)
    BY <1>7 DEF CannotOpen
  <2>2. install[i].hook \in Hooks /\ Active(i)
    BY <1>1, <2>1 DEF Safe, Active
  <2>3. Safe(i)'
    BY <1>1, <1>2, <2>1, <2>2, GoingOn DEF Safe, Active, Hooks
  <2> QED
    BY <1>1, <2>1, <2>2, <2>3, GoingOn, LeavesHooks
<1>8. CASE CannotWrite(i)
  <2>1. /\ file' = file /\ exec' = exec /\ ours' = ours /\ spoiled' = spoiled \cup {install[i].hook}
        /\ directory' = directory /\ install[i].pc = "write" /\ GoesOn(i)
    BY <1>8 DEF CannotWrite
  <2>2. install[i].hook \in Hooks /\ Active(i)
    BY <1>1, <2>1 DEF Safe, Active
  <2>3. Safe(i)'
    BY <1>1, <1>2, <2>1, <2>2, GoingOn DEF Safe, Active, Hooks
  <2>4. spoiled' \subseteq Hooks /\ spoiled \subseteq spoiled' /\ install[i].hook \in spoiled'
    BY <1>1, <2>1, <2>2
  <2> QED
    BY <1>1, <2>1, <2>2, <2>3, <2>4, GoingOn, LeavesHooks
<1>9. CASE InstallerKilled(i)
  <2>1. /\ file' = file /\ exec' = exec /\ ours' = ours /\ directory' = directory /\ Raises(i)
        /\ spoiled' = IF install[i].pc \in {"write", "chmod"} THEN spoiled \cup {install[i].hook}
                      ELSE spoiled
        /\ Active(i)
    BY <1>9 DEF InstallerKilled, Active
  <2>2. Safe(i)'
    BY <1>1, <1>2, <2>1, Raising DEF Safe, Active
  <2>3. /\ spoiled' \subseteq Hooks /\ spoiled \subseteq spoiled'
        /\ install[i].pc \in {"write", "chmod"} => install[i].hook \in spoiled'
    BY <1>1, <2>1 DEF Safe
  <2> QED
    BY <1>1, <2>1, <2>2, <2>3, Raising, LeavesHooks
<1>10. CASE OpensHook(i)
  <2>1. PICK g, new : g = install[i].hook /\ new = [install[i] EXCEPT !.pc = "write", !.held = TRUE]
    OBVIOUS
  <2>2. /\ install[i].pc = "open" /\ file' = [file EXCEPT ![g] = "empty"] /\ Turns(i, new)
        /\ exec' = exec /\ directory' = directory /\ settled' = settled /\ spoiled' = spoiled
        /\ ours' = ours
    BY <1>10, <2>1 DEF OpensHook
  <2>3. g \in Hooks /\ g \notin settled
    BY <1>1, <2>1, <2>2 DEF Safe, Active
  <2>4. /\ new \in InstallSet /\ new.pc = "write" /\ new.hook = g /\ new.force = install[i].force
        /\ new.held
    BY <1>1, <2>1 DEF InstallSet
  <2>5. /\ install' \in [Installers -> InstallSet] /\ install'[i] = new
        /\ \A j \in Installers \ {i} : install'[j] = install[j]
    BY <1>1, <2>2, <2>4, Turned
  <2>6. /\ file' \in [Hooks -> Contents] /\ file'[g] = "empty"
        /\ \A h \in Hooks \ {g} : file'[h] = file[h]
    BY <1>1, <2>2, <2>3 DEF Contents
  <2>7. \A j \in Installers : Safe(j)'
    BY <1>1, <2>2, <2>3, <2>4, <2>5 DEF Safe, Active
  <2>8. ASSUME NEW h \in Hooks
        PROVE  HookOK(h)'
    <3>1. HookOK(h)
      OBVIOUS
    <3>2. CASE h = g
      <4>1. Writing(i, h)'
        BY <2>4, <2>5, <3>2 DEF Writing
      <4> QED
        BY <2>2, <2>3, <2>6, <3>1, <3>2, <4>1 DEF HookOK
    <3>3. CASE h # g
      <4>1. file'[h] = file[h]
        BY <2>6, <3>3
      <4>2. ASSUME NEW j \in Installers
            PROVE  (Writing(j, h) => Writing(j, h)') /\ (Finishing(j, h) => Finishing(j, h)')
        BY <2>2, <2>5 DEF Writing, Finishing
      <4> QED
        BY <2>2, <3>1, <4>1, <4>2 DEF HookOK
    <3> QED
      BY <3>2, <3>3
  <2> QED
    BY <1>1, <2>2, <2>5, <2>6, <2>7, <2>8
<1>11. CASE WritesHook(i)
  <2>1. PICK g, new : g = install[i].hook /\ new = [install[i] EXCEPT !.pc = "chmod"]
    OBVIOUS
  <2>2. /\ install[i].pc = "write" /\ Turns(i, new)
        /\ file' = IF install[i].held THEN [file EXCEPT ![g] = "script"] ELSE file
        /\ exec' = exec /\ directory' = directory /\ settled' = settled /\ spoiled' = spoiled
        /\ ours' = ours
    BY <1>11, <2>1 DEF WritesHook
  <2>3. g \in Hooks /\ g \notin settled
    BY <1>1, <2>1, <2>2 DEF Safe, Active
  <2>4. /\ new \in InstallSet /\ new.pc = "chmod" /\ new.hook = g /\ new.force = install[i].force
    BY <1>1, <2>1 DEF InstallSet
  <2>5. /\ install' \in [Installers -> InstallSet] /\ install'[i] = new
        /\ \A j \in Installers \ {i} : install'[j] = install[j]
    BY <1>1, <2>2, <2>4, Turned
  <2>6. /\ file' \in [Hooks -> Contents]
        /\ \A h \in Hooks \ {g} : file'[h] = file[h]
        /\ IF install[i].held THEN file'[g] = "script" ELSE file'[g] = file[g]
    BY <1>1, <2>2, <2>3 DEF Contents
  <2>7. \A j \in Installers : Safe(j)'
    BY <1>1, <2>2, <2>3, <2>4, <2>5 DEF Safe, Active
  <2>8. Finishing(i, g)'
    BY <2>4, <2>5 DEF Finishing
  <2>9. ASSUME NEW h \in Hooks
        PROVE  HookOK(h)'
    <3>1. HookOK(h)
      OBVIOUS
    <3>2. ASSUME NEW j \in Installers
          PROVE  /\ Writing(j, h) => Writing(j, h)' \/ (j = i /\ h = g /\ install[i].held)
                 /\ Finishing(j, h) => Finishing(j, h)'
      BY <2>1, <2>2, <2>5 DEF Writing, Finishing
    <3>3. CASE h = g /\ install[i].held
      BY <2>2, <2>3, <2>6, <2>8, <3>1, <3>3 DEF HookOK
    <3>4. CASE ~(h = g /\ install[i].held)
      <4>1. file'[h] = file[h]
        BY <2>6, <3>4
      <4> QED
        BY <2>2, <3>1, <3>2, <3>4, <4>1 DEF HookOK
    <3> QED
      BY <3>3, <3>4
  <2> QED
    BY <1>1, <2>2, <2>5, <2>6, <2>7, <2>9
<1>12. CASE MakesExecutable(i)
  <2>1. PICK g : g = install[i].hook
    OBVIOUS
  <2>2. /\ install[i].pc = "chmod" /\ file' = file /\ directory' = directory /\ spoiled' = spoiled
    BY <1>12 DEF MakesExecutable
  <2>3. g \in Hooks /\ g \notin settled /\ Active(i)
    BY <1>1, <2>1, <2>2 DEF Safe, Active
  <2>4. /\ install' \in [Installers -> InstallSet]
        /\ \A j \in Installers \ {i} : install'[j] = install[j]
        /\ settled' \subseteq Hooks
        /\ \/ settled' = settled
           \/ /\ \A j \in Installers \ {i} : ~Active(j)
              /\ settled' = {h \in Hooks : file[h] = "other"}
        /\ Safe(i)'
    <3>1. CASE file[g] = "absent"
      BY <1>1, <1>2, <1>12, <2>1, <3>1, Raising DEF MakesExecutable, Safe, Active
    <3>2. CASE file[g] # "absent"
      <4>1. GoesOn(i)
        BY <1>12, <2>1, <3>2 DEF MakesExecutable
      <4> QED
        BY <1>1, <1>2, <2>1, <2>3, <4>1, GoingOn DEF Safe, Active, Hooks
    <3> QED
      BY <3>1, <3>2
  <2>5. \A j \in Installers : Safe(j)'
    BY <2>4 DEF Safe, Active
  <2>6. /\ file[g] = "absent" => exec' = exec /\ ours' = ours
        /\ file[g] # "absent" => exec' = exec \cup {g}
        /\ file[g] # "absent" => ours' = IF file[g] = "script" THEN ours \cup {g} ELSE ours
    BY <1>12, <2>1 DEF MakesExecutable
  <2>7. ASSUME NEW h \in Hooks
        PROVE  HookOK(h)'
    <3>1. HookOK(h)
      OBVIOUS
    <3>2. ASSUME NEW j \in Installers
          PROVE  /\ Writing(j, h) => Writing(j, h)'
                 /\ Finishing(j, h) => Finishing(j, h)' \/ h = g
      BY <2>1, <2>2, <2>4 DEF Writing, Finishing
    <3>3. h \in settled' => file'[h] = "other"
      BY <2>2, <2>4, <3>1 DEF HookOK
    <3>4. h \notin spoiled' /\ file'[h] = "empty" => \E j \in Installers : Writing(j, h)'
      BY <2>2, <3>1, <3>2 DEF HookOK
    <3>5. h \notin spoiled' /\ file'[h] = "script" /\ h \notin exec' =>
              \E j \in Installers : Finishing(j, h)'
      BY <2>2, <2>6, <3>1, <3>2 DEF HookOK
    <3>6. h \in ours' => file'[h] \in {"script", "empty"} /\ h \in exec'
      BY <2>2, <2>6, <3>1 DEF HookOK
    <3> QED
      BY <3>3, <3>4, <3>5, <3>6 DEF HookOK
  <2>8. exec' \subseteq Hooks /\ ours' \subseteq Hooks /\ ours \subseteq ours'
    BY <1>1, <2>3, <2>6
  <2> QED
    BY <1>1, <2>2, <2>4, <2>5, <2>7, <2>8
<1> QED
  BY <1>4, <1>5, <1>6, <1>7, <1>8, <1>9, <1>10, <1>11, <1>12 DEF InstallStep

\* The administrator's own act: the hook is his, and what had it open has lost it.
LEMMA UserStepKeeps ==
    ASSUME HooksOK, UserStep
    PROVE  HooksOK'
<1> USE DEF HooksOK
<1>0. /\ installs' \in 0..MaxInstalls /\ userActs' \in 0..MaxUserActs /\ faults' \in 0..MaxFaults
  BY CountersStep
<1>1. PICK g \in Hooks, content \in {"other", "absent"} : UserActs(g, content)
  BY DEF UserStep
<1>2. /\ install \in [Installers -> InstallSet]
      /\ file \in [Hooks -> Contents] /\ exec \subseteq Hooks /\ spoiled \subseteq Hooks
      /\ ours \subseteq Hooks /\ settled \subseteq Hooks /\ directory \in BOOLEAN
  BY DEF HooksTypeOK, InstallSet
<1>3. /\ file' \in [Hooks -> Contents] /\ file'[g] = content
      /\ \A h \in Hooks \ {g} : file'[h] = file[h]
  BY <1>1, <1>2 DEF UserActs, Contents
<1>4. ASSUME NEW j \in Installers
      PROVE  /\ install'[j] \in InstallSet
             /\ install'[j].pc = install[j].pc /\ install'[j].hook = install[j].hook
             /\ install'[j].force = install[j].force
             /\ install[j].hook # g => install'[j] = install[j]
  <2>1. PICK lost : lost = [install[j] EXCEPT !.held = FALSE]
    OBVIOUS
  <2>2. /\ lost \in InstallSet /\ lost.pc = install[j].pc /\ lost.hook = install[j].hook
        /\ lost.force = install[j].force
    BY <1>2, <2>1 DEF InstallSet
  <2>3. install'[j] = IF install[j].hook = g THEN lost ELSE install[j]
    BY <1>1, <2>1 DEF UserActs, Loses
  <2> QED
    BY <1>2, <2>2, <2>3
<1>5. install' \in [Installers -> InstallSet]
  <2>1. install' = [j \in Installers |-> install'[j]]
    BY <1>1 DEF UserActs, Loses
  <2> QED
    BY <1>4, <2>1
<1>6. /\ exec' \subseteq Hooks /\ \A h \in Hooks \ {g} : h \in exec' <=> h \in exec
      /\ spoiled' = spoiled \ {g} /\ ours' = ours \ {g} /\ directory' = directory
  BY <1>1, <1>2 DEF UserActs
<1>7. \/ settled' = settled \cup {g} /\ content = "other" /\ Installing = {}
      \/ settled' = settled \ {g}
  BY <1>1 DEF UserActs
<1>8. ASSUME NEW j \in Installers
      PROVE  Safe(j)'
  <2>1. Safe(j) /\ (Installing = {} => ~Active(j))
    BY DEF Installing, Active
  <2> QED
    BY <1>4, <1>7, <2>1 DEF Safe, Active
<1>9. ASSUME NEW h \in Hooks
      PROVE  HookOK(h)'
  <2>1. HookOK(h)
    OBVIOUS
  <2>2. CASE h = g
    BY <1>1, <1>3, <1>6, <1>7, <2>2 DEF HookOK
  <2>3. CASE h # g
    <3>1. file'[h] = file[h] /\ (h \in exec' <=> h \in exec) /\ (h \in settled' <=> h \in settled)
      BY <1>3, <1>6, <1>7, <2>3
    <3>2. ASSUME NEW j \in Installers
          PROVE  (Writing(j, h) => Writing(j, h)') /\ (Finishing(j, h) => Finishing(j, h)')
      BY <1>4, <2>3 DEF Writing, Finishing
    <3> QED
      BY <1>6, <2>1, <2>3, <3>1, <3>2 DEF HookOK
  <2> QED
    BY <2>2, <2>3
<1>10. HooksTypeOK'
  <2>1. settled' \subseteq Hooks
    BY <1>2, <1>7
  <2> QED
    BY <1>0, <1>2, <1>3, <1>5, <1>6, <2>1 DEF HooksTypeOK, InstallSet
<1> QED
  BY <1>8, <1>9, <1>10

\* What the others do counts a fault at most.
LEMMA OthersKeep ==
    ASSUME HooksOK, faults' = faults \/ Faults,
           UNCHANGED <<file, exec, directory, install, settled, spoiled, ours, installs, userActs>>
    PROVE  HooksOK'
<1>1. faults' \in 0..MaxFaults
  <2>1. faults \in 0..MaxFaults /\ MaxFaults \in Nat
    BY BackendAssumption DEF HooksOK, HooksTypeOK
  <2> QED
    BY <2>1 DEF Faults
<1>2. HooksTypeOK'
  BY <1>1 DEF HooksOK, HooksTypeOK
<1>3. ASSUME NEW j \in Installers
      PROVE  Safe(j)' /\ \A h \in Hooks : Writing(j, h)' = Writing(j, h) /\ Finishing(j, h)' = Finishing(j, h)
  BY DEF HooksOK, Safe, Active, Writing, Finishing
<1>4. ASSUME NEW h \in Hooks
      PROVE  HookOK(h)'
  BY <1>3 DEF HooksOK, HookOK
<1> QED
  BY <1>2, <1>3, <1>4 DEF HooksOK

LEMMA ThreadsKeep ==
    ASSUME NEW t \in Threads, Commit(t) \/ Read(t) \/ Killed(t)
    PROVE  /\ faults' = faults \/ Faults
           /\ UNCHANGED <<file, exec, directory, install, settled, spoiled, ours, installs, userActs>>
<1>1. CASE Commit(t)
  <2>1. CASE ExtrasUnreadable(t) \/ NotImportable(t)
    BY <2>1 DEF ExtrasUnreadable, NotImportable
  <2>2. CASE ~(ExtrasUnreadable(t) \/ NotImportable(t))
    BY <1>1, <2>2 DEF Commit, BeginsTxn, CannotEdit, PreCommitOff, PreCommitBroken, svn_pre_commit,
       PreCommitRefuses, Lands, Conflicted, PostCommit, PostCommitFails, ChangesDate, hookvars
  <2> QED
    BY <2>1, <2>2
<1>2. CASE Read(t)
  BY <1>2 DEF Read, CallsRead, ReadHits, ReadMisses, ReadUncached, ReadComputes, ReadStores,
     KeepsAll, hookvars
<1>3. CASE Killed(t)
  BY <1>3 DEF Killed
<1> QED
  BY <1>1, <1>2, <1>3

LEMMA HooksNext ==
    ASSUME HooksOK, [Next]_vars
    PROVE  HooksOK'
<1>1. CASE \E i \in Installers : InstallsHooks(i)
  BY <1>1, InstallerStep DEF InstallsHooks
<1>2. CASE Administrates
  BY <1>2, UserStepKeeps DEF Administrates
<1>3. CASE CacheForgets
  BY <1>3, OthersKeep DEF CacheForgets
<1>4. CASE UNCHANGED vars
  BY <1>4, OthersKeep DEF vars, hookvars
<1>5. CASE \E t \in Threads : Commit(t) \/ Read(t) \/ Killed(t)
  BY <1>5, ThreadsKeep, OthersKeep
<1> QED
  BY <1>1, <1>2, <1>3, <1>4, <1>5 DEF Next

(* Installing leaves a repository in order, however many install, in       *)
(* whatever order, and whatever of them is killed (install_git_hooks,      *)
(* install_svn_hooks and check_rhodecode_hook in hook_utils).              *)
THEOREM Kept == Spec => []HooksKept
<1>1. Init => HooksOK
  BY HooksStart DEF Init
<1>2. HooksOK /\ [Next]_vars => HooksOK'
  BY HooksNext
<1>3. HooksOK => HooksKept
  <2> SUFFICES ASSUME HooksOK PROVE HooksKept
    OBVIOUS
  <2>1. settled \subseteq Hooks
    BY DEF HooksOK, HooksTypeOK
  <2>2. ASSUME Installing = {}, NEW h \in Hooks \ spoiled
        PROVE  file[h] # "empty" /\ (file[h] = "script" => h \in exec)
    <3>1. \A i \in Installers : ~Writing(i, h) /\ ~Finishing(i, h)
      BY <2>2 DEF Installing, Writing, Finishing
    <3> QED
      BY <3>1 DEF HooksOK, HookOK
  <2> QED
    BY <2>1, <2>2 DEF HooksKept, HooksOK, HookOK
<1> QED
  BY <1>1, <1>2, <1>3, PTL DEF Spec

---------------------------------------------------------------------------
(* The jobs: the fields of a job keep their shape; a job that was guarded  *)
(* when it began is guarded by a script that is there, or the script has   *)
(* run: RhodeCode has approved the job, or the script has failed open.     *)
Committing == {"precommit", "merge", "postcommit", "date"}
Reading == {"lookup", "compute", "store"}
PCs == {"idle"} \cup Committing \cup Reading
Carried == {"none", "env", "txn"}
Verdicts == {"none", "approved", "unreadable", "unimportable"}
JobsOf(k) ==
    [pc : PCs, ask : {k.ask}, way : {k.way}, number : {k.number}, edit : {k.edit},
     dated : {k.dated}, extras : Carried, readonly : BOOLEAN, base : {k.base}, tree : {k.tree},
     rev : {k.rev}, guarded : BOOLEAN, verdict : Verdicts]
IsJob(k) == k \in JobsOf(k)
JobsTyped == DOMAIN job = Threads /\ DOMAIN answer = Threads /\ \A t \in Threads : IsJob(job[t])

GuardOK(k, scripts) ==
    /\ k.pc = "precommit" /\ k.guarded => "pre" \in scripts
    /\ k.pc = "merge" /\ k.guarded /\ k.extras # "none" => k.verdict = "approved" \/ FailedOpen(k)

(* What the revisions say of every question, and what the requests have    *)
(* been told: a question that names a revision has one answer for good.    *)
Results == [ask \in Asks |-> Result(ask)]
OfYoungest == {"youngest", "is_empty"}
Pinned(ask) ==
    ask.name \notin {"none", "revision_properties"} \cup OfYoungest /\ ask.arg # None
Grows(old, new) ==
    \A ask \in Asks : Pinned(ask) /\ old[ask].kind = "ok" => new[ask] = old[ask]

ReadOK(k, a, results) ==
    /\ k.ask.name \in OfYoungest => k.ask.arg = None
    /\ k.pc \in Reading => k.ask \in Asks
    /\ k.pc \in Committing => k.ask.name = "none"
    /\ k.pc = "store" /\ Pinned(k.ask) => Ok(a.val) = results[k.ask]
    /\ k.pc = "idle" /\ a.kind = "ok" /\ Pinned(k.ask) => k.ask \in Asks /\ a = results[k.ask]
CacheOK(c, results) ==
    \A x \in DOMAIN c : x \in Asks /\ (Pinned(x) => Ok(c[x]) = results[x])

RevSet(S) == [tree : S, date : {Server, Caller}]
RevsOK == \E S : revs \in Seq(RevSet(S))

JobsOK ==
    /\ JobsTyped /\ RevsOK
    /\ \A t \in Threads : GuardOK(job[t], ours)
    /\ \A t \in Threads : ReadOK(job[t], answer[t], Results)
    /\ CacheOK(cache, Results)
IInv == HooksOK /\ JobsOK

---------------------------------------------------------------------------
\* Revisions are added, and their dates change.
RevsGrow ==
    /\ RevsOK' /\ Len(revs) <= Len(revs')
    /\ \A n \in 1..Len(revs) : revs'[n].tree = revs[n].tree

LEMMA RevsAdded ==
    ASSUME RevsOK, NEW tree, revs' = Append(revs, [tree |-> tree, date |-> Server])
    PROVE  RevsGrow
<1>1. PICK S : revs \in Seq(RevSet(S))
  BY DEF RevsOK
<1>2. revs \in Seq(RevSet(S \cup {tree}))
  <2>1. RevSet(S) \subseteq RevSet(S \cup {tree})
    BY DEF RevSet
  <2> QED
    BY <1>1, <2>1, SeqMonotonic
<1>3. PICK new : new = [tree |-> tree, date |-> Server]
  OBVIOUS
<1>4. new \in RevSet(S \cup {tree})
  BY <1>3 DEF RevSet
<1>5. /\ revs' \in Seq(RevSet(S \cup {tree}))
      /\ Len(revs') = Len(revs) + 1 /\ Len(revs) \in Nat
      /\ \A n \in 1..Len(revs) : revs'[n] = revs[n]
  BY <1>2, <1>3, <1>4
<1>6. RevsOK'
  BY <1>5 DEF RevsOK
<1> QED
  BY <1>5, <1>6 DEF RevsGrow

LEMMA RevsDated ==
    ASSUME RevsOK, NEW n, revs' = [revs EXCEPT ![n].date = Caller]
    PROVE  RevsGrow
<1>1. PICK S : revs \in Seq(RevSet(S))
  BY DEF RevsOK
<1>2. Len(revs) \in Nat /\ DOMAIN revs = 1..Len(revs)
  BY <1>1
<1>3. ASSUME NEW m \in 1..Len(revs)
      PROVE  revs'[m] \in RevSet(S) /\ revs'[m].tree = revs[m].tree
  <2>1. revs[m] \in RevSet(S)
    BY <1>1
  <2>2. revs'[m] = IF m = n THEN [revs[m] EXCEPT !.date = Caller] ELSE revs[m]
    BY <1>2
  <2> QED
    BY <2>1, <2>2 DEF RevSet
<1>4. revs' \in [1..Len(revs) -> RevSet(S)]
  BY <1>2, <1>3
<1>5. revs' \in Seq(RevSet(S)) /\ Len(revs') = Len(revs)
  <2>1. PICK m, R : m = Len(revs) /\ m \in Nat /\ R = RevSet(S)
    BY <1>2
  <2>2. revs' \in [1..m -> R]
    BY <1>4, <2>1
  <2>3. revs' \in Seq(R)
    <3>1. revs' \in UNION {[1..k -> R] : k \in Nat}
      BY <2>1, <2>2
    <3> QED
      BY <3>1, SeqDef, Zenon
  <2>4. Len(revs') \in Nat /\ DOMAIN revs' = 1..Len(revs') /\ DOMAIN revs' = 1..m
    BY <2>2, <2>3
  <2>5. Len(revs') = m
    <3>1. m \in Nat
      BY <2>1
    <3> QED
      BY <2>4, <3>1
  <2> QED
    BY <2>1, <2>3, <2>5
<1>6. RevsOK'
  BY <1>5 DEF RevsOK
<1> QED
  BY <1>2, <1>3, <1>5, <1>6 DEF RevsGrow

LEMMA RevsSame ==
    ASSUME RevsOK, revs' = revs
    PROVE  RevsGrow
<1>1. PICK S : revs \in Seq(RevSet(S))
  BY DEF RevsOK
<1>2. Len(revs) \in Nat
  BY <1>1
<1>3. RevsOK'
  BY <1>1 DEF RevsOK
<1> QED
  BY <1>2, <1>3 DEF RevsGrow

\* What is said of a revision depends on the revisions up to it.
LEMMA ResultsGrow ==
    ASSUME RevsOK, RevsGrow
    PROVE  Grows(Results, Results')
<1>1. Len(revs) \in Nat /\ Len(revs') \in Nat /\ Len(revs) <= Len(revs')
  <2>1. PICK S : revs \in Seq(RevSet(S))
    BY DEF RevsOK
  <2>2. PICK R : revs' \in Seq(RevSet(R))
    BY DEF RevsGrow, RevsOK
  <2> QED
    BY <2>1, <2>2 DEF RevsGrow
<1>2. ASSUME NEW k \in 0..Youngest
      PROVE  Tree(k)' = Tree(k) /\ k \in 0..Youngest'
  BY <1>1, <1>2 DEF RevsGrow, Tree, Youngest
<1>3. SUFFICES ASSUME NEW ask \in Asks, Pinned(ask), Result(ask).kind = "ok"
               PROVE  Result(ask)' = Result(ask)
  BY DEF Grows, Results
<1>4. PICK r : r = ask.arg
  OBVIOUS
<1>5. r \in Nat /\ r # None
  <2>1. ask.arg \in Args
    BY <1>3 DEF Asks
  <2>2. MaxCommits \in Nat /\ Args \subseteq (0..MaxCommits) \cup {None}
    BY RepoAssumption, BackendAssumption DEF Revisions
  <2>3. ask.arg # None
    BY <1>3 DEF Pinned
  <2> QED
    <3>1. ask.arg \in 0..MaxCommits
      BY <2>1, <2>2, <2>3
    <3> QED
      BY <1>4, <2>2, <2>3, <3>1
<1>6. ask.name \in SvnMethods /\ ask.name \notin {"revision_properties"} \cup OfYoungest
  BY <1>3, BackendAssumption DEF Asks, Pinned
<1>7. \A V : Lookup(r, V).kind = "ok" => r \in 0..Youngest
  BY DEF Lookup, Unhandled
<1>8. r \in 0..Youngest => \A V : Lookup(r, V) = Ok(V) /\ Lookup(r, V)' = Ok(V)
  BY <1>2 DEF Lookup
<1>9. OrYoungest(r) = r /\ OrYoungest(r)' = r
  BY <1>5 DEF OrYoungest
<1> DEFINE In == r \in 0..Youngest
<1>10. \A k \in Nat : In /\ k <= r => Tree(k)' = Tree(k)
  BY <1>1, <1>2, <1>5 DEF Youngest
<1>0. In => Tree(r)' = Tree(r)
  BY <1>5, <1>10
<1>11. CASE ask.name \in {"get_file_content", "get_file_size", "is_binary"}
  <2>1. Result(ask) = FileContents(r) /\ Result(ask)' = FileContents(r)'
    BY <1>4, <1>5, <1>11 DEF Result, NoYoungest, get_file_content, get_file_size, is_binary
  <2>2. In
    BY <1>3, <1>7, <2>1 DEF FileContents
  <2> QED
    BY <1>8, <1>0, <2>1, <2>2 DEF FileContents
<1>12. CASE ask.name = "node_properties"
  <2>1. Result(ask) = node_properties(r) /\ Result(ask)' = node_properties(r)'
    BY <1>4, <1>5, <1>12 DEF Result, NoYoungest
  <2>2. In
    BY <1>3, <1>7, <2>1 DEF node_properties
  <2> QED
    BY <1>8, <1>0, <2>1, <2>2 DEF node_properties
<1>13. CASE ask.name = "get_node_type"
  <2>1. Result(ask) = get_node_type(r) /\ Result(ask)' = get_node_type(r)'
    BY <1>4, <1>5, <1>13 DEF Result, NoYoungest
  <2>2. In
    BY <1>3, <1>7, <1>9, <2>1 DEF get_node_type
  <2> QED
    BY <1>8, <1>9, <1>0, <2>1, <2>2 DEF get_node_type
<1>14. CASE ask.name = "get_nodes"
  <2>1. Result(ask) = get_nodes(r) /\ Result(ask)' = get_nodes(r)'
    BY <1>4, <1>5, <1>14 DEF Result, NoYoungest
  <2>2. In
    BY <1>3, <1>7, <1>9, <2>1 DEF get_nodes
  <2> QED
    BY <1>8, <1>9, <1>0, <2>1, <2>2 DEF get_nodes
<1>15. CASE ask.name = "revision_changes"
  <2>1. Result(ask) = revision_changes(r) /\ Result(ask)' = revision_changes(r)'
    BY <1>4, <1>5, <1>15 DEF Result, NoYoungest
  <2>2. In
    BY <1>3, <1>7, <2>1 DEF revision_changes
  <2>3. r # 0 => Tree(r - 1)' = Tree(r - 1)
    BY <1>5, <1>10, <2>2
  <2> QED
    BY <1>8, <1>0, <2>1, <2>2, <2>3 DEF revision_changes
<1>16. CASE ask.name = "node_history"
  <2>1. Result(ask) = node_history(r) /\ Result(ask)' = node_history(r)'
    BY <1>4, <1>5, <1>16 DEF Result, NoYoungest
  <2>2. In
    BY <1>3, <1>7, <2>1 DEF node_history
  <2>3. ASSUME NEW p
        PROVE  WrittenIn(r, p)' = WrittenIn(r, p)
    <3>1. \A n \in 1..r : /\ Tree(n)' = Tree(n) /\ Tree(n - 1)' = Tree(n - 1)
                          /\ \A k \in n..r : Tree(k)' = Tree(k)
      BY <1>5, <1>10, <2>2
    <3> QED
      BY <3>1 DEF WrittenIn
  <2> QED
    BY <1>8, <1>0, <2>1, <2>2, <2>3 DEF node_history
<1> QED
  BY <1>6, <1>11, <1>12, <1>13, <1>14, <1>15, <1>16 DEF SvnMethods, OfYoungest

LEMMA ReadGrows ==
    ASSUME NEW k, NEW a, NEW old, NEW new, Grows(old, new), ReadOK(k, a, old)
    PROVE  ReadOK(k, a, new)
<1>1. k.pc = "store" /\ Pinned(k.ask) => Ok(a.val) = new[k.ask]
  BY DEF ReadOK, Grows, Reading, Ok
<1>2. k.pc = "idle" /\ a.kind = "ok" /\ Pinned(k.ask) => k.ask \in Asks /\ a = new[k.ask]
  BY DEF ReadOK, Grows
<1> QED
  BY <1>1, <1>2 DEF ReadOK

LEMMA CacheGrows ==
    ASSUME NEW c, NEW old, NEW new, Grows(old, new), CacheOK(c, old)
    PROVE  CacheOK(c, new)
BY DEF CacheOK, Grows, Ok

---------------------------------------------------------------------------
(* The jobs there can be.                                                  *)
LEMMA IdleJob ==
    /\ IsJob(Idle) /\ Idle.pc = "idle" /\ Idle.ask = NoAsk
    /\ NoAsk.name = "none"
BY DEF IsJob, JobsOf, Idle, NoAsk, PCs, Carried, Verdicts

Moved(k, pc) == [k EXCEPT !.pc = pc]
LEMMA MovedJob ==
    ASSUME NEW k, IsJob(k), NEW pc \in PCs, NEW new, new = Moved(k, pc)
    PROVE  /\ IsJob(new) /\ new.pc = pc /\ new.ask = k.ask /\ new.guarded = k.guarded
           /\ new.extras = k.extras /\ new.verdict = k.verdict
BY DEF IsJob, JobsOf, Moved

Asking(k, ask) == [k EXCEPT !.ask = ask]
LEMMA AskingJob ==
    ASSUME NEW k, IsJob(k), NEW ask, NEW new, new = Asking(k, ask)
    PROVE  IsJob(new) /\ new.pc = k.pc /\ new.ask = ask
BY DEF IsJob, JobsOf, Asking

LEMMA JobGoes ==
    ASSUME JobsTyped, NEW t \in Threads, NEW new, IsJob(new), Goes(t, new),
           DOMAIN answer' = Threads
    PROVE  JobsTyped' /\ job'[t] = new /\ \A s \in Threads \ {t} : job'[s] = job[s]
<1>1. /\ DOMAIN job' = Threads /\ job'[t] = new
      /\ \A s \in Threads \ {t} : job'[s] = job[s]
  BY DEF JobsTyped, Goes
<1>2. \A s \in Threads : IsJob(job'[s])
  BY <1>1 DEF JobsTyped
<1> QED
  BY <1>1, <1>2 DEF JobsTyped

\* One thread has moved.
LEMMA ThreadMoves ==
    ASSUME IInv, HooksOK', NEW t \in Threads, NEW new, IsJob(new), Goes(t, new),
           DOMAIN answer' = Threads, \A s \in Threads \ {t} : answer'[s] = answer[s],
           RevsGrow, ours' = ours,
           GuardOK(new, ours), ReadOK(new, answer'[t], Results'), CacheOK(cache', Results')
    PROVE  IInv'
<1>1. JobsTyped' /\ job'[t] = new /\ \A s \in Threads \ {t} : job'[s] = job[s]
  BY JobGoes DEF IInv, JobsOK
<1>2. Grows(Results, Results')
  BY ResultsGrow DEF IInv, JobsOK
<1>3. ASSUME NEW s \in Threads
      PROVE  GuardOK(job'[s], ours') /\ ReadOK(job'[s], answer'[s], Results')
  <2>1. CASE s = t
    BY <1>1, <2>1
  <2>2. CASE s # t
    <3>1. GuardOK(job[s], ours) /\ ReadOK(job[s], answer[s], Results)
      BY DEF IInv, JobsOK
    <3>2. ReadOK(job[s], answer[s], Results')
      BY <1>2, <3>1, ReadGrows
    <3> QED
      BY <1>1, <2>2, <3>1, <3>2
  <2> QED
    BY <2>1, <2>2
<1> QED
  BY <1>1, <1>3 DEF IInv, JobsOK, RevsGrow

\* The jobs and the revisions are left alone.
LEMMA OthersMove ==
    ASSUME IInv, HooksOK', UNCHANGED <<job, answer, revs>>, ours \subseteq ours',
           CacheOK(cache', Results)
    PROVE  IInv'
<1>1. RevsGrow
  BY RevsSame DEF IInv, JobsOK
<1>2. Grows(Results, Results')
  BY <1>1, ResultsGrow DEF IInv, JobsOK
<1>3. ASSUME NEW s \in Threads
      PROVE  GuardOK(job'[s], ours') /\ ReadOK(job'[s], answer'[s], Results')
  <2>1. GuardOK(job[s], ours) /\ ReadOK(job[s], answer[s], Results)
    BY DEF IInv, JobsOK
  <2>2. ReadOK(job[s], answer[s], Results')
    BY <1>2, <2>1, ReadGrows
  <2> QED
    BY <2>1, <2>2 DEF GuardOK
<1>4. CacheOK(cache', Results')
  BY <1>2, CacheGrows
<1>5. JobsTyped'
  BY DEF IInv, JobsOK, JobsTyped
<1> QED
  BY <1>1, <1>3, <1>4, <1>5 DEF IInv, JobsOK, RevsGrow

LEMMA Start == Init => IInv
<1> SUFFICES ASSUME Init PROVE IInv
  OBVIOUS
<1>1. HooksOK
  BY HooksStart DEF Init
<1>2. JobsTyped
  BY IdleJob DEF Init, JobsTyped
<1>3. RevsOK
  <2>1. PICK S : S = {<<>>, FirstTree}
    OBVIOUS
  <2>2. PICK r1, r2 : r1 = [tree |-> <<>>, date |-> Server] /\ r2 = [tree |-> FirstTree, date |-> Server]
    OBVIOUS
  <2>3. r1 \in RevSet(S) /\ r2 \in RevSet(S)
    BY <2>1, <2>2 DEF RevSet
  <2>4. revs = <<r1, r2>>
    BY <2>2 DEF Init, RepoInit
  <2>5. revs \in Seq(RevSet(S))
    BY <2>3, <2>4
  <2> QED
    BY <2>5 DEF RevsOK
<1>4. ASSUME NEW t \in Threads
      PROVE  GuardOK(job[t], ours) /\ ReadOK(job[t], answer[t], Results)
  <2>1. job[t] = Idle /\ answer[t].kind = "none"
    BY DEF Init, Silence
  <2> QED
    BY <2>1, IdleJob DEF GuardOK, ReadOK, Reading, Committing, OfYoungest
<1>5. CacheOK(cache, Results)
  BY DEF Init, CacheInit, CacheOK
<1> QED
  BY <1>1, <1>2, <1>3, <1>4, <1>5 DEF IInv, JobsOK

---------------------------------------------------------------------------
(* The steps of a commit.                                                  *)
LEMMA TxnJob ==
    ASSUME NEW edit, NEW kind \in Kinds, NEW new, new = Txn(edit, kind)
    PROVE  /\ IsJob(new) /\ new.pc = "precommit" /\ new.ask = NoAsk
           /\ new.guarded = ("pre" \in ours)
<1>1. kind.extras \in Carried /\ kind.readonly \in BOOLEAN
  BY BackendAssumption DEF Carried
<1>2. PICK extras, readonly : extras = kind.extras /\ readonly = kind.readonly
  OBVIOUS
<1>5. PICK guarded : guarded = ("pre" \in ours)
  OBVIOUS
<1>6. extras \in Carried /\ readonly \in BOOLEAN /\ guarded \in BOOLEAN
  BY <1>1, <1>2, <1>5
<1>3. PICK way, number, dated, base, tree :
        /\ way = kind.way /\ number = tried + 1 /\ dated = kind.dated /\ base = Youngest
        /\ tree = TxnTree(Tree(Youngest), edit, tried + 1)
  OBVIOUS
<1>4. new = [Idle EXCEPT !.pc = "precommit", !.way = way, !.number = number, !.edit = edit,
                         !.dated = dated, !.extras = extras, !.readonly = readonly,
                         !.base = base, !.tree = tree, !.guarded = guarded]
  BY <1>2, <1>3, <1>5 DEF Txn
<1> QED
  BY <1>4, <1>5, <1>6 DEF IsJob, JobsOf, Idle, PCs, Committing, Verdicts

\* Every step of a commit but its first one, and its end.
LEMMA CommitMoves ==
    ASSUME IInv, HooksOK', NEW t \in Threads, job[t].pc \in Committing,
           NEW new, IsJob(new), new.pc \in Committing, new.ask = job[t].ask,
           Goes(t, new), answer' = answer, cache' = cache, ours' = ours,
           RevsGrow, GuardOK(new, ours)
    PROVE  IInv'
<1>1. ReadOK(new, answer[t], Results')
  BY DEF IInv, JobsOK, ReadOK, Committing, Reading
<1>2. CacheOK(cache, Results')
  BY ResultsGrow, CacheGrows DEF IInv, JobsOK
<1> QED
  BY <1>1, <1>2, ThreadMoves DEF IInv, JobsOK, JobsTyped

LEMMA CommitEnds ==
    ASSUME IInv, HooksOK', NEW t \in Threads, NEW new, new.pc = "idle", IsJob(new),
           Goes(t, new), cache' = cache, ours' = ours, revs' = revs \/ RevsGrow,
           NEW a, answer' = [answer EXCEPT ![t] = a],
           a.kind # "ok" \/ new.ask.name = "none",
           new.ask.name \in OfYoungest => new.ask.arg = None
    PROVE  IInv'
<1>1. RevsGrow
  BY RevsSame DEF IInv, JobsOK
<1>2. /\ DOMAIN answer' = Threads /\ answer'[t] = a
      /\ \A s \in Threads \ {t} : answer'[s] = answer[s]
  BY DEF IInv, JobsOK, JobsTyped
<1>3. ReadOK(new, a, Results') /\ GuardOK(new, ours)
  BY DEF ReadOK, GuardOK, Reading, Committing, Pinned
<1>4. CacheOK(cache, Results')
  BY <1>1, ResultsGrow, CacheGrows DEF IInv, JobsOK
<1> QED
  BY <1>1, <1>2, <1>3, <1>4, ThreadMoves

LEMMA CommitStep ==
    ASSUME IInv, HooksOK', NEW t \in Threads, Commit(t)
    PROVE  IInv'
<1>1. /\ IsJob(job[t]) /\ GuardOK(job[t], ours) /\ ReadOK(job[t], answer[t], Results)
      /\ HookOK("pre") /\ RevsOK
  BY DEF IInv, JobsOK, JobsTyped, HooksOK, Hooks
<1>2. RevsGrow \/ revs' # revs
  BY <1>1, RevsSame
<1>3. Unhandled.kind # "ok"
  BY DEF Unhandled
<1>4. /\ job[t].ask.name \in OfYoungest => job[t].ask.arg = None
      /\ job[t].pc \in Committing => job[t].ask.name = "none"
  BY <1>1 DEF ReadOK
<1>5. CASE BeginsTxn(t)
  <2>1. PICK edit \in CommitEdits, kind \in Kinds : Begins(t, Txn(edit, kind))
    BY <1>5 DEF BeginsTxn
  <2>2. PICK new : new = Txn(edit, kind)
    OBVIOUS
  <2>3. /\ IsJob(new) /\ new.pc = "precommit" /\ new.ask = NoAsk
        /\ new.guarded = ("pre" \in ours)
    BY <2>2, TxnJob
  <2>4. Goes(t, new) /\ answer' = [answer EXCEPT ![t] = Silence]
    BY <2>1, <2>2 DEF Begins
  <2>5. revs' = revs /\ cache' = cache /\ ours' = ours
    BY <1>5 DEF BeginsTxn, hookvars
  <2>6. DOMAIN answer' = Threads /\ \A s \in Threads \ {t} : answer'[s] = answer[s]
    BY <2>4 DEF IInv, JobsOK, JobsTyped
  <2>7. GuardOK(new, ours) /\ ReadOK(new, answer'[t], Results')
    BY <2>3, IdleJob DEF GuardOK, ReadOK, Reading, Committing, OfYoungest
  <2>8. CacheOK(cache, Results')
    BY <1>2, <2>5, ResultsGrow, CacheGrows DEF IInv, JobsOK
  <2> QED
    BY <1>2, <2>3, <2>4, <2>5, <2>6, <2>7, <2>8, ThreadMoves
<1>6. CASE CannotEdit(t)
  <2>1. PICK new : new = Asking(Idle, job[t].ask)
    OBVIOUS
  <2>2. Goes(t, new) /\ answer' = [answer EXCEPT ![t] = Unhandled]
    BY <1>6, <2>1 DEF CannotEdit, Replies, Goes, Asking
  <2>3. cache' = cache /\ ours' = ours /\ revs' = revs
    BY <1>6 DEF CannotEdit, hookvars
  <2>4. IsJob(new) /\ new.pc = "idle" /\ new.ask = job[t].ask
    BY <2>1, IdleJob, AskingJob
  <2> QED
    BY <1>3, <1>4, <2>2, <2>3, <2>4, CommitEnds
<1>7. CASE /\ PreCommitBroken(t) \/ PreCommitRefuses(t) \/ Conflicted(t)
  <2>1. Refused(t) /\ ours' = ours
    BY <1>7 DEF PreCommitBroken, PreCommitRefuses, Conflicted, hookvars
  <2> QED
    BY <1>3, <2>1, IdleJob, CommitEnds DEF Refused, OfYoungest
<1>8. CASE PreCommitOff(t) \/ svn_pre_commit(t) \/ ExtrasUnreadable(t) \/ NotImportable(t)
  <2>1. /\ job[t].pc = "precommit" /\ answer' = answer /\ cache' = cache /\ ours' = ours
        /\ revs' = revs
    BY <1>8 DEF PreCommitOff, svn_pre_commit, ExtrasUnreadable, NotImportable, At, Passes, repo,
       hookvars
  <2>2. PICK new : /\ IsJob(new) /\ Goes(t, new) /\ new.pc = "merge" /\ new.ask = job[t].ask
                   /\ GuardOK(new, ours)
    <3>1. ASSUME NEW verdict \in Verdicts, Passes(t, verdict),
                 \/ ~job[t].guarded
                 \/ job[t].extras = "none"
                 \/ verdict \in {"approved", "unimportable"}
                 \/ verdict = "unreadable" /\ job[t].extras = "txn"
          PROVE  \E new : /\ IsJob(new) /\ Goes(t, new) /\ new.pc = "merge"
                          /\ new.ask = job[t].ask /\ GuardOK(new, ours)
      <4>1. PICK new : new = [job[t] EXCEPT !.pc = "merge", !.verdict = verdict]
        OBVIOUS
      <4>2. /\ IsJob(new) /\ new.pc = "merge" /\ new.ask = job[t].ask
            /\ new.guarded = job[t].guarded /\ new.extras = job[t].extras /\ new.verdict = verdict
        BY <1>1, <4>1 DEF IsJob, JobsOf, PCs, Committing
      <4>3. GuardOK(new, ours)
        BY <3>1, <4>2 DEF GuardOK, FailedOpen
      <4> QED
        BY <3>1, <4>1, <4>2, <4>3 DEF Passes
    <3>2. CASE PreCommitOff(t)
      <4>1. ~job[t].guarded
        BY <1>1, <2>1, <3>2 DEF PreCommitOff, GuardOK, HookOK
      <4> QED
        BY <3>1, <3>2, <4>1 DEF PreCommitOff, Verdicts
    <3>3. CASE svn_pre_commit(t)
      BY <3>1, <3>3 DEF svn_pre_commit, Verdicts
    <3>4. CASE ExtrasUnreadable(t)
      BY <3>1, <3>4 DEF ExtrasUnreadable, Verdicts
    <3>5. CASE NotImportable(t)
      BY <3>1, <3>5 DEF NotImportable, Verdicts
    <3> QED
      BY <1>8, <3>2, <3>3, <3>4, <3>5
  <2> QED
    BY <1>2, <2>1, <2>2, CommitMoves DEF Committing
<1>9. CASE Lands(t)
  <2>1. PICK rev, tree, new :
          /\ rev = NewRevision
          /\ tree = Merged(Tree(job[t].base), job[t].tree, Tree(Youngest))
          /\ new = [job[t] EXCEPT !.pc = "postcommit", !.rev = rev]
    OBVIOUS
  <2>2. /\ job[t].pc = "merge" /\ Goes(t, new) /\ answer' = answer /\ cache' = cache /\ ours' = ours
        /\ revs' = Append(revs, [tree |-> tree, date |-> Server])
    BY <1>9, <2>1 DEF Lands, At, hookvars
  <2>3. IsJob(new) /\ new.pc = "postcommit" /\ new.ask = job[t].ask
    BY <1>1, <2>1 DEF IsJob, JobsOf, PCs, Committing
  <2>4. RevsGrow
    BY <1>1, <2>2, RevsAdded
  <2> QED
    BY <2>2, <2>3, <2>4, CommitMoves DEF Committing, GuardOK
<1>10. CASE PostCommit(t) \/ PostCommitFails(t)
  <2>1. /\ job[t].pc = "postcommit" /\ cache' = cache /\ ours' = ours /\ revs' = revs
    BY <1>10 DEF PostCommit, PostCommitFails, At, repo, hookvars
  <2>2. CASE Goes(t, [job[t] EXCEPT !.pc = "date"]) /\ answer' = answer
    <3>1. PICK new : new = Moved(job[t], "date")
      OBVIOUS
    <3>2. IsJob(new) /\ new.pc = "date" /\ new.ask = job[t].ask
      BY <1>1, <3>1, MovedJob DEF PCs, Committing
    <3>3. Goes(t, new)
      BY <2>2, <3>1 DEF Moved
    <3> QED
      BY <1>2, <2>1, <2>2, <3>2, <3>3, CommitMoves DEF Committing, GuardOK
  <2>3. CASE \E a : Replies(t, a)
    <3>1. PICK a : Replies(t, a)
      BY <2>3
    <3>2. PICK new : new = Asking(Idle, job[t].ask)
      OBVIOUS
    <3>3. Goes(t, new) /\ answer' = [answer EXCEPT ![t] = a]
      BY <3>1, <3>2 DEF Replies, Goes, Asking
    <3>4. IsJob(new) /\ new.pc = "idle" /\ new.ask = job[t].ask
      BY <3>2, IdleJob, AskingJob
    <3> QED
      BY <1>4, <2>1, <3>3, <3>4, CommitEnds DEF Committing
  <2> QED
    BY <1>10, <2>2, <2>3 DEF PostCommit, PostCommitFails
<1>11. CASE ChangesDate(t)
  <2>1. PICK new, n : new = Asking(Idle, job[t].ask) /\ n = job[t].rev + 1
    OBVIOUS
  <2>2. PICK a : Goes(t, new) /\ answer' = [answer EXCEPT ![t] = a]
    BY <1>11, <2>1 DEF ChangesDate, Replies, Goes, Asking
  <2>3. /\ job[t].pc = "date" /\ cache' = cache /\ ours' = ours
        /\ revs' = [revs EXCEPT ![n].date = Caller]
    BY <1>11, <2>1 DEF ChangesDate, At, hookvars
  <2>4. IsJob(new) /\ new.pc = "idle" /\ new.ask = job[t].ask
    BY <2>1, IdleJob, AskingJob
  <2>5. RevsGrow
    BY <1>1, <2>3, RevsDated
  <2> QED
    BY <1>4, <2>2, <2>3, <2>4, <2>5, CommitEnds DEF Committing
<1> QED
  BY <1>5, <1>6, <1>7, <1>8, <1>9, <1>10, <1>11 DEF Commit

---------------------------------------------------------------------------
(* The steps of a read.                                                    *)
LEMMA KeyJob ==
    ASSUME NEW ask \in Asks
    PROVE  /\ KeyOf(ask) \in Asks
           /\ Pinned(KeyOf(ask)) <=> Pinned(ask)
           /\ Pinned(ask) => Results[KeyOf(ask)] = Results[ask]
<1>1. PICK ctx, key : /\ ctx = IF ask.name \in KeyedByContext THEN ask.ctx ELSE NoContext
                      /\ key = [ask EXCEPT !.ctx = ctx]
  OBVIOUS
<1>2. /\ key \in Asks /\ key.name = ask.name /\ key.arg = ask.arg
  BY <1>1 DEF Asks
<1>3. key = KeyOf(ask)
  BY <1>1 DEF KeyOf, Asks
<1>4. Result(key) = Result(ask)
  BY <1>2 DEF Result, NoYoungest
<1> QED
  BY <1>2, <1>3, <1>4 DEF Results, Pinned

\* A result that is ok is a value.
LEMMA OkResult ==
    ASSUME NEW ask \in Asks, Pinned(ask), Result(ask).kind = "ok"
    PROVE  Result(ask) = Ok(Result(ask).val)
<1>1. ask.name \in SvnMethods
  BY BackendAssumption DEF Asks
<1>2. PICK r, V : Result(ask) = Lookup(r, V)
  BY <1>1 DEF Result, NoYoungest, SvnMethods, Pinned, OfYoungest, revision_changes, node_history,
     node_properties, get_node_type, get_nodes, get_file_content, get_file_size, is_binary,
     FileContents
<1> QED
  BY <1>2 DEF Lookup, Ok, Unhandled

\* A request goes on reading.
LEMMA ReadMoves ==
    ASSUME IInv, HooksOK', NEW t \in Threads, job[t].ask \in Asks,
           NEW new, IsJob(new), Goes(t, new), new.pc \in {"idle"} \cup Reading,
           new.ask = job[t].ask,
           UNCHANGED <<repo, hookvars>>,
           DOMAIN answer' = Threads, \A s \in Threads \ {t} : answer'[s] = answer[s],
           new.pc = "store" /\ Pinned(new.ask) => Ok(answer'[t].val) = Results[new.ask],
           new.pc = "idle" /\ answer'[t].kind = "ok" /\ Pinned(new.ask) =>
               answer'[t] = Results[new.ask],
           CacheOK(cache', Results)
    PROVE  IInv'
<1>1. RevsGrow
  BY RevsSame DEF repo, IInv, JobsOK
<1>2. Grows(Results, Results')
  BY <1>1, ResultsGrow DEF IInv, JobsOK
<1>3. ReadOK(new, answer'[t], Results)
  <2>1. job[t].ask.name \in OfYoungest => job[t].ask.arg = None
    BY DEF IInv, JobsOK, ReadOK
  <2> QED
    BY <2>1 DEF ReadOK, Reading, Committing
<1>4. ReadOK(new, answer'[t], Results') /\ CacheOK(cache', Results')
  BY <1>2, <1>3, ReadGrows, CacheGrows
<1>5. GuardOK(new, ours)
  BY DEF GuardOK, Reading
<1> QED
  BY <1>1, <1>4, <1>5, ThreadMoves DEF hookvars

LEMMA ReadStep ==
    ASSUME IInv, HooksOK', NEW t \in Threads, Read(t)
    PROVE  IInv'
<1>1. /\ IsJob(job[t]) /\ ReadOK(job[t], answer[t], Results) /\ CacheOK(cache, Results)
      /\ DOMAIN answer = Threads
  BY DEF IInv, JobsOK, JobsTyped
<1>2. job[t].pc \in Reading => job[t].ask \in Asks
  BY <1>1 DEF ReadOK
<1>3. ASSUME NEW a, Replies(t, a)
      PROVE  \E new : /\ IsJob(new) /\ Goes(t, new) /\ new.pc = "idle" /\ new.ask = job[t].ask
                      /\ answer'[t] = a /\ DOMAIN answer' = Threads
                      /\ \A s \in Threads \ {t} : answer'[s] = answer[s]
  <2>1. PICK new : new = Asking(Idle, job[t].ask)
    OBVIOUS
  <2>2. Goes(t, new) /\ answer' = [answer EXCEPT ![t] = a]
    BY <1>3, <2>1 DEF Replies, Goes, Asking
  <2>3. IsJob(new) /\ new.pc = "idle" /\ new.ask = job[t].ask
    BY <2>1, IdleJob, AskingJob
  <2> QED
    BY <1>1, <2>2, <2>3
<1>4. CASE CallsRead(t)
  <2>1. PICK ask \in Asks :
          /\ ask.name \in {"youngest", "is_empty"} => ask.arg = None
          /\ Begins(t, [Idle EXCEPT !.pc = "lookup", !.ask = ask])
    BY <1>4 DEF CallsRead
  <2>2. PICK new : new = [Idle EXCEPT !.pc = "lookup", !.ask = ask]
    OBVIOUS
  <2>3. IsJob(new) /\ new.pc = "lookup" /\ new.ask = ask
    BY <2>2 DEF IsJob, JobsOf, Idle, PCs, Reading, Carried, Verdicts
  <2>4. Goes(t, new) /\ answer' = [answer EXCEPT ![t] = Silence]
    BY <2>1, <2>2 DEF Begins
  <2>5. UNCHANGED <<repo, hookvars, cache>>
    BY <1>4 DEF CallsRead
  <2>6. GuardOK(new, ours) /\ ReadOK(new, answer'[t], Results')
    BY <2>1, <2>3 DEF GuardOK, ReadOK, Committing, OfYoungest
  <2>7. RevsGrow
    BY <2>5, RevsSame DEF repo, IInv, JobsOK
  <2>8. CacheOK(cache', Results')
    BY <1>1, <2>5, <2>7, ResultsGrow, CacheGrows DEF IInv, JobsOK
  <2>9. DOMAIN answer' = Threads /\ \A s \in Threads \ {t} : answer'[s] = answer[s]
    BY <1>1, <2>4
  <2> QED
    BY <2>3, <2>4, <2>5, <2>6, <2>7, <2>8, <2>9, ThreadMoves DEF hookvars
<1>5. CASE ReadHits(t)
  <2>1. PICK ask, key : ask = job[t].ask /\ key = KeyOf(ask)
    OBVIOUS
  <2>2. /\ job[t].pc = "lookup" /\ key \in DOMAIN cache /\ Replies(t, Ok(cache[key]))
        /\ UNCHANGED <<repo, hookvars, cache>>
    BY <1>5, <2>1 DEF ReadHits, At, Hit, KeepsAll
  <2>3. ask \in Asks
    BY <1>2, <2>1, <2>2 DEF Reading
  <2>4. Pinned(ask) => Ok(cache[key]) = Results[ask]
    BY <1>1, <2>1, <2>2, <2>3, KeyJob DEF CacheOK
  <2> QED
    BY <1>1, <1>3, <2>1, <2>2, <2>3, <2>4, ReadMoves
<1>6. CASE ReadMisses(t)
  <2>1. PICK new : new = Moved(job[t], "compute")
    OBVIOUS
  <2>2. /\ job[t].pc = "lookup" /\ Goes(t, new) /\ UNCHANGED <<repo, hookvars, cache, answer>>
    BY <1>6, <2>1 DEF ReadMisses, Moved, At, KeepsAll
  <2>3. IsJob(new) /\ new.pc = "compute" /\ new.ask = job[t].ask
    BY <1>1, <2>1, MovedJob DEF PCs, Reading
  <2> QED
    BY <1>1, <1>2, <2>2, <2>3, ReadMoves DEF Reading
<1>7. CASE ReadUncached(t)
  <2>1. /\ job[t].pc = "lookup" /\ Replies(t, Result(job[t].ask))
        /\ UNCHANGED <<repo, hookvars, cache>>
    BY <1>7 DEF ReadUncached, At, KeepsAll
  <2>2. job[t].ask \in Asks
    BY <1>2, <2>1 DEF Reading
  <2>3. Result(job[t].ask) = Results[job[t].ask]
    BY <2>2 DEF Results
  <2> QED
    BY <1>1, <1>3, <2>1, <2>2, <2>3, ReadMoves
<1>8. CASE ReadComputes(t)
  <2>1. PICK result : result = Result(job[t].ask)
    OBVIOUS
  <2>2. /\ job[t].pc = "compute" /\ UNCHANGED <<repo, hookvars, cache>>
    BY <1>8 DEF ReadComputes, At, KeepsAll
  <2>3. job[t].ask \in Asks
    BY <1>2, <2>2 DEF Reading
  <2>4. result = Results[job[t].ask]
    BY <2>1, <2>3 DEF Results
  <2>5. CASE result.kind = "ok"
    <3>1. PICK new : new = Moved(job[t], "store")
      OBVIOUS
    <3>2. PICK a : a = [kind |-> "computed", val |-> result.val]
      OBVIOUS
    <3>3. Goes(t, new) /\ answer' = [answer EXCEPT ![t] = a]
      BY <1>8, <2>1, <2>5, <3>1, <3>2 DEF ReadComputes, Moved
    <3>4. IsJob(new) /\ new.pc = "store" /\ new.ask = job[t].ask
      BY <1>1, <3>1, MovedJob DEF PCs, Reading
    <3>5. Pinned(job[t].ask) => Ok(a.val) = Results[job[t].ask]
      <4>1. a.val = result.val
        BY <3>2
      <4>2. Pinned(job[t].ask) => result = Ok(result.val)
        BY <2>1, <2>3, <2>5, OkResult
      <4> QED
        BY <2>4, <4>1, <4>2
    <3>6. /\ DOMAIN answer' = Threads /\ answer'[t] = a
          /\ \A s \in Threads \ {t} : answer'[s] = answer[s]
      BY <1>1, <3>3
    <3> QED
      BY <1>1, <2>2, <2>3, <3>3, <3>4, <3>5, <3>6, ReadMoves DEF Reading
  <2>6. CASE result.kind # "ok"
    <3>1. Replies(t, result)
      BY <1>8, <2>1, <2>6 DEF ReadComputes
    <3> QED
      BY <1>1, <1>3, <2>2, <2>3, <2>6, <3>1, ReadMoves
  <2> QED
    BY <2>5, <2>6
<1>9. CASE ReadStores(t)
  <2>1. PICK ask, key, val : ask = job[t].ask /\ key = KeyOf(ask) /\ val = answer[t].val
    OBVIOUS
  <2>2. /\ job[t].pc = "store" /\ Replies(t, Ok(val)) /\ cache' = With(cache, key, val)
        /\ UNCHANGED <<repo, hookvars>>
    BY <1>9, <2>1 DEF ReadStores, At, KeepsAll
  <2>3. ask \in Asks
    BY <1>2, <2>1, <2>2 DEF Reading
  <2>4. Pinned(ask) => Ok(val) = Results[ask]
    BY <1>1, <2>1, <2>2 DEF ReadOK
  <2>5. CacheOK(cache', Results)
    <3> SUFFICES ASSUME NEW x \in DOMAIN cache'
                 PROVE  x \in Asks /\ (Pinned(x) => Ok(cache'[x]) = Results[x])
      BY DEF CacheOK
    <3>1. CASE x = key
      <4>1. cache'[x] = val
        BY <2>2, <3>1 DEF With
      <4> QED
        BY <2>1, <2>3, <2>4, <3>1, <4>1, KeyJob
    <3>2. CASE x # key
      <4>1. x \in DOMAIN cache /\ cache'[x] = cache[x]
        BY <2>2, <3>2 DEF With
      <4> QED
        BY <1>1, <4>1 DEF CacheOK
    <3> QED
      BY <3>1, <3>2
  <2> QED
    BY <1>3, <2>1, <2>2, <2>3, <2>4, <2>5, ReadMoves
<1> QED
  BY <1>4, <1>5, <1>6, <1>7, <1>8, <1>9 DEF Read

---------------------------------------------------------------------------
LEMMA KilledStep ==
    ASSUME IInv, HooksOK', NEW t \in Threads, Killed(t)
    PROVE  IInv'
<1>1. /\ Goes(t, Idle) /\ answer' = [answer EXCEPT ![t] = Silence]
      /\ cache' = cache /\ ours' = ours /\ revs' = revs
  BY DEF Killed
<1>2. Silence.kind # "ok"
  BY DEF Silence
<1> QED
  BY <1>1, <1>2, IdleJob, CommitEnds DEF OfYoungest

LEMMA AdministratesStep ==
    ASSUME IInv, HooksOK', Administrates
    PROVE  IInv'
<1>1. /\ revs' = revs /\ cache' = cache /\ answer' = answer
      /\ job' = [t \in Threads |-> [job[t] EXCEPT !.guarded = @ /\ "pre" \in ours']]
  BY DEF Administrates, repo
<1>2. RevsGrow
  BY <1>1, RevsSame DEF IInv, JobsOK
<1>3. Grows(Results, Results')
  BY <1>2, ResultsGrow DEF IInv, JobsOK
<1>4. ASSUME NEW t \in Threads
      PROVE  /\ IsJob(job'[t]) /\ GuardOK(job'[t], ours')
             /\ ReadOK(job'[t], answer'[t], Results')
  <2>1. IsJob(job[t]) /\ GuardOK(job[t], ours) /\ ReadOK(job[t], answer[t], Results)
    BY DEF IInv, JobsOK, JobsTyped
  <2>2. PICK guarded : guarded = (job[t].guarded /\ "pre" \in ours')
    OBVIOUS
  <2>3. PICK new : new = [job[t] EXCEPT !.guarded = guarded]
    OBVIOUS
  <2>4. guarded \in BOOLEAN
    BY <2>2
  <2>5. job'[t] = new
    BY <1>1, <2>2, <2>3
  <2>6. /\ IsJob(new) /\ new.pc = job[t].pc /\ new.ask = job[t].ask /\ new.extras = job[t].extras
        /\ new.verdict = job[t].verdict /\ new.guarded = guarded
    BY <2>1, <2>3, <2>4 DEF IsJob, JobsOf
  <2>7. ReadOK(new, answer[t], Results)
    BY <2>1, <2>6 DEF ReadOK
  <2>8. ReadOK(new, answer[t], Results')
    BY <1>3, <2>7, ReadGrows
  <2> QED
    BY <1>1, <2>1, <2>2, <2>5, <2>6, <2>8 DEF GuardOK, FailedOpen
<1>5. CacheOK(cache', Results')
  BY <1>1, <1>3, CacheGrows DEF IInv, JobsOK
<1>6. JobsTyped'
  BY <1>1, <1>4 DEF IInv, JobsOK, JobsTyped
<1> QED
  BY <1>2, <1>4, <1>5, <1>6 DEF IInv, JobsOK, RevsGrow

LEMMA Step ==
    ASSUME IInv, [Next]_vars
    PROVE  IInv'
<1>1. HooksOK'
  BY HooksNext DEF IInv
<1>2. CASE \E t \in Threads : Commit(t) \/ Read(t) \/ Killed(t)
  BY <1>1, <1>2, CommitStep, ReadStep, KilledStep
<1>3. CASE \E i \in Installers : InstallsHooks(i)
  <2>1. UNCHANGED <<repo, cache, job, answer>> /\ ours \subseteq ours'
    BY <1>3, InstallerStep DEF InstallsHooks, IInv
  <2> QED
    BY <1>1, <2>1, OthersMove DEF IInv, JobsOK, repo
<1>4. CASE Administrates
  BY <1>1, <1>4, AdministratesStep
<1>5. CASE CacheForgets
  <2>1. PICK k \in DOMAIN cache : Forgets(k)
    BY <1>5 DEF CacheForgets
  <2>2. CacheOK(cache', Results)
    BY <2>1 DEF Forgets, CacheOK, IInv, JobsOK
  <2> QED
    BY <1>1, <1>5, <2>2, OthersMove DEF CacheForgets, repo
<1>6. CASE UNCHANGED vars
  BY <1>1, <1>6, OthersMove DEF vars, repo, hookvars, IInv, JobsOK
<1> QED
  BY <1>2, <1>3, <1>4, <1>5, <1>6 DEF Next

---------------------------------------------------------------------------
LEMMA Invariant == Spec => []IInv
BY Start, Step, PTL DEF Spec

(* Once the script of RhodeCode has been there, and as long as the         *)
(* administrator leaves it, a commit with extras lands only after RhodeCode *)
(* has approved it, or the script that ran has failed open, however many   *)
(* rewrite the script meanwhile (install_svn_hooks of hook_utils,          *)
(* svn_pre_commit of hooks.py): no commit gets past by the rewriting.      *)
THEOREM Approved == Spec => ApprovedLands
<1>1. IInv /\ [Next]_vars => [\A t \in Threads :
                                /\ At(t, "merge") /\ job'[t].pc = "postcommit"
                                /\ job[t].guarded /\ job[t].extras # "none"
                                => job[t].verdict = "approved" \/ FailedOpen(job[t])]_vars
  BY DEF IInv, JobsOK, GuardOK, At
<1> QED
  BY <1>1, Invariant, PTL DEF Spec, ApprovedLands

(* What a request was told of a revision is what the repository says of it *)
(* for good, whatever is committed meanwhile and whoever computed the      *)
(* value (the cached functions of SvnRemote).                              *)
THEOREM RevisionsRight == Spec => []RevisionAnswerRight
<1>1. IInv => RevisionAnswerRight
  <2> SUFFICES ASSUME IInv, NEW t \in Threads, At(t, "idle"), answer[t].kind = "ok",
                      job[t].ask.name \notin {"none", "revision_properties"},
                      job[t].ask.arg # None
               PROVE  answer[t] = Result(job[t].ask)
    BY DEF RevisionAnswerRight
  <2>1. ReadOK(job[t], answer[t], Results)
    BY DEF IInv, JobsOK
  <2>2. Pinned(job[t].ask)
    BY <2>1 DEF ReadOK, Pinned
  <2>3. job[t].ask \in Asks /\ answer[t] = Results[job[t].ask]
    BY <2>1, <2>2 DEF ReadOK, At
  <2> QED
    BY <2>3 DEF Results
<1> QED
  BY <1>1, Invariant, PTL

---------------------------------------------------------------------------
(* What holds of 0 and of the successor of whatever it holds of holds of   *)
(* every number; a set stands for the predicate.                           *)
LEMMA Induction ==
    ASSUME NEW S, 0 \in S, \A n \in Nat : n \in S => n + 1 \in S
    PROVE  Nat \subseteq S
<1> SUFFICES ASSUME Nat \ S # {} PROVE FALSE
  OBVIOUS
<1>1. PICK n \in Nat \ S : \A m \in Nat \ S : ~(<<m, n>> \in OpToRel(<, Nat))
  <2>1. Nat \ S \subseteq Nat
    OBVIOUS
  <2> QED
    BY <2>1, NatLessThanWellFounded, WFMin, Zenon
<1>2. \A m \in Nat \ S : ~(m < n)
  BY <1>1 DEF OpToRel
<1>3. n # 0 /\ n - 1 \in Nat /\ (n - 1) + 1 = n
  OBVIOUS
<1>4. n - 1 \in S
  BY <1>2, <1>3
<1> QED
  BY <1>3, <1>4

LEMMA UpTo ==
    ASSUME NEW S, NEW N \in Nat, 0 \in S, \A n \in 1..N : n - 1 \in S => n \in S
    PROVE  0..N \subseteq S
<1> DEFINE R == {n \in Nat : n <= N => n \in S}
<1>1. 0 \in R
  OBVIOUS
<1>2. \A n \in Nat : n \in R => n + 1 \in R
  OBVIOUS
<1>3. Nat \subseteq R
  <2> HIDE DEF R
  <2> QED
    BY <1>1, <1>2, Induction
<1> QED
  BY <1>3

LEMMA AboveAbove ==
    ASSUME NEW p \in Paths, NEW q \in Above(p)
    PROVE  /\ q \in Paths /\ q # p
           /\ Above(q) \subseteq Above(p) /\ p \notin Above(q)
<1>1. p \in Seq(STRING) /\ Len(p) \in Nat
  BY RepoAssumption
<1>2. PICK n \in 1..(Len(p) - 1) : q = SubSeq(p, 1, n)
  BY DEF Above
<1>3. n \in Nat /\ 1 <= n /\ n < Len(p) /\ q \in Seq(STRING) /\ Len(q) = n
  BY <1>1, <1>2
<1>4. ASSUME NEW m \in 1..(Len(q) - 1)
      PROVE  SubSeq(q, 1, m) = SubSeq(p, 1, m) /\ m \in 1..(Len(p) - 1) /\ Len(SubSeq(q, 1, m)) = m
  BY <1>1, <1>2, <1>3
<1>5. Above(q) \subseteq Above(p)
  BY <1>4 DEF Above
<1>6. p \notin Above(q)
  BY <1>3, <1>4 DEF Above
<1> QED
  BY <1>3, <1>5, <1>6, RepoAssumption

---------------------------------------------------------------------------
(* What a number of updates and a number of removals make of a tree.       *)
First(ps, n) == {ps[i] : i \in 1..n}
AllAbove(qs) == UNION {Above(q) : q \in qs}
WithUpdates(tree, qs, c) ==
    [p \in DOMAIN tree \cup AllAbove(qs) \cup qs |->
        IF p \in qs THEN c ELSE IF p \in DOMAIN tree THEN tree[p] ELSE Directory]
WithoutRemoved(tree, qs) ==
    [p \in {x \in DOMAIN tree : \A q \in qs : x # q /\ q \notin Above(x)} |-> tree[p]]

LEMMA FirstOnes ==
    ASSUME NEW ps, NEW n \in Nat, n # 0
    PROVE  First(ps, 0) = {} /\ First(ps, n) = First(ps, n - 1) \cup {ps[n]}
<1>1. 1..n = 1..(n - 1) \cup {n} /\ 1..0 = {}
  OBVIOUS
<1> QED
  BY <1>1 DEF First

LEMMA AboveAll ==
    /\ AllAbove({}) = {}
    /\ \A qs, x : x \in AllAbove(qs) <=> \E q \in qs : x \in Above(q)
    /\ \A qs, p : AllAbove(qs \cup {p}) = AllAbove(qs) \cup Above(p)
<1>1. \A qs, x : x \in AllAbove(qs) <=> \E q \in qs : x \in Above(q)
  BY Zenon DEF AllAbove
<1> QED
  BY <1>1

LEMMA UpdatedOne ==
    ASSUME NEW tree, NEW qs, NEW p, NEW c
    PROVE  Updated(WithUpdates(tree, qs, c), p, c) = WithUpdates(tree, qs \cup {p}, c)
<1>1. PICK old : old = WithUpdates(tree, qs, c)
  OBVIOUS
<1>2. /\ DOMAIN old = DOMAIN tree \cup AllAbove(qs) \cup qs
      /\ \A x \in DOMAIN old :
            old[x] = IF x \in qs THEN c ELSE IF x \in DOMAIN tree THEN tree[x] ELSE Directory
  BY <1>1 DEF WithUpdates
<1>3. DOMAIN old \cup Above(p) \cup {p} =
        DOMAIN tree \cup AllAbove(qs \cup {p}) \cup (qs \cup {p})
  BY <1>2, AboveAll
<1>4. \A x \in DOMAIN old \cup Above(p) \cup {p} :
        (IF x = p THEN c ELSE IF x \in DOMAIN old THEN old[x] ELSE Directory) =
        (IF x \in qs \cup {p} THEN c ELSE IF x \in DOMAIN tree THEN tree[x] ELSE Directory)
  BY <1>2
<1>5. PICK dom : dom = DOMAIN old \cup Above(p) \cup {p}
  OBVIOUS
<1>6. Updated(old, p, c) =
        [x \in dom |-> IF x = p THEN c ELSE IF x \in DOMAIN old THEN old[x] ELSE Directory]
  BY <1>5 DEF Updated
<1>7. WithUpdates(tree, qs \cup {p}, c) =
        [x \in dom |->
            IF x \in qs \cup {p} THEN c ELSE IF x \in DOMAIN tree THEN tree[x] ELSE Directory]
  BY <1>3, <1>5 DEF WithUpdates
<1> QED
  BY <1>1, <1>4, <1>5, <1>6, <1>7

LEMMA RemovedOne ==
    ASSUME NEW tree, NEW qs, NEW p
    PROVE  Removed(WithoutRemoved(tree, qs), p) = WithoutRemoved(tree, qs \cup {p})
<1>1. PICK old : old = WithoutRemoved(tree, qs)
  OBVIOUS
<1>2. /\ DOMAIN old = {x \in DOMAIN tree : \A q \in qs : x # q /\ q \notin Above(x)}
      /\ \A x \in DOMAIN old : old[x] = tree[x]
  BY <1>1 DEF WithoutRemoved
<1>3. {x \in DOMAIN old : x # p /\ p \notin Above(x)} =
        {x \in DOMAIN tree : \A q \in qs \cup {p} : x # q /\ q \notin Above(x)}
  BY <1>2
<1>4. \A x \in {x \in DOMAIN old : x # p /\ p \notin Above(x)} : old[x] = tree[x]
  BY <1>2
<1> QED
  BY <1>1, <1>3, <1>4 DEF Removed, WithoutRemoved

\* The recursive functions are defined, and are these.
LEMMA UpdatedAllIs ==
    ASSUME NEW tree, tree = [p \in DOMAIN tree |-> tree[p]], NEW ps, Len(ps) \in Nat, NEW c
    PROVE  \A n \in 0..Len(ps) : UpdatedAll(tree, ps, c)[n] = WithUpdates(tree, First(ps, n), c)
<1> DEFINE R(f) == f = [n \in 0..Len(ps) |-> IF n = 0 THEN tree ELSE Updated(f[n - 1], ps[n], c)]
<1>1. PICK all : all = UpdatedAll(tree, ps, c)
  OBVIOUS
<1>2. WithUpdates(tree, First(ps, 0), c) = tree
  <2>1. First(ps, 0) = {}
    BY DEF First
  <2>2. DOMAIN tree \cup AllAbove({}) \cup {} = DOMAIN tree
    BY AboveAll
  <2>3. WithUpdates(tree, {}, c) = [p \in DOMAIN tree |-> tree[p]]
    BY <2>2 DEF WithUpdates
  <2> QED
    BY <2>1, <2>3
<1>3. \A n \in 1..Len(ps) :
        Updated(WithUpdates(tree, First(ps, n - 1), c), ps[n], c) = WithUpdates(tree, First(ps, n), c)
  BY FirstOnes, UpdatedOne
<1>4. \E f : R(f)
  <2>1. PICK f : f = [n \in 0..Len(ps) |-> WithUpdates(tree, First(ps, n), c)]
    OBVIOUS
  <2>2. \A n \in 0..Len(ps) : f[n] = IF n = 0 THEN tree ELSE Updated(f[n - 1], ps[n], c)
    BY <1>2, <1>3, <2>1
  <2>3. R(f)
    BY <2>1, <2>2
  <2> QED
    BY <2>3
<1>5. all = CHOOSE f : R(f)
  BY <1>1 DEF UpdatedAll
<1>6. R(all)
  BY <1>4, <1>5, Zenon
<1>7. all[0] = tree /\ \A n \in 1..Len(ps) : all[n] = Updated(all[n - 1], ps[n], c)
  BY <1>6
<1> DEFINE S == {n \in 0..Len(ps) : all[n] = WithUpdates(tree, First(ps, n), c)}
<1>8. 0 \in S /\ \A n \in 1..Len(ps) : n - 1 \in S => n \in S
  BY <1>2, <1>3, <1>7
<1>9. 0..Len(ps) \subseteq S
  <2> HIDE DEF S
  <2> QED
    BY <1>8, UpTo
<1> QED
  BY <1>1, <1>9

LEMMA RemovedAllIs ==
    ASSUME NEW tree, tree = [p \in DOMAIN tree |-> tree[p]], NEW ps, Len(ps) \in Nat
    PROVE  \A n \in 0..Len(ps) : RemovedAll(tree, ps)[n] = WithoutRemoved(tree, First(ps, n))
<1> DEFINE R(f) == f = [n \in 0..Len(ps) |-> IF n = 0 THEN tree ELSE Removed(f[n - 1], ps[n])]
<1>1. PICK all : all = RemovedAll(tree, ps)
  OBVIOUS
<1>2. WithoutRemoved(tree, First(ps, 0)) = tree
  BY DEF WithoutRemoved, First
<1>3. \A n \in 1..Len(ps) :
        Removed(WithoutRemoved(tree, First(ps, n - 1)), ps[n]) = WithoutRemoved(tree, First(ps, n))
  BY FirstOnes, RemovedOne
<1>4. \E f : R(f)
  <2>1. PICK f : f = [n \in 0..Len(ps) |-> WithoutRemoved(tree, First(ps, n))]
    OBVIOUS
  <2>2. \A n \in 0..Len(ps) : f[n] = IF n = 0 THEN tree ELSE Removed(f[n - 1], ps[n])
    BY <1>2, <1>3, <2>1
  <2>3. R(f)
    BY <2>1, <2>2
  <2> QED
    BY <2>3
<1>5. all = CHOOSE f : R(f)
  BY <1>1 DEF RemovedAll
<1>6. R(all)
  BY <1>4, <1>5, Zenon
<1>7. all[0] = tree /\ \A n \in 1..Len(ps) : all[n] = Removed(all[n - 1], ps[n])
  BY <1>6
<1> DEFINE S == {n \in 0..Len(ps) : all[n] = WithoutRemoved(tree, First(ps, n))}
<1>8. 0 \in S /\ \A n \in 1..Len(ps) : n - 1 \in S => n \in S
  BY <1>2, <1>3, <1>7
<1>9. 0..Len(ps) \subseteq S
  <2> HIDE DEF S
  <2> QED
    BY <1>8, UpTo
<1> QED
  BY <1>1, <1>9

---------------------------------------------------------------------------
(* Trees whose files were written by the commits of a set, where every     *)
(* node is in a directory.                                                 *)
TreesOver(S) == UNION {[ps -> S] : ps \in SUBSET Paths}
Closed(tree) == \A p \in DOMAIN tree : Above(p) \subseteq DOMAIN tree

LEMMA TreeOver ==
    ASSUME NEW S, NEW t
    PROVE  t \in TreesOver(S) <=> /\ DOMAIN t \subseteq Paths /\ t = [p \in DOMAIN t |-> t[p]]
                                  /\ \A p \in DOMAIN t : t[p] \in S
<1>1. ASSUME t \in TreesOver(S)
      PROVE  /\ DOMAIN t \subseteq Paths /\ t = [p \in DOMAIN t |-> t[p]]
             /\ \A p \in DOMAIN t : t[p] \in S
  <2>1. PICK ps \in SUBSET Paths : t \in [ps -> S]
    BY <1>1 DEF TreesOver
  <2> QED
    BY <2>1
<1>2. ASSUME DOMAIN t \subseteq Paths, t = [p \in DOMAIN t |-> t[p]],
             \A p \in DOMAIN t : t[p] \in S
      PROVE  t \in TreesOver(S)
  <2>1. t \in [DOMAIN t -> S]
    BY <1>2
  <2>2. DOMAIN t \in SUBSET Paths
    BY <1>2
  <2> QED
    BY <2>1, <2>2 DEF TreesOver
<1> QED
  BY <1>1, <1>2

LEMMA NamesAre ==
    ASSUME NEW ps \in Seq(Paths)
    PROVE  Names(ps) \subseteq Paths /\ First(ps, Len(ps)) = Names(ps) /\ Len(ps) \in Nat
BY DEF Names, First

LEMMA TxnTreeIs ==
    ASSUME NEW tree, tree = [p \in DOMAIN tree |-> tree[p]], NEW edit \in CommitEdits, NEW c
    PROVE  /\ Names(edit.updated) \subseteq Paths /\ Names(edit.removed) \subseteq Paths
           /\ TxnTree(tree, edit, c) =
                WithoutRemoved(WithUpdates(tree, Names(edit.updated), c), Names(edit.removed))
<1>1. edit.updated \in Seq(Paths) /\ edit.removed \in Seq(Paths)
  BY BackendAssumption
<1>2. PICK updates : updates = WithUpdates(tree, Names(edit.updated), c)
  OBVIOUS
<1>3. UpdatedAll(tree, edit.updated, c)[Len(edit.updated)] = updates
  BY <1>1, <1>2, NamesAre, UpdatedAllIs
<1>4. updates = [p \in DOMAIN updates |-> updates[p]]
  BY <1>2 DEF WithUpdates
<1>5. RemovedAll(updates, edit.removed)[Len(edit.removed)] =
        WithoutRemoved(updates, Names(edit.removed))
  BY <1>1, <1>4, NamesAre, RemovedAllIs
<1> QED
  BY <1>1, <1>2, <1>3, <1>5, NamesAre DEF TxnTree

LEMMA TxnTreeTree ==
    ASSUME NEW S, NEW tree \in TreesOver(S), Closed(tree), NEW edit \in CommitEdits,
           NEW c \in S, Directory \in S
    PROVE  TxnTree(tree, edit, c) \in TreesOver(S) /\ Closed(TxnTree(tree, edit, c))
<1>1. PICK qs, rs : qs = Names(edit.updated) /\ rs = Names(edit.removed)
  OBVIOUS
<1>2. PICK updates, new : updates = WithUpdates(tree, qs, c) /\ new = WithoutRemoved(updates, rs)
  OBVIOUS
<1>3. /\ DOMAIN tree \subseteq Paths /\ tree = [p \in DOMAIN tree |-> tree[p]]
      /\ \A p \in DOMAIN tree : tree[p] \in S
  BY TreeOver
<1>4. qs \subseteq Paths /\ rs \subseteq Paths /\ new = TxnTree(tree, edit, c)
  BY <1>1, <1>2, <1>3, TxnTreeIs
<1>5. /\ DOMAIN updates = DOMAIN tree \cup AllAbove(qs) \cup qs
      /\ \A p \in DOMAIN updates : updates[p] \in S
  BY <1>2, <1>3 DEF WithUpdates
<1>6. DOMAIN updates \subseteq Paths /\ Closed(updates)
  <2>1. AllAbove(qs) \subseteq Paths
    BY <1>4, AboveAll, AboveAbove
  <2>2. ASSUME NEW p \in DOMAIN updates
        PROVE  Above(p) \subseteq DOMAIN updates
    <3>1. CASE p \in DOMAIN tree
      BY <1>5, <3>1 DEF Closed
    <3>2. CASE p \in qs
      BY <1>5, <3>2, AboveAll
    <3>3. CASE p \in AllAbove(qs)
      <4>1. PICK q \in qs : p \in Above(q)
        BY <3>3, AboveAll
      <4>2. Above(p) \subseteq Above(q)
        BY <1>4, <4>1, AboveAbove
      <4> QED
        BY <1>5, <4>1, <4>2, AboveAll
    <3> QED
      BY <1>5, <3>1, <3>2, <3>3
  <2> QED
    BY <1>3, <1>4, <1>5, <2>1, <2>2 DEF Closed
<1>7. /\ DOMAIN new = {x \in DOMAIN updates : \A q \in rs : x # q /\ q \notin Above(x)}
      /\ \A p \in DOMAIN new : new[p] = updates[p]
      /\ new = [p \in DOMAIN new |-> new[p]]
  BY <1>2 DEF WithoutRemoved
<1>8. Closed(new)
  <2> SUFFICES ASSUME NEW p \in DOMAIN new, NEW r \in Above(p) PROVE r \in DOMAIN new
    BY DEF Closed
  <2>1. p \in Paths /\ p \in DOMAIN updates
    BY <1>6, <1>7
  <2>2. r \in DOMAIN updates /\ Above(r) \subseteq Above(p)
    BY <1>6, <2>1, AboveAbove DEF Closed
  <2> QED
    BY <1>7, <2>2
<1>9. new \in TreesOver(S)
  BY <1>5, <1>6, <1>7, TreeOver
<1> QED
  BY <1>4, <1>8, <1>9

\* What Subversion merges without a conflict is a tree.
LEMMA MergedTree ==
    ASSUME NEW S, NEW base \in TreesOver(S), NEW mine \in TreesOver(S), NEW theirs \in TreesOver(S),
           Closed(base), Closed(mine), Closed(theirs), ~Conflicts(base, mine, theirs)
    PROVE  Merged(base, mine, theirs) \in TreesOver(S) /\ Closed(Merged(base, mine, theirs))
<1>1. PICK m, t, new : /\ m = Changed(base, mine) /\ t = Changed(base, theirs)
                       /\ new = Merged(base, mine, theirs)
  OBVIOUS
<1>2. /\ DOMAIN base \subseteq Paths /\ DOMAIN mine \subseteq Paths /\ DOMAIN theirs \subseteq Paths
      /\ \A p \in DOMAIN mine : mine[p] \in S
      /\ \A p \in DOMAIN theirs : theirs[p] \in S
  BY TreeOver
<1>3. /\ DOMAIN new = (DOMAIN theirs \ m) \cup (m \cap DOMAIN mine)
      /\ \A p \in DOMAIN new : new[p] = IF p \in m THEN mine[p] ELSE theirs[p]
      /\ new = [p \in DOMAIN new |-> new[p]]
  BY <1>1 DEF Merged
<1>4. new \in TreesOver(S)
  BY <1>2, <1>3, TreeOver
<1>5. /\ \A p : p \in m => p \notin t
      /\ \A p \in m, q \in t : /\ p \in Gone(base, mine) => p \notin Above(q)
                               /\ q \in Gone(base, theirs) => q \notin Above(p)
  BY <1>1 DEF Conflicts
<1>6. /\ \A p : p \in m <=> /\ p \in DOMAIN base \cup DOMAIN mine
                            /\ ~(p \in DOMAIN base /\ p \in DOMAIN mine /\ base[p] = mine[p])
      /\ \A p : p \in t <=> /\ p \in DOMAIN base \cup DOMAIN theirs
                            /\ ~(p \in DOMAIN base /\ p \in DOMAIN theirs /\ base[p] = theirs[p])
  BY <1>1 DEF Changed
<1>7. Closed(new)
  <2> SUFFICES ASSUME NEW p \in DOMAIN new, NEW q \in Above(p) PROVE q \in DOMAIN new
    BY DEF Closed
  <2>1. CASE p \in m /\ p \in DOMAIN mine
    <3>1. q \in DOMAIN mine
      BY <2>1 DEF Closed
    <3>2. CASE q \notin m
      <4>1. q \in DOMAIN base
        BY <1>6, <3>1, <3>2
      <4>2. q \in DOMAIN theirs
        BY <1>5, <1>6, <2>1, <4>1 DEF Gone
      <4> QED
        BY <1>3, <3>2, <4>2
    <3> QED
      BY <1>3, <3>1, <3>2
  <2>2. CASE p \notin m /\ p \in DOMAIN theirs
    <3>1. q \in DOMAIN theirs
      BY <2>2 DEF Closed
    <3>2. CASE q \in m /\ q \notin DOMAIN mine
      <4>1. q \in Gone(base, mine)
        BY <1>6, <3>2 DEF Gone
      <4>2. p \notin t
        BY <1>5, <3>2, <4>1
      <4>3. p \in DOMAIN mine
        BY <1>6, <2>2, <4>2
      <4> QED
        BY <3>2, <4>3 DEF Closed
    <3> QED
      BY <1>3, <3>1, <3>2
  <2> QED
    BY <1>3, <2>1, <2>2
<1> QED
  BY <1>1, <1>4, <1>7

\* A merge holds what the commit asked for, and otherwise what was there.
LEMMA MergedAsAsked ==
    ASSUME NEW S, NEW base \in TreesOver(S), NEW old \in TreesOver(S), Closed(base),
           NEW edit \in CommitEdits, NEW number, \A p \in DOMAIN base : base[p] # number,
           NEW mine, mine = TxnTree(base, edit, number), ~Conflicts(base, mine, old)
    PROVE  AsAsked(base, old, Merged(base, mine, old), edit, number)
<1> PICK removed, written, new :
      /\ removed = Under(Names(edit.removed) \cap DOMAIN base)
      /\ written = Names(edit.updated) \ Under(Names(edit.removed))
      /\ new = Merged(base, mine, old)
  OBVIOUS
<1>1. PICK qs, rs, m, t : /\ qs = Names(edit.updated) /\ rs = Names(edit.removed)
                          /\ m = Changed(base, mine) /\ t = Changed(base, old)
  OBVIOUS
<1>2. /\ DOMAIN base \subseteq Paths /\ base = [p \in DOMAIN base |-> base[p]]
      /\ DOMAIN old \subseteq Paths
  BY TreeOver
<1>3. /\ qs \subseteq Paths /\ rs \subseteq Paths
      /\ mine = WithoutRemoved(WithUpdates(base, qs, number), rs)
  BY <1>1, <1>2, TxnTreeIs
<1>4. \A p \in Paths : p \in Under(rs) <=> \E q \in rs : p = q \/ q \in Above(p)
  BY DEF Under, Beneath
<1>5. /\ removed \subseteq Under(rs)
      /\ \A p \in removed : \E q \in rs \cap DOMAIN base : p = q \/ q \in Above(p)
      /\ DOMAIN base \cap Under(rs) \subseteq removed
  BY <1>1, <1>2, <1>4 DEF Under, Beneath, Closed
<1>6. /\ \A p \in Paths : p \in DOMAIN mine <=> /\ p \in DOMAIN base \cup AllAbove(qs) \cup qs
                                                /\ p \notin Under(rs)
      /\ \A p \in DOMAIN mine : mine[p] = IF p \in qs THEN number
                                          ELSE IF p \in DOMAIN base THEN base[p] ELSE Directory
  BY <1>3, <1>4 DEF WithoutRemoved, WithUpdates
<1>7. /\ DOMAIN new = (DOMAIN old \ m) \cup (m \cap DOMAIN mine)
      /\ \A p \in DOMAIN new : new[p] = IF p \in m THEN mine[p] ELSE old[p]
  BY <1>1 DEF Merged
<1>8. /\ \A p : p \in m => p \notin t
      /\ \A p \in m, q \in t : /\ p \in Gone(base, mine) => p \notin Above(q)
                               /\ q \in Gone(base, old) => q \notin Above(p)
  BY <1>1 DEF Conflicts
<1>9. /\ \A p : p \in m <=> /\ p \in DOMAIN base \cup DOMAIN mine
                            /\ ~(p \in DOMAIN base /\ p \in DOMAIN mine /\ base[p] = mine[p])
      /\ \A p : p \in t <=> /\ p \in DOMAIN base \cup DOMAIN old
                            /\ ~(p \in DOMAIN base /\ p \in DOMAIN old /\ base[p] = old[p])
  BY <1>1 DEF Changed
<1>10. DOMAIN mine \subseteq Paths
  <2>1. AllAbove(qs) \subseteq Paths
    BY <1>3, AboveAll, AboveAbove
  <2> QED
    BY <1>2, <1>3, <2>1 DEF WithoutRemoved, WithUpdates
<1>11. removed \subseteq Paths /\ written \subseteq Paths /\ written = qs \ Under(rs)
  BY <1>1, <1>3 DEF Under
<1>12. ASSUME NEW p \in removed
       PROVE  p \notin t /\ p \notin DOMAIN new
  <2>1. p \notin DOMAIN mine
    BY <1>5, <1>6, <1>11
  <2>2. PICK q \in rs \cap DOMAIN base : p = q \/ q \in Above(p)
    BY <1>5
  <2>3. q \in Gone(base, mine) /\ q \in m
    <3>1. q \in Paths /\ q \in Under(rs)
      BY <1>3, <1>4
    <3> QED
      BY <1>6, <1>9, <3>1 DEF Gone
  <2>4. p \notin t
    BY <1>8, <2>2, <2>3
  <2>5. p \in DOMAIN old => p \in m
    BY <1>9, <2>1, <2>4
  <2> QED
    BY <1>7, <2>1, <2>4, <2>5
<1>13. ASSUME NEW p \in written
       PROVE  p \notin t /\ p \in DOMAIN new /\ new[p] = number
  <2>1. p \in DOMAIN mine /\ mine[p] = number
    BY <1>6, <1>11
  <2>2. p \in m
    BY <1>9, <2>1
  <2> QED
    BY <1>7, <1>8, <2>1, <2>2
<1>14. ASSUME NEW p \in FilesOf(old), p \notin removed, p \notin written
       PROVE  p \in DOMAIN new /\ new[p] = old[p]
  <2>1. p \in DOMAIN old /\ old[p] # Directory /\ p \in Paths
    BY <1>2 DEF FilesOf
  <2>2. CASE p \in m
    <3>1. p \in DOMAIN base /\ base[p] = old[p]
      BY <1>8, <1>9, <2>1, <2>2
    <3>2. p \notin Under(rs) /\ p \notin qs
      BY <1>5, <1>11, <1>14, <3>1
    <3>3. p \in DOMAIN mine /\ mine[p] = base[p]
      BY <1>6, <2>1, <3>1, <3>2
    <3> QED
      BY <1>9, <2>2, <3>1, <3>3
  <2>3. CASE p \notin m
    BY <1>7, <2>1, <2>3
  <2> QED
    BY <2>2, <2>3
<1>15. ASSUME NEW p \in DOMAIN new, p \notin DOMAIN old, p \notin written
       PROVE  new[p] = Directory
  <2>1. p \in m /\ p \in DOMAIN mine /\ new[p] = mine[p]
    BY <1>7, <1>15
  <2>2. p \notin DOMAIN base
    BY <1>8, <1>9, <1>15, <2>1
  <2>3. p \notin qs
    BY <1>6, <1>10, <1>11, <1>15, <2>1
  <2> QED
    BY <1>6, <2>1, <2>2, <2>3
<1>16. /\ removed \cap DOMAIN new = {}
       /\ \A p \in written : p \in DOMAIN new /\ new[p] = number
       /\ \A p \in FilesOf(old) \ (removed \cup written) : p \in DOMAIN new /\ new[p] = old[p]
       /\ \A p \in DOMAIN new \ (DOMAIN old \cup written) : new[p] = Directory
       /\ (removed \cup written) \cap Changed(base, old) = {}
  BY <1>1, <1>12, <1>13, <1>14, <1>15
<1> QED
  BY <1>16 DEF AsAsked

---------------------------------------------------------------------------
(* The revisions are trees of what was committed so far, and there are no  *)
(* more of them than commits that are over; an open transaction is what    *)
(* its commit makes of the revision it began on, where nothing was written *)
(* by it yet.                                                              *)
Opening == {"precommit", "merge"}
Opened == {t \in Threads : job[t].pc \in Opening}
OpenOK(k, r, n) ==
    /\ k.edit \in CommitEdits /\ k.number \in 1..n /\ k.base \in 0..(Len(r) - 1)
    /\ k.tree = TxnTree(r[k.base + 1].tree, k.edit, k.number)
    /\ \A p \in DOMAIN r[k.base + 1].tree : r[k.base + 1].tree[p] # k.number
TxnOK(k, r, n) ==
    /\ k.ask \in Asks \cup {NoAsk} /\ k.tree \in Trees /\ k.dated \in BOOLEAN
    /\ k.base \in (0..(Len(r) - 1)) \cup {None} /\ k.rev \in (0..(Len(r) - 1)) \cup {None}
    /\ k.pc \in Opening => OpenOK(k, r, n)
Whole(r, n) ==
    /\ r \in Seq(RevSet(TreesOver(0..n))) /\ Len(r) >= 2
    /\ \A m \in 1..Len(r) : Closed(r[m].tree)
Counted ==
    /\ tried \in 1..MaxCommits /\ dead \subseteq 1..tried /\ reads \in 0..MaxReads
    /\ IsFiniteSet(Opened) /\ Len(revs) + Cardinality(Opened) <= tried + 1
TxnsOK == Whole(revs, tried) /\ Counted /\ \A t \in Threads : TxnOK(job[t], revs, tried)

LEMMA TreesUpTo ==
    /\ MaxCommits \in Nat /\ Trees = TreesOver(0..MaxCommits)
    /\ \A m, n \in Nat : m <= n => TreesOver(0..m) \subseteq TreesOver(0..n)
<1>1. MaxCommits \in Nat /\ MaxCommits # 0
  BY RepoAssumption
<1>2. {Directory} \cup Numbers = 0..MaxCommits
  BY <1>1 DEF Directory, Numbers
<1>3. Trees = TreesOver(0..MaxCommits)
  BY <1>2 DEF Trees, TreesOver
<1>4. ASSUME NEW m \in Nat, NEW n \in Nat, m <= n
      PROVE  TreesOver(0..m) \subseteq TreesOver(0..n)
  <2>1. 0..m \subseteq 0..n
    BY <1>4
  <2> QED
    BY <2>1, TreeOver
<1> QED
  BY <1>1, <1>3, <1>4

LEMMA TxnGrows ==
    ASSUME NEW k, NEW r, NEW s, NEW m \in Nat, NEW n \in Nat, m <= n, Len(r) \in Nat, Len(s) \in Nat,
           Len(r) <= Len(s), \A i \in 1..Len(r) : s[i].tree = r[i].tree, TxnOK(k, r, m)
    PROVE  TxnOK(k, s, n)
<1>1. (0..(Len(r) - 1)) \subseteq (0..(Len(s) - 1)) /\ (1..m) \subseteq (1..n)
  OBVIOUS
<1>2. \A b \in 0..(Len(r) - 1) : s[b + 1].tree = r[b + 1].tree
  OBVIOUS
<1>3. OpenOK(k, r, m) => OpenOK(k, s, n)
  BY <1>1, <1>2 DEF OpenOK
<1> QED
  BY <1>1, <1>3 DEF TxnOK

LEMMA WholeGrows ==
    ASSUME NEW r, NEW m \in Nat, NEW n \in Nat, m <= n, Whole(r, m)
    PROVE  Whole(r, n)
<1>1. RevSet(TreesOver(0..m)) \subseteq RevSet(TreesOver(0..n))
  BY TreesUpTo DEF RevSet
<1> QED
  BY <1>1, SeqMonotonic DEF Whole

LEMMA WholeFacts ==
    ASSUME NEW r, NEW n, Whole(r, n)
    PROVE  /\ Len(r) \in Nat /\ Len(r) >= 2 /\ DOMAIN r = 1..Len(r)
           /\ \A i \in 1..Len(r) : /\ r[i] \in RevSet(TreesOver(0..n))
                                   /\ r[i].tree \in TreesOver(0..n) /\ Closed(r[i].tree)
<1>1. PICK R : R = RevSet(TreesOver(0..n))
  OBVIOUS
<1>2. r \in Seq(R)
  BY <1>1 DEF Whole
<1>3. Len(r) \in Nat /\ DOMAIN r = 1..Len(r) /\ \A i \in 1..Len(r) : r[i] \in R
  BY <1>2
<1> QED
  BY <1>1, <1>3 DEF Whole, RevSet

LEMMA WholeAdded ==
    ASSUME NEW r, NEW n, Whole(r, n), NEW tree \in TreesOver(0..n), Closed(tree),
           NEW s, s = Append(r, [tree |-> tree, date |-> Server])
    PROVE  Whole(s, n) /\ Len(s) = Len(r) + 1 /\ s[Len(s)].tree = tree
<1>1. PICK R, rev : R = RevSet(TreesOver(0..n)) /\ rev = [tree |-> tree, date |-> Server]
  OBVIOUS
<1>2. rev \in R /\ rev.tree = tree
  BY <1>1 DEF RevSet
<1>3. r \in Seq(R)
  BY <1>1 DEF Whole
<1>4. /\ s \in Seq(R) /\ Len(s) = Len(r) + 1 /\ Len(r) \in Nat /\ s[Len(r) + 1] = rev
      /\ \A i \in 1..Len(r) : s[i] = r[i]
  BY <1>1, <1>2, <1>3
<1>5. \A i \in 1..Len(s) : Closed(s[i].tree)
  BY <1>2, <1>4 DEF Whole
<1> QED
  BY <1>1, <1>2, <1>4, <1>5 DEF Whole

LEMMA WholeDated ==
    ASSUME NEW r, NEW n, Whole(r, n), NEW m, NEW s, s = [r EXCEPT ![m].date = Caller]
    PROVE  Whole(s, n) /\ Len(s) = Len(r)
<1>1. PICK R, k : R = RevSet(TreesOver(0..n)) /\ k = Len(r)
  OBVIOUS
<1>2. /\ k \in Nat /\ k >= 2 /\ DOMAIN r = 1..k
      /\ \A i \in 1..k : r[i] \in R /\ Closed(r[i].tree)
  BY <1>1, WholeFacts
<1>3. ASSUME NEW i \in 1..k
      PROVE  s[i] \in R /\ s[i].tree = r[i].tree
  <2>1. s[i] = IF i = m THEN [r[i] EXCEPT !.date = Caller] ELSE r[i]
    BY <1>2
  <2> QED
    BY <1>1, <1>2, <2>1 DEF RevSet
<1>4. s \in [1..k -> R]
  BY <1>2, <1>3
<1>5. s \in Seq(R)
  <2>1. s \in UNION {[1..j -> R] : j \in Nat}
    BY <1>2, <1>4
  <2> QED
    BY <2>1, SeqDef, Zenon
<1>6. Len(s) = k
  <2>1. Len(s) \in Nat /\ DOMAIN s = 1..Len(s) /\ DOMAIN s = 1..k
    BY <1>4, <1>5
  <2> QED
    BY <1>2, <2>1
<1> QED
  BY <1>1, <1>2, <1>3, <1>5, <1>6 DEF Whole

\* Of one thread that is open or not.
Holds(k) == IF k.pc \in Opening THEN 1 ELSE 0

LEMMA OpenedStep ==
    ASSUME Counted, NEW t \in Threads, \A s \in Threads \ {t} : job'[s] = job[s]
    PROVE  /\ IsFiniteSet(Opened') /\ Cardinality(Opened) \in Nat /\ Cardinality(Opened') \in Nat
           /\ Cardinality(Opened') + Holds(job[t]) = Cardinality(Opened) + Holds(job'[t])
<1>1. IsFiniteSet(Opened) /\ Cardinality(Opened) \in Nat
  BY FS_CardinalityType DEF Counted
<1>2. t \in Opened <=> job[t].pc \in Opening
  BY DEF Opened
<1>3. CASE job'[t].pc \in Opening
  <2>1. Opened' = Opened \cup {t}
    BY <1>3 DEF Opened
  <2> QED
    BY <1>1, <1>2, <1>3, <2>1, FS_AddElement, FS_CardinalityType DEF Holds
<1>4. CASE job'[t].pc \notin Opening
  <2>1. Opened' = Opened \ {t}
    BY <1>4 DEF Opened
  <2>2. IsFiniteSet(Opened') /\ Cardinality(Opened') \in Nat
    BY <1>1, <2>1, FS_RemoveElement, FS_CardinalityType
  <2>3. Cardinality(Opened') = IF t \in Opened THEN Cardinality(Opened) - 1 ELSE Cardinality(Opened)
    BY <1>1, <2>1, FS_RemoveElement
  <2> QED
    BY <1>1, <1>2, <1>4, <2>2, <2>3 DEF Holds
<1> QED
  BY <1>3, <1>4

LEMMA ThreadKeepsTxns ==
    ASSUME TxnsOK, RevsGrow, NEW t \in Threads, \A s \in Threads \ {t} : job'[s] = job[s],
           tried' \in {tried, tried + 1}, tried' <= MaxCommits,
           Whole(revs', tried'), dead' \subseteq 1..tried', reads' \in 0..MaxReads,
           TxnOK(job'[t], revs', tried'),
           Len(revs') + Holds(job'[t]) + tried <= Len(revs) + Holds(job[t]) + tried'
    PROVE  TxnsOK'
<1>1. /\ tried \in Nat /\ tried >= 1 /\ tried' \in Nat /\ tried <= tried'
      /\ tried' \in 1..MaxCommits
  BY TreesUpTo DEF TxnsOK, Counted
<1>2. /\ Len(revs) \in Nat /\ Len(revs') \in Nat /\ Len(revs) <= Len(revs')
      /\ \A i \in 1..Len(revs) : revs'[i].tree = revs[i].tree
  BY WholeFacts DEF TxnsOK, RevsGrow
<1>3. \A s \in Threads : TxnOK(job'[s], revs', tried')
  BY <1>1, <1>2, TxnGrows DEF TxnsOK
<1>4. /\ IsFiniteSet(Opened') /\ Cardinality(Opened) \in Nat /\ Cardinality(Opened') \in Nat
      /\ Cardinality(Opened') + Holds(job[t]) = Cardinality(Opened) + Holds(job'[t])
  BY OpenedStep DEF TxnsOK
<1>5. Len(revs) + Cardinality(Opened) <= tried + 1
  BY DEF TxnsOK, Counted
<1>6. Holds(job[t]) \in {0, 1} /\ Holds(job'[t]) \in {0, 1}
  BY DEF Holds
<1>7. Len(revs') + Cardinality(Opened') <= tried' + 1
  <2>1. PICK l \in Nat, m \in Nat, c \in Nat, d \in Nat, g \in {0, 1}, h \in {0, 1}, n \in Nat,
             o \in Nat : /\ l = Len(revs) /\ m = Len(revs') /\ c = Cardinality(Opened)
                         /\ d = Cardinality(Opened') /\ g = Holds(job[t]) /\ h = Holds(job'[t])
                         /\ n = tried /\ o = tried'
    BY <1>1, <1>2, <1>4, <1>6, Zenon
  <2>2. m + h + n <= l + g + o /\ d + g = c + h /\ l + c <= n + 1
    BY <1>4, <1>5, <2>1, Zenon
  <2>3. m + d <= o + 1
    BY <2>2
  <2> QED
    BY <2>1, <2>3, Zenon
<1> QED
  BY <1>1, <1>3, <1>4, <1>7 DEF TxnsOK, Counted

\* The revisions, the counters and every open transaction are left alone.
LEMMA OthersKeepTxns ==
    ASSUME TxnsOK, UNCHANGED <<revs, tried, dead, reads>>,
           \A t \in Threads : /\ TxnOK(job[t], revs, tried) => TxnOK(job'[t], revs, tried)
                              /\ job'[t].pc = job[t].pc
    PROVE  TxnsOK'
<1>1. Opened' = Opened
  BY DEF Opened
<1> QED
  BY <1>1 DEF TxnsOK, Counted

\* What is left of a transaction once it is over.
LEMMA IdleTxn ==
    ASSUME NEW r, NEW n
    PROVE  Idle.pc \notin Opening /\ Idle.tree \in Trees /\ TxnOK(Idle, r, n)
<1>1. Idle.tree \in [{} -> 0..MaxCommits] /\ {} \in SUBSET Paths
  <2>1. Idle.tree = <<>> /\ DOMAIN Idle.tree = {}
    BY DEF Idle
  <2> QED
    BY <2>1
<1>2. Idle.tree \in Trees
  BY <1>1, TreesUpTo DEF TreesOver
<1> QED
  BY <1>2 DEF TxnOK, Idle, Opening

LEMMA TxnOver ==
    ASSUME NEW k, NEW r, NEW n, TxnOK(k, r, n), NEW new, new = Asking(Idle, k.ask)
    PROVE  TxnOK(new, r, n) /\ new.pc = "idle"
<1>1. /\ new.pc = Idle.pc /\ new.ask = k.ask /\ new.tree = Idle.tree /\ new.dated = FALSE
      /\ new.base = None /\ new.rev = None /\ Idle.pc = "idle"
  BY DEF Asking, Idle
<1> QED
  BY <1>1, IdleTxn DEF TxnOK

LEMMA TxnsStart == Init => TxnsOK
<1> SUFFICES ASSUME Init PROVE TxnsOK
  OBVIOUS
<1>1. /\ revs = <<[tree |-> <<>>, date |-> Server], [tree |-> FirstTree, date |-> Server]>>
      /\ tried = 1 /\ dead = {} /\ reads = 0 /\ job = [t \in Threads |-> Idle]
  BY DEF Init, RepoInit
<1>2. PICK r1, r2 : r1 = [tree |-> <<>>, date |-> Server] /\ r2 = [tree |-> FirstTree, date |-> Server]
  OBVIOUS
<1>3. <<>> \in TreesOver(0..1) /\ FirstTree \in TreesOver(0..1) /\ Closed(<<>>) /\ Closed(FirstTree)
  <2>1. DOMAIN <<>> = {}
    OBVIOUS
  <2>2. <<>> \in [{} -> 0..1] /\ {} \in SUBSET Paths
    BY <2>1
  <2>3. FirstTree \in TreesOver(0..MaxCommits) /\ \A p \in DOMAIN FirstTree : FirstTree[p] \in {0, 1}
    BY TreesUpTo, RepoAssumption DEF Directory
  <2>4. FirstTree \in TreesOver(0..1)
    <3>1. \A p \in DOMAIN FirstTree : FirstTree[p] \in 0..1
      BY <2>3
    <3> QED
      BY <2>3, <3>1, TreeOver
  <2> QED
    BY <2>1, <2>2, <2>4, RepoAssumption DEF TreesOver, Closed
<1>4. Whole(revs, tried)
  <2>1. PICK R : R = RevSet(TreesOver(0..tried))
    OBVIOUS
  <2>2. r1 \in R /\ r2 \in R /\ r1.tree = <<>> /\ r2.tree = FirstTree
    BY <1>1, <1>2, <1>3, <2>1 DEF RevSet
  <2>3. revs = <<r1, r2>>
    BY <1>1, <1>2
  <2>4. revs \in Seq(R) /\ Len(revs) = 2 /\ revs[1] = r1 /\ revs[2] = r2
    BY <2>2, <2>3
  <2>5. \A m \in 1..Len(revs) : Closed(revs[m].tree)
    BY <1>3, <2>2, <2>4
  <2> QED
    BY <2>1, <2>4, <2>5 DEF Whole
<1>5. Counted
  <2>1. Opened = {}
    BY <1>1 DEF Opened, Opening, Idle
  <2>2. Len(revs) = 2
    BY <1>1
  <2> QED
    BY <1>1, <2>1, <2>2, FS_EmptySet, RepoAssumption, BackendAssumption DEF Counted
<1>6. TxnOK(Idle, revs, tried)
  BY IdleTxn
<1> QED
  BY <1>1, <1>4, <1>5, <1>6 DEF TxnsOK

\* What a commit begins.
LEMMA TxnBegins ==
    ASSUME TxnsOK, tried < MaxCommits, NEW edit \in CommitEdits, NEW kind \in Kinds,
           NEW new, new = Txn(edit, kind)
    PROVE  /\ TxnOK(new, revs, tried + 1) /\ new.pc = "precommit"
           /\ Whole(revs, tried + 1)
<1>1. PICK base, number, tree : /\ base = Youngest /\ number = tried + 1
                                /\ tree = TxnTree(Tree(Youngest), edit, tried + 1)
  OBVIOUS
<1>2. /\ new.pc = "precommit" /\ new.ask = NoAsk /\ new.number = number /\ new.edit = edit
      /\ new.dated = kind.dated /\ new.base = base /\ new.tree = tree /\ new.rev = None
  BY <1>1 DEF Txn, Idle
<1>3. /\ Len(revs) \in Nat /\ Len(revs) >= 2
      /\ \A i \in 1..Len(revs) : revs[i].tree \in TreesOver(0..tried) /\ Closed(revs[i].tree)
  BY WholeFacts DEF TxnsOK
<1>4. tried \in Nat /\ tried + 1 \in 1..MaxCommits
  BY TreesUpTo DEF TxnsOK, Counted
<1>5. PICK old : old = revs[base + 1].tree
  OBVIOUS
<1>6. /\ base \in 0..(Len(revs) - 1) /\ tree = TxnTree(old, edit, number)
      /\ old \in TreesOver(0..tried) /\ Closed(old)
  <2>1. base + 1 \in 1..Len(revs) /\ base \in 0..(Len(revs) - 1)
    BY <1>1, <1>3 DEF Youngest
  <2> QED
    BY <1>1, <1>3, <1>5, <2>1 DEF Tree
<1>7. \A p \in DOMAIN old : old[p] # number
  <2>1. \A p \in DOMAIN old : old[p] \in 0..tried
    BY <1>6, TreeOver
  <2> QED
    BY <1>1, <1>4, <2>1
<1>8. tree \in Trees
  <2>1. old \in TreesOver(0..MaxCommits)
    BY <1>4, <1>6, TreesUpTo
  <2>2. number \in 0..MaxCommits /\ Directory \in 0..MaxCommits
    BY <1>1, <1>4, TreesUpTo DEF Directory
  <2>3. TxnTree(old, edit, number) \in TreesOver(0..MaxCommits)
    BY <1>6, <2>1, <2>2, TxnTreeTree
  <2> QED
    BY <1>6, <2>3, TreesUpTo
<1>9. kind.dated \in BOOLEAN
  BY BackendAssumption
<1>10. OpenOK(new, revs, tried + 1)
  <2>1. new.number \in 1..(tried + 1)
    BY <1>1, <1>2, <1>4
  <2> QED
    BY <1>2, <1>5, <1>6, <1>7, <2>1 DEF OpenOK
<1>11. TxnOK(new, revs, tried + 1)
  BY <1>2, <1>6, <1>8, <1>9, <1>10 DEF TxnOK
<1> QED
  BY <1>2, <1>4, <1>11, WholeGrows DEF TxnsOK

\* What a commit lands.
LEMMA TxnLands ==
    ASSUME TxnsOK, NEW t \in Threads, job[t].pc = "merge",
           NEW base, base = Tree(job[t].base),
           ~Conflicts(base, job[t].tree, Tree(Youngest)),
           NEW tree, tree = Merged(base, job[t].tree, Tree(Youngest))
    PROVE  /\ job[t].edit \in CommitEdits /\ job[t].tree = TxnTree(base, job[t].edit, job[t].number)
           /\ base \in TreesOver(0..tried) /\ Closed(base)
           /\ Tree(Youngest) \in TreesOver(0..tried)
           /\ \A p \in DOMAIN base : base[p] # job[t].number
           /\ tree \in TreesOver(0..tried) /\ Closed(tree)
<1>1. PICK k, mine, old : k = job[t] /\ mine = k.tree /\ old = Tree(Youngest)
  OBVIOUS
<1>2. OpenOK(k, revs, tried)
  BY <1>1 DEF TxnsOK, TxnOK, Opening
<1>3. /\ Len(revs) \in Nat /\ Len(revs) >= 2
      /\ \A i \in 1..Len(revs) : revs[i].tree \in TreesOver(0..tried) /\ Closed(revs[i].tree)
  BY WholeFacts DEF TxnsOK
<1>4. old \in TreesOver(0..tried) /\ Closed(old)
  <2>1. Youngest + 1 \in 1..Len(revs)
    BY <1>3 DEF Youngest
  <2> QED
    BY <1>1, <1>3, <2>1 DEF Tree
<1>5. /\ k.edit \in CommitEdits /\ k.number \in 1..tried /\ k.base \in 0..(Len(revs) - 1)
      /\ mine = TxnTree(base, k.edit, k.number) /\ \A p \in DOMAIN base : base[p] # k.number
  BY <1>1, <1>2 DEF OpenOK, Tree
<1>6. base \in TreesOver(0..tried) /\ Closed(base)
  <2>1. k.base + 1 \in 1..Len(revs)
    BY <1>3, <1>5
  <2> QED
    BY <1>1, <1>3, <2>1 DEF Tree
<1>7. mine \in TreesOver(0..tried) /\ Closed(mine)
  <2>1. tried \in Nat
    BY TreesUpTo DEF TxnsOK, Counted
  <2>2. k.number \in 0..tried /\ Directory \in 0..tried
    BY <1>5, <2>1 DEF Directory
  <2> QED
    BY <1>5, <1>6, <2>2, TxnTreeTree
<1>8. tree \in TreesOver(0..tried) /\ Closed(tree)
  BY <1>1, <1>4, <1>6, <1>7, MergedTree
<1> QED
  BY <1>1, <1>4, <1>5, <1>6, <1>8

---------------------------------------------------------------------------
LEMMA CommitKeepsTxns ==
    ASSUME IInv, TxnsOK, NEW t \in Threads, Commit(t)
    PROVE  TxnsOK'
<1>1. /\ IsJob(job[t]) /\ TxnOK(job[t], revs, tried) /\ Whole(revs, tried) /\ Counted
      /\ RevsOK /\ DOMAIN job = Threads
      /\ tried \in Nat /\ tried >= 1 /\ MaxCommits \in Nat /\ tried <= MaxCommits
      /\ dead \subseteq 1..tried /\ reads \in 0..MaxReads
  BY TreesUpTo DEF IInv, JobsOK, JobsTyped, TxnsOK, Counted
<1>2. Len(revs) \in Nat
  BY <1>1, WholeFacts
<1>3. Holds(job[t]) \in {0, 1} /\ (job[t].pc \in Opening => Holds(job[t]) = 1)
  BY DEF Holds
<1>4. ASSUME NEW new, Goes(t, new)
      PROVE  job'[t] = new /\ \A s \in Threads \ {t} : job'[s] = job[s]
  BY <1>1, <1>4 DEF Goes
<1>5. CASE BeginsTxn(t)
  <2>1. PICK edit \in CommitEdits, kind \in Kinds : Begins(t, Txn(edit, kind))
    BY <1>5 DEF BeginsTxn
  <2>2. PICK new : new = Txn(edit, kind)
    OBVIOUS
  <2>3. /\ tried < MaxCommits /\ tried' = tried + 1 /\ revs' = revs /\ dead' = dead /\ reads' = reads
    BY <1>5 DEF BeginsTxn
  <2>4. Goes(t, new) /\ job[t].pc = "idle"
    BY <2>1, <2>2 DEF Begins, At
  <2>5. TxnOK(new, revs, tried + 1) /\ new.pc = "precommit" /\ Whole(revs, tried + 1)
    BY <2>2, <2>3, TxnBegins
  <2>6. Holds(new) = 1 /\ Holds(job[t]) = 0
    BY <2>4, <2>5 DEF Holds, Opening
  <2>7. dead \subseteq 1..(tried + 1) /\ tried + 1 <= MaxCommits
    BY <1>1, <2>3
  <2>8. RevsGrow
    BY <1>1, <2>3, RevsSame
  <2>9. job'[t] = new /\ \A s \in Threads \ {t} : job'[s] = job[s]
    BY <1>4, <2>4
  <2>10. Len(revs') + Holds(job'[t]) + tried <= Len(revs) + Holds(job[t]) + tried'
    BY <1>1, <1>2, <2>3, <2>6, <2>9
  <2> QED
    BY <1>1, <2>3, <2>5, <2>7, <2>8, <2>9, <2>10, ThreadKeepsTxns
<1>6. CASE CannotEdit(t)
  <2>1. PICK new : new = Asking(Idle, job[t].ask)
    OBVIOUS
  <2>2. Goes(t, new) /\ job[t].pc = "idle"
    BY <1>6, <2>1 DEF CannotEdit, Replies, Goes, Asking, At
  <2>3. /\ tried < MaxCommits /\ tried' = tried + 1 /\ revs' = revs /\ reads' = reads
        /\ dead' = dead \cup {tried + 1}
    BY <1>6 DEF CannotEdit
  <2>4. dead' \subseteq 1..(tried + 1) /\ tried + 1 <= MaxCommits
    BY <1>1, <2>3
  <2>5. Whole(revs, tried + 1)
    BY <1>1, WholeGrows
  <2>6. TxnOK(new, revs, tried + 1) /\ new.pc = "idle"
    <3>1. TxnOK(new, revs, tried) /\ new.pc = "idle"
      BY <1>1, <2>1, TxnOver
    <3>2. tried + 1 \in Nat /\ tried <= tried + 1 /\ Len(revs) <= Len(revs)
      BY <1>1, <1>2
    <3>3. TxnOK(new, revs, tried + 1)
      BY <1>1, <1>2, <3>1, <3>2, TxnGrows
    <3> QED
      BY <3>1, <3>3
  <2>7. Holds(new) = 0 /\ Holds(job[t]) = 0
    BY <2>2, <2>6 DEF Holds, Opening
  <2>8. RevsGrow
    BY <1>1, <2>3, RevsSame
  <2>9. job'[t] = new /\ \A s \in Threads \ {t} : job'[s] = job[s]
    BY <1>4, <2>2
  <2>10. Len(revs') + Holds(job'[t]) + tried <= Len(revs) + Holds(job[t]) + tried'
    BY <1>1, <1>2, <2>3, <2>7, <2>9
  <2> QED
    BY <1>1, <2>3, <2>4, <2>5, <2>6, <2>8, <2>9, <2>10, ThreadKeepsTxns
<1>7. ASSUME Refused(t), job[t].pc \in Opening
      PROVE  TxnsOK'
  <2>1. /\ Goes(t, Idle) /\ dead' = dead \cup {job[t].number} /\ tried' = tried /\ reads' = reads
        /\ revs' = revs
    BY <1>7 DEF Refused
  <2>2. dead' \subseteq 1..tried
    BY <1>1, <1>7, <2>1 DEF TxnOK, OpenOK
  <2>3. TxnOK(Idle, revs, tried) /\ Holds(Idle) = 0
    BY IdleTxn DEF Holds
  <2>4. RevsGrow
    BY <1>1, <2>1, RevsSame
  <2>5. job'[t] = Idle /\ \A s \in Threads \ {t} : job'[s] = job[s]
    BY <1>4, <2>1
  <2>6. Len(revs') + Holds(job'[t]) + tried <= Len(revs) + Holds(job[t]) + tried'
    BY <1>1, <1>2, <1>3, <2>1, <2>3, <2>5
  <2> QED
    BY <1>1, <2>1, <2>2, <2>3, <2>4, <2>5, <2>6, ThreadKeepsTxns
<1>8. ASSUME UNCHANGED <<revs, tried, dead, reads>>, NEW new, Goes(t, new),
             TxnOK(new, revs, tried), Holds(new) <= Holds(job[t]), Holds(new) \in {0, 1}
      PROVE  TxnsOK'
  <2>1. RevsGrow
    BY <1>1, <1>8, RevsSame
  <2>2. job'[t] = new /\ \A s \in Threads \ {t} : job'[s] = job[s]
    BY <1>4, <1>8
  <2>3. Len(revs') + Holds(job'[t]) + tried <= Len(revs) + Holds(job[t]) + tried'
    BY <1>1, <1>2, <1>3, <1>8, <2>2
  <2> QED
    BY <1>1, <1>8, <2>1, <2>2, <2>3, ThreadKeepsTxns
<1>9. CASE PreCommitOff(t) \/ svn_pre_commit(t) \/ ExtrasUnreadable(t) \/ NotImportable(t)
  <2>1. job[t].pc = "precommit" /\ UNCHANGED <<revs, tried, dead, reads>>
    BY <1>9 DEF PreCommitOff, svn_pre_commit, ExtrasUnreadable, NotImportable, At, Passes, repo
  <2>2. PICK verdict : Goes(t, [job[t] EXCEPT !.pc = "merge", !.verdict = verdict])
    BY <1>9 DEF PreCommitOff, svn_pre_commit, ExtrasUnreadable, NotImportable, Passes
  <2>3. PICK new : new = [job[t] EXCEPT !.pc = "merge", !.verdict = verdict]
    OBVIOUS
  <2>4. /\ new.pc = "merge" /\ new.ask = job[t].ask /\ new.tree = job[t].tree
        /\ new.dated = job[t].dated /\ new.base = job[t].base /\ new.rev = job[t].rev
        /\ new.edit = job[t].edit /\ new.number = job[t].number
    BY <1>1, <2>3 DEF IsJob, JobsOf
  <2>5. TxnOK(new, revs, tried)
    <3>1. OpenOK(job[t], revs, tried)
      BY <1>1, <2>1 DEF TxnOK, Opening
    <3>2. OpenOK(new, revs, tried)
      BY <2>4, <3>1 DEF OpenOK
    <3> QED
      BY <1>1, <2>4, <3>2 DEF TxnOK
  <2>6. Holds(new) = 1 /\ Holds(job[t]) = 1
    BY <2>1, <2>4 DEF Holds, Opening
  <2> QED
    BY <1>8, <2>1, <2>2, <2>3, <2>5, <2>6
<1>10. CASE Lands(t)
  <2>1. PICK base, tree, rev, new :
          /\ base = Tree(job[t].base)
          /\ tree = Merged(base, job[t].tree, Tree(Youngest)) /\ rev = NewRevision
          /\ new = [job[t] EXCEPT !.pc = "postcommit", !.rev = rev]
    OBVIOUS
  <2>2. /\ job[t].pc = "merge" /\ ~Conflicts(base, job[t].tree, Tree(Youngest))
        /\ revs' = Append(revs, [tree |-> tree, date |-> Server])
        /\ Goes(t, new) /\ tried' = tried /\ dead' = dead /\ reads' = reads
    BY <1>10, <2>1 DEF Lands, At
  <2>3. tree \in TreesOver(0..tried) /\ Closed(tree)
    BY <2>1, <2>2, TxnLands
  <2>4. Whole(revs', tried) /\ Len(revs') = Len(revs) + 1
    BY <1>1, <2>2, <2>3, WholeAdded
  <2>5. RevsGrow
    BY <1>1, <2>2, RevsAdded
  <2>6. /\ new.pc = "postcommit" /\ new.ask = job[t].ask /\ new.tree = job[t].tree
        /\ new.dated = job[t].dated /\ new.base = job[t].base /\ new.rev = rev
    BY <1>1, <2>1 DEF IsJob, JobsOf
  <2>7. TxnOK(new, revs', tried)
    <3>1. rev \in 0..(Len(revs') - 1) /\ 0..(Len(revs) - 1) \subseteq 0..(Len(revs') - 1)
      BY <1>2, <2>1, <2>4 DEF NewRevision, Youngest
    <3> QED
      BY <1>1, <2>6, <3>1 DEF TxnOK, Opening
  <2>8. Holds(new) = 0 /\ Holds(job[t]) = 1
    BY <2>2, <2>6 DEF Holds, Opening
  <2>9. job'[t] = new /\ \A s \in Threads \ {t} : job'[s] = job[s]
    BY <1>4, <2>2
  <2>10. Len(revs') + Holds(job'[t]) + tried <= Len(revs) + Holds(job[t]) + tried'
    BY <1>1, <1>2, <2>2, <2>4, <2>8, <2>9
  <2> QED
    BY <1>1, <2>2, <2>4, <2>5, <2>7, <2>9, <2>10, ThreadKeepsTxns
<1>11. CASE PostCommit(t) \/ PostCommitFails(t)
  <2>1. job[t].pc = "postcommit" /\ UNCHANGED <<revs, tried, dead, reads>>
    BY <1>11 DEF PostCommit, PostCommitFails, At, repo
  <2>2. PICK new : /\ new = Moved(job[t], "date") \/ new = Asking(Idle, job[t].ask)
                   /\ Goes(t, new)
    BY <1>11 DEF PostCommit, PostCommitFails, Replies, Goes, Moved, Asking
  <2>3. TxnOK(new, revs, tried) /\ Holds(new) = 0
    <3>1. CASE new = Moved(job[t], "date")
      <4>1. /\ new.pc = "date" /\ new.ask = job[t].ask /\ new.tree = job[t].tree
            /\ new.dated = job[t].dated /\ new.base = job[t].base /\ new.rev = job[t].rev
        BY <1>1, <3>1 DEF IsJob, JobsOf, Moved
      <4> QED
        BY <1>1, <4>1 DEF TxnOK, Opening, Holds
    <3>2. CASE new = Asking(Idle, job[t].ask)
      <4>1. TxnOK(new, revs, tried) /\ new.pc = "idle"
        BY <1>1, <3>2, TxnOver
      <4> QED
        BY <4>1 DEF Holds, Opening
    <3> QED
      BY <2>2, <3>1, <3>2
  <2>4. Holds(new) <= Holds(job[t]) /\ Holds(new) \in {0, 1}
    BY <1>3, <2>3
  <2>5. Goes(t, new) /\ TxnOK(new, revs, tried)
    BY <2>2, <2>3
  <2> QED
    BY <1>8, <2>1, <2>4, <2>5
<1>12. CASE ChangesDate(t)
  <2>1. PICK new, n : new = Asking(Idle, job[t].ask) /\ n = job[t].rev + 1
    OBVIOUS
  <2>2. /\ Goes(t, new) /\ revs' = [revs EXCEPT ![n].date = Caller]
        /\ tried' = tried /\ dead' = dead /\ reads' = reads
    BY <1>12, <2>1 DEF ChangesDate, Replies, Goes, Asking
  <2>3. Whole(revs', tried) /\ Len(revs') = Len(revs)
    <3>1. PICK s : s = [revs EXCEPT ![n].date = Caller]
      OBVIOUS
    <3>2. Whole(revs, tried)
      BY <1>1
    <3>3. Whole(s, tried) /\ Len(s) = Len(revs)
      BY <3>1, <3>2, WholeDated
    <3> QED
      BY <2>2, <3>1, <3>3
  <2>4. RevsGrow
    BY <1>1, <2>2, RevsDated
  <2>5. TxnOK(new, revs', tried) /\ Holds(new) = 0
    <3>1. TxnOK(new, revs, tried) /\ new.pc = "idle"
      BY <1>1, <2>1, TxnOver
    <3> QED
      BY <2>3, <3>1 DEF TxnOK, Holds, Opening
  <2>6. job'[t] = new /\ \A s \in Threads \ {t} : job'[s] = job[s]
    BY <1>4, <2>2
  <2>7. Len(revs') + Holds(job'[t]) + tried <= Len(revs) + Holds(job[t]) + tried'
    BY <1>1, <1>2, <1>3, <2>2, <2>3, <2>5, <2>6
  <2> QED
    BY <1>1, <2>2, <2>3, <2>4, <2>5, <2>6, <2>7, ThreadKeepsTxns
<1>13. CASE PreCommitBroken(t) \/ PreCommitRefuses(t) \/ Conflicted(t)
  <2>1. Refused(t) /\ job[t].pc \in Opening
    BY <1>13 DEF PreCommitBroken, PreCommitRefuses, Conflicted, At, Opening
  <2> QED
    BY <1>7, <2>1
<1> QED
  BY <1>5, <1>6, <1>9, <1>10, <1>11, <1>12, <1>13 DEF Commit

LEMMA ReadKeepsTxns ==
    ASSUME IInv, IInv', TxnsOK, NEW t \in Threads, Read(t)
    PROVE  TxnsOK'
<1>1. /\ IsJob(job[t]) /\ TxnOK(job[t], revs, tried) /\ Whole(revs, tried) /\ Counted
      /\ RevsOK /\ DOMAIN job = Threads
      /\ tried \in Nat /\ MaxCommits \in Nat /\ tried <= MaxCommits
      /\ dead \subseteq 1..tried /\ reads \in 0..MaxReads /\ MaxReads \in Nat
  BY TreesUpTo, BackendAssumption DEF IInv, JobsOK, JobsTyped, TxnsOK, Counted
<1>2. Len(revs) \in Nat
  BY <1>1, WholeFacts
<1>3. Holds(job[t]) \in {0, 1}
  BY DEF Holds
<1>4. ASSUME UNCHANGED <<revs, tried, dead>>, reads' \in 0..MaxReads, NEW new, Goes(t, new),
             TxnOK(new, revs, tried), new.pc \notin Opening
      PROVE  TxnsOK'
  <2>1. RevsGrow
    BY <1>1, <1>4, RevsSame
  <2>2. job'[t] = new /\ \A s \in Threads \ {t} : job'[s] = job[s]
    BY <1>1, <1>4 DEF Goes
  <2>3. Holds(new) = 0
    BY <1>4 DEF Holds
  <2>4. Len(revs') + Holds(job'[t]) + tried <= Len(revs) + Holds(job[t]) + tried'
    BY <1>1, <1>2, <1>3, <1>4, <2>2, <2>3
  <2> QED
    BY <1>1, <1>4, <2>1, <2>2, <2>4, ThreadKeepsTxns
<1>5. CASE CallsRead(t)
  <2>1. PICK ask \in Asks : Begins(t, [Idle EXCEPT !.pc = "lookup", !.ask = ask])
    BY <1>5 DEF CallsRead
  <2>2. PICK new : new = [Idle EXCEPT !.pc = "lookup", !.ask = ask]
    OBVIOUS
  <2>3. Goes(t, new) /\ UNCHANGED <<revs, tried, dead>>
    BY <1>5, <2>1, <2>2 DEF CallsRead, Begins, repo
  <2>4. reads' \in 0..MaxReads
    <3>1. reads < MaxReads /\ reads' = reads + 1
      BY <1>5 DEF CallsRead
    <3> QED
      BY <1>1, <3>1
  <2>5. /\ new.pc = "lookup" /\ new.ask = ask /\ new.tree = Idle.tree /\ new.dated = FALSE
        /\ new.base = None /\ new.rev = None
    BY <2>2 DEF Idle
  <2>6. TxnOK(new, revs, tried) /\ new.pc \notin Opening
    BY <2>5, IdleTxn DEF TxnOK, Opening
  <2> QED
    BY <1>4, <2>3, <2>4, <2>6
<1>6. CASE ReadHits(t) \/ ReadMisses(t) \/ ReadUncached(t) \/ ReadComputes(t) \/ ReadStores(t)
  <2>1. UNCHANGED <<revs, tried, dead, reads>>
    BY <1>6 DEF ReadHits, ReadMisses, ReadUncached, ReadComputes, ReadStores, KeepsAll, repo
  <2>2. PICK new : /\ Goes(t, new)
                   /\ \/ new = Asking(Idle, job[t].ask)
                      \/ \E pc \in Reading : new = Moved(job[t], pc)
    BY <1>6 DEF ReadHits, ReadMisses, ReadUncached, ReadComputes, ReadStores, Replies, Goes,
       Asking, Moved, Reading
  <2>3. TxnOK(new, revs, tried) /\ new.pc \notin Opening
    <3>1. CASE new = Asking(Idle, job[t].ask)
      BY <1>1, <3>1, TxnOver DEF Opening
    <3>2. CASE \E pc \in Reading : new = Moved(job[t], pc)
      <4>1. PICK pc \in Reading : new = Moved(job[t], pc)
        BY <3>2
      <4>2. /\ new.pc = pc /\ new.ask = job[t].ask /\ new.tree = job[t].tree
            /\ new.dated = job[t].dated /\ new.base = job[t].base /\ new.rev = job[t].rev
        BY <1>1, <4>1 DEF IsJob, JobsOf, Moved
      <4> QED
        BY <1>1, <4>2 DEF TxnOK, Opening, Reading
    <3> QED
      BY <2>2, <3>1, <3>2
  <2> QED
    BY <1>1, <1>4, <2>1, <2>2, <2>3
<1> QED
  BY <1>5, <1>6 DEF Read

LEMMA KilledKeepsTxns ==
    ASSUME IInv, TxnsOK, NEW t \in Threads, Killed(t)
    PROVE  TxnsOK'
<1>1. /\ TxnOK(job[t], revs, tried) /\ Whole(revs, tried) /\ Counted /\ RevsOK
      /\ DOMAIN job = Threads /\ tried \in Nat /\ MaxCommits \in Nat /\ tried <= MaxCommits
      /\ dead \subseteq 1..tried /\ reads \in 0..MaxReads
  BY TreesUpTo DEF IInv, JobsOK, JobsTyped, TxnsOK, Counted
<1>2. /\ Goes(t, Idle) /\ UNCHANGED <<revs, tried, reads>>
      /\ dead' = IF job[t].pc \in Opening THEN dead \cup {job[t].number} ELSE dead
  BY DEF Killed, Opening
<1>3. dead' \subseteq 1..tried
  BY <1>1, <1>2 DEF TxnOK, OpenOK
<1>4. TxnOK(Idle, revs, tried) /\ Holds(Idle) = 0 /\ Holds(job[t]) \in {0, 1} /\ Len(revs) \in Nat
  BY <1>1, IdleTxn, WholeFacts DEF Holds
<1>5. RevsGrow
  BY <1>1, <1>2, RevsSame
<1>6. job'[t] = Idle /\ \A s \in Threads \ {t} : job'[s] = job[s]
  BY <1>1, <1>2 DEF Goes
<1>7. Len(revs') + Holds(job'[t]) + tried <= Len(revs) + Holds(job[t]) + tried'
  BY <1>1, <1>2, <1>4, <1>6
<1> QED
  BY <1>1, <1>2, <1>3, <1>4, <1>5, <1>6, <1>7, ThreadKeepsTxns

LEMMA AdministratesKeepsTxns ==
    ASSUME IInv, TxnsOK, Administrates
    PROVE  TxnsOK'
<1>1. /\ UNCHANGED <<revs, tried, dead, reads>>
      /\ job' = [t \in Threads |-> [job[t] EXCEPT !.guarded = @ /\ "pre" \in ours']]
  BY DEF Administrates, repo
<1>2. ASSUME NEW t \in Threads
      PROVE  /\ TxnOK(job[t], revs, tried) => TxnOK(job'[t], revs, tried)
             /\ job'[t].pc = job[t].pc
  <2>1. PICK guarded : guarded = (job[t].guarded /\ "pre" \in ours')
    OBVIOUS
  <2>2. PICK new : new = [job[t] EXCEPT !.guarded = guarded]
    OBVIOUS
  <2>3. job'[t] = new
    BY <1>1, <2>1, <2>2
  <2>4. IsJob(job[t])
    BY DEF IInv, JobsOK, JobsTyped
  <2>5. /\ new.pc = job[t].pc /\ new.ask = job[t].ask /\ new.tree = job[t].tree
        /\ new.dated = job[t].dated /\ new.base = job[t].base /\ new.rev = job[t].rev
        /\ new.edit = job[t].edit /\ new.number = job[t].number
    BY <2>2, <2>4 DEF IsJob, JobsOf
  <2>6. OpenOK(job[t], revs, tried) => OpenOK(new, revs, tried)
    BY <2>5 DEF OpenOK
  <2> QED
    BY <2>3, <2>5, <2>6 DEF TxnOK
<1> QED
  BY <1>1, <1>2, OthersKeepTxns

LEMMA TxnsStep ==
    ASSUME IInv, IInv', TxnsOK, [Next]_vars
    PROVE  TxnsOK'
<1>1. CASE \E t \in Threads : Commit(t) \/ Read(t) \/ Killed(t)
  BY <1>1, CommitKeepsTxns, ReadKeepsTxns, KilledKeepsTxns
<1>2. CASE Administrates
  BY <1>2, AdministratesKeepsTxns
<1>3. CASE CacheForgets \/ (\E i \in Installers : InstallsHooks(i)) \/ UNCHANGED vars
  <2>1. UNCHANGED <<revs, tried, dead, reads>> /\ job' = job
    BY <1>3 DEF CacheForgets, InstallsHooks, vars, repo
  <2> QED
    BY <2>1, OthersKeepTxns
<1> QED
  BY <1>1, <1>2, <1>3 DEF Next

LEMMA TxnsInvariant == Spec => [](IInv /\ TxnsOK)
<1>1. Init => IInv /\ TxnsOK
  BY Start, TxnsStart
<1>2. IInv /\ TxnsOK /\ [Next]_vars => (IInv /\ TxnsOK)'
  BY Step, TxnsStep
<1> QED
  BY <1>1, <1>2, PTL DEF Spec

(* Whatever runs, the revisions are trees of files and directories, no     *)
(* more of them than there were commits, each transaction holds a tree and *)
(* starts from a revision that is there, and the cache holds answers to    *)
(* questions that can be asked.                                            *)
THEOREM TypeCorrect == Spec => []TypeOK
<1>1. IInv /\ TxnsOK => TypeOK
  <2> SUFFICES ASSUME IInv, TxnsOK PROVE TypeOK
    OBVIOUS
  <2>1. HooksTypeOK /\ DOMAIN cache \subseteq Keys /\ DOMAIN answer = Threads
    BY DEF IInv, HooksOK, JobsOK, JobsTyped, CacheOK, Keys
  <2>2. /\ Whole(revs, tried) /\ Len(revs) \in Nat /\ Len(revs) >= 2
        /\ tried \in Nat /\ tried \in 1..MaxCommits /\ dead \subseteq 1..tried
        /\ reads \in 0..MaxReads
    BY WholeFacts, TreesUpTo DEF TxnsOK, Counted
  <2>3. Len(revs) <= tried + 1
    <3>1. Cardinality(Opened) \in Nat /\ Len(revs) + Cardinality(Opened) <= tried + 1
      BY FS_CardinalityType DEF TxnsOK, Counted
    <3> QED
      BY <2>2, <3>1
  <2>4. revs \in Seq([tree : Trees, date : {Server, Caller}])
    <3>1. RevSet(TreesOver(0..tried)) \subseteq RevSet(Trees)
      BY <2>2, TreesUpTo DEF RevSet
    <3>2. revs \in Seq(RevSet(Trees))
      BY <2>2, <3>1, SeqMonotonic DEF Whole
    <3> QED
      BY <3>2 DEF RevSet
  <2>5. RepoTypeOK
    BY <2>2, <2>3, <2>4 DEF RepoTypeOK
  <2>6. ASSUME NEW t \in Threads
        PROVE  /\ job[t].pc \in PCs /\ job[t].ask \in Asks \cup {NoAsk} /\ job[t].tree \in Trees
               /\ job[t].base \in (0..Youngest) \cup {None}
               /\ job[t].rev \in (0..Youngest) \cup {None}
               /\ {job[t].dated, job[t].readonly, job[t].guarded} \subseteq BOOLEAN
               /\ job[t].extras \in Carried /\ job[t].verdict \in Verdicts
    <3>1. TxnOK(job[t], revs, tried) /\ IsJob(job[t])
      BY DEF TxnsOK, IInv, JobsOK, JobsTyped
    <3>2. /\ job[t].pc \in PCs /\ job[t].extras \in Carried /\ job[t].readonly \in BOOLEAN
          /\ job[t].guarded \in BOOLEAN /\ job[t].verdict \in Verdicts
      BY <3>1 DEF IsJob, JobsOf
    <3> QED
      BY <3>1, <3>2 DEF TxnOK, Youngest
  <2> QED
    BY <2>1, <2>2, <2>5, <2>6 DEF TypeOK, PCs, Committing, Reading, Carried, Verdicts
<1> QED
  BY <1>1, TxnsInvariant, PTL

\* Only Lands goes on to the post-commit hook.
LEMMA OnlyLands ==
    ASSUME IInv, Next, NEW t \in Threads, job[t].pc = "merge", job'[t].pc = "postcommit"
    PROVE  Lands(t)
<1>1. IsJob(job[t]) /\ DOMAIN job = Threads
  BY DEF IInv, JobsOK, JobsTyped
<1>2. ASSUME NEW s \in Threads, NEW new, Goes(s, new)
      PROVE  s = t /\ new.pc = "postcommit"
  BY <1>1, <1>2 DEF Goes
<1>3. ASSUME job' = job
      PROVE  FALSE
  BY <1>3
<1>4. Idle.pc = "idle" /\ \A s \in Threads : Asking(Idle, job[s].ask).pc = "idle"
  BY DEF Idle, Asking
<1>5. ASSUME NEW s \in Threads, NEW result, Replies(s, result)
      PROVE  FALSE
  BY <1>2, <1>4, <1>5 DEF Replies, Goes, Asking
<1>6. ASSUME NEW s \in Threads, Refused(s)
      PROVE  FALSE
  BY <1>2, <1>4, <1>6 DEF Refused
<1>7. ASSUME NEW s \in Threads, Commit(s)
      PROVE  Lands(t)
  <2>1. CASE BeginsTxn(s)
    <3>1. PICK edit, kind : Goes(s, Txn(edit, kind))
      BY <2>1 DEF BeginsTxn, Begins
    <3>2. Txn(edit, kind).pc = "precommit"
      BY DEF Txn, Idle
    <3> QED
      BY <1>2, <3>1, <3>2
  <2>2. CASE CannotEdit(s)
    BY <1>5, <2>2 DEF CannotEdit
  <2>3. CASE PreCommitOff(s) \/ svn_pre_commit(s) \/ ExtrasUnreadable(s) \/ NotImportable(s)
    <3>1. PICK verdict : Goes(s, [job[s] EXCEPT !.pc = "merge", !.verdict = verdict])
      BY <2>3 DEF PreCommitOff, svn_pre_commit, ExtrasUnreadable, NotImportable, Passes
    <3>2. IsJob(job[s])
      BY DEF IInv, JobsOK, JobsTyped
    <3>3. [job[s] EXCEPT !.pc = "merge", !.verdict = verdict].pc = "merge"
      BY <3>2 DEF IsJob, JobsOf
    <3> QED
      BY <1>2, <3>1, <3>3
  <2>4. CASE PreCommitBroken(s) \/ PreCommitRefuses(s) \/ Conflicted(s)
    BY <1>6, <2>4 DEF PreCommitBroken, PreCommitRefuses, Conflicted
  <2>5. CASE Lands(s)
    <3>1. PICK new : Goes(s, new)
      BY <2>5 DEF Lands
    <3> QED
      BY <1>2, <2>5, <3>1
  <2>6. CASE PostCommit(s) \/ PostCommitFails(s) \/ ChangesDate(s)
    <3>1. job[s].pc # "merge"
      BY <2>6 DEF PostCommit, PostCommitFails, ChangesDate, At
    <3>2. PICK new : Goes(s, new)
      BY <2>6 DEF PostCommit, PostCommitFails, ChangesDate, Replies, Goes
    <3> QED
      BY <1>2, <3>1, <3>2
  <2> QED
    BY <1>7, <2>1, <2>2, <2>3, <2>4, <2>5, <2>6 DEF Commit
<1>8. ASSUME NEW s \in Threads, Read(s)
      PROVE  FALSE
  <2>1. job[s].pc # "merge"
    BY <1>8 DEF Read, CallsRead, ReadHits, ReadMisses, ReadUncached, ReadComputes, ReadStores,
                Begins, At
  <2>2. PICK new : Goes(s, new)
    BY <1>8 DEF Read, CallsRead, ReadHits, ReadMisses, ReadUncached, ReadComputes, ReadStores,
                Begins, Replies, Goes
  <2> QED
    BY <1>2, <2>1, <2>2
<1>9. ASSUME NEW s \in Threads, Killed(s)
      PROVE  FALSE
  BY <1>2, <1>4, <1>9 DEF Killed
<1>10. ASSUME NEW i \in Installers, InstallsHooks(i)
       PROVE  FALSE
  BY <1>3, <1>10 DEF InstallsHooks
<1>11. ASSUME Administrates
       PROVE  FALSE
  BY <1>1, <1>11 DEF Administrates, IsJob, JobsOf
<1>12. ASSUME CacheForgets
       PROVE  FALSE
  BY <1>3, <1>12 DEF CacheForgets
<1> QED
  BY <1>7, <1>8, <1>9, <1>10, <1>11, <1>12 DEF Next

(* Whatever is committed meanwhile, by any number of requests and clients, *)
(* a commit lands what it was asked for on top of the youngest revision,   *)
(* and only where nobody else has changed anything since it began          *)
(* (SvnRemote.commit and TxnNodeProcessor, svn_fs's merge).                *)
THEOREM Landed == Spec => LandsAsAsked
<1>1. ASSUME IInv, TxnsOK, Next, NEW t \in Threads, job[t].pc = "merge", job'[t].pc = "postcommit"
      PROVE  /\ Len(revs') = Len(revs) + 1
             /\ AsAsked(Tree(job[t].base), Tree(Youngest), revs'[Len(revs')].tree,
                        job[t].edit, job[t].number)
  <2>1. PICK base, old, tree : /\ base = Tree(job[t].base) /\ old = Tree(Youngest)
                               /\ tree = Merged(base, job[t].tree, old)
    OBVIOUS
  <2>2. /\ ~Conflicts(base, job[t].tree, old)
        /\ revs' = Append(revs, [tree |-> tree, date |-> Server])
    <3>1. Lands(t)
      BY <1>1, OnlyLands
    <3> QED
      BY <2>1, <3>1 DEF Lands
  <2>3. /\ job[t].edit \in CommitEdits /\ job[t].tree = TxnTree(base, job[t].edit, job[t].number)
        /\ base \in TreesOver(0..tried) /\ Closed(base) /\ old \in TreesOver(0..tried)
        /\ tree \in TreesOver(0..tried) /\ Closed(tree)
        /\ \A p \in DOMAIN base : base[p] # job[t].number
    BY <1>1, <2>1, <2>2, TxnLands
  <2>4. PICK revisions : revisions = Append(revs, [tree |-> tree, date |-> Server])
    OBVIOUS
  <2>5. Whole(revs, tried)
    BY <1>1 DEF TxnsOK
  <2>6. Len(revisions) = Len(revs) + 1 /\ revisions[Len(revisions)].tree = tree
    BY <2>3, <2>4, <2>5, WholeAdded
  <2>7. AsAsked(base, old, tree, job[t].edit, job[t].number)
    BY <2>1, <2>2, <2>3, MergedAsAsked
  <2> QED
    BY <2>1, <2>2, <2>4, <2>6, <2>7
<1>2. IInv /\ TxnsOK /\ [Next]_vars =>
        [\A t \in Threads :
            At(t, "merge") /\ job'[t].pc = "postcommit" =>
                /\ Len(revs') = Len(revs) + 1
                /\ AsAsked(Tree(job[t].base), Tree(Youngest), revs'[Len(revs')].tree,
                           job[t].edit, job[t].number)]_vars
  BY <1>1 DEF At
<1> QED
  BY <1>2, TxnsInvariant, PTL DEF Spec, LandsAsAsked
================================================================================
