------------------------------ MODULE HookInstall ------------------------------
(***************************************************************************)
(* hook_utils: install_git_hooks and install_svn_hooks put the scripts of  *)
(* RhodeCode in the hooks directory of a repository, each over its own or  *)
(* a missing file, or over any with force.  The file is truncated, written *)
(* and made executable in place, while the repository is in use and others *)
(* may be installing; a system administrator keeps hooks of his own there. *)
(***************************************************************************)
EXTENDS Integers

CONSTANTS
    FirstFiles,   \* bound: what the hook files may be at first
    Installers,   \* the requests that may install hooks at once
    MaxInstalls,  \* bound: calls of install_hooks
    MaxUserActs,  \* bound: hooks the administrator puts there or removes
    MaxFaults     \* bound: installers killed, files that cannot be written

Hooks == {"pre", "post"}
NoHook == "none"
Contents == {"absent", "empty", "script", "other"}

ASSUME HooksAssumption == FirstFiles \subseteq [Hooks -> {"absent", "other", "script"}]

VARIABLES
    file,      \* the content of each hook file: "script" is RhodeCode's
    exec,      \* the hook files that are executable
    directory, \* the hooks directory exists
    install,   \* what each installer is doing
    settled,   \* history: other hooks that were there when nobody installed and
               \* that no forced install was asked for since
    spoiled,   \* history: files whose installer was killed or could not write
    ours,      \* history: hooks where RhodeCode's script has been ready, and
               \* the administrator has not touched them since
    installs, userActs, faults

hookvars ==
    <<file, exec, directory, install, settled, spoiled, ours, installs, userActs, faults>>

Rest == [pc |-> "rest", hook |-> NoHook, force |-> FALSE, held |-> FALSE]

\* svn and git put their own directory there; it may be gone, and hooks may be
\* those of an administrator.
HooksInit ==
    /\ directory \in BOOLEAN
    /\ file \in FirstFiles
    /\ directory \/ file = [h \in Hooks |-> "absent"]
    /\ exec = {h \in Hooks : file[h] # "absent"}
    /\ install = [i \in Installers |-> Rest]
    /\ settled = {h \in Hooks : file[h] = "other"}
    /\ spoiled = {}
    /\ ours = {h \in Hooks : file[h] = "script"}
    /\ installs = 0 /\ userActs = 0 /\ faults = 0

Installing == {i \in Installers : install[i].pc # "rest"}

\* check_rhodecode_hook: no file, or one with a version in it.
Recognised_AnyFile(h) == TRUE
Recognised(h) == file[h] \in {"absent", "script"}

Turns(i, new) == install' = [install EXCEPT ![i] = new]
Faults == faults < MaxFaults /\ faults' = faults + 1

\* The administrator's hooks that are safe when the installers left are these.
SettledIn(others) == IF others = {} THEN {h \in Hooks : file[h] = "other"} ELSE settled

After(h) == IF h = "pre" THEN [pc |-> "check", hook |-> "post"] ELSE [pc |-> "rest", hook |-> NoHook]

\* The next of the two hooks, or the end.
GoesOn(i) ==
    LET next == After(install[i].hook) IN
    /\ Turns(i, IF next.pc = "rest" THEN Rest
                ELSE [install[i] EXCEPT !.pc = next.pc, !.hook = next.hook, !.held = FALSE])
    /\ settled' = IF next.pc = "rest" THEN SettledIn(Installing \ {i}) ELSE settled

Raises(i) ==
    /\ Turns(i, Rest)
    /\ settled' = SettledIn(Installing \ {i})

---------------------------------------------------------------------------
CallsInstall(i) ==
    /\ install[i].pc = "rest" /\ installs < MaxInstalls
    /\ installs' = installs + 1
    /\ \E force \in BOOLEAN :
          /\ Turns(i, [Rest EXCEPT !.pc = IF directory THEN "check" ELSE "mkdir",
                                   !.hook = "pre", !.force = force])
          /\ settled' = IF force THEN {} ELSE settled
    /\ UNCHANGED <<file, exec, directory, spoiled, ours, userActs, faults>>

\* makedirs raises when another installer was faster.
MakesDirectory(i) ==
    /\ install[i].pc = "mkdir"
    /\ IF directory THEN Raises(i)
       ELSE Turns(i, [install[i] EXCEPT !.pc = "check"]) /\ UNCHANGED settled
    /\ directory' = TRUE
    /\ UNCHANGED <<file, exec, spoiled, ours, installs, userActs, faults>>

ChecksHook(i) ==
    /\ install[i].pc = "check"
    /\ IF Recognised(install[i].hook) \/ install[i].force
       THEN Turns(i, [install[i] EXCEPT !.pc = "open"]) /\ UNCHANGED settled
       ELSE GoesOn(i)
    /\ UNCHANGED <<file, exec, directory, spoiled, ours, installs, userActs, faults>>

\* open(.., 'wb') makes the file or empties it; a new one is not executable.
OpensHook_Unlinks(i) ==
    /\ install[i].pc = "open"
    /\ file' = [file EXCEPT ![install[i].hook] = "absent"]
    /\ exec' = exec \ {install[i].hook}
    /\ Turns(i, [install[i] EXCEPT !.pc = "write", !.held = TRUE])
    /\ UNCHANGED <<directory, settled, spoiled, ours, installs, userActs, faults>>

OpensHook(i) ==
    /\ install[i].pc = "open"
    /\ file' = [file EXCEPT ![install[i].hook] = "empty"]
    /\ Turns(i, [install[i] EXCEPT !.pc = "write", !.held = TRUE])
    /\ UNCHANGED <<exec, directory, settled, spoiled, ours, installs, userActs, faults>>

\* Whatever it cannot open it skips.
CannotOpen(i) ==
    /\ install[i].pc = "open" /\ Faults
    /\ GoesOn(i)
    /\ UNCHANGED <<file, exec, directory, spoiled, ours, installs, userActs>>

WritesHook(i) ==
    LET h == install[i].hook IN
    /\ install[i].pc = "write"
    /\ file' = IF install[i].held THEN [file EXCEPT ![h] = "script"] ELSE file
    /\ Turns(i, [install[i] EXCEPT !.pc = "chmod"])
    /\ UNCHANGED <<exec, directory, settled, spoiled, ours, installs, userActs, faults>>

\* A full disk: the file stays as open() has left it.
CannotWrite(i) ==
    /\ install[i].pc = "write" /\ Faults
    /\ spoiled' = spoiled \cup {install[i].hook}
    /\ GoesOn(i)
    /\ UNCHANGED <<file, exec, directory, ours, installs, userActs>>

\* chmod of a file that is gone raises, and what it raises is not caught.
MakesExecutable(i) ==
    LET h == install[i].hook IN
    /\ install[i].pc = "chmod"
    /\ IF file[h] = "absent" THEN Raises(i) /\ UNCHANGED <<exec, ours>>
       ELSE /\ exec' = exec \cup {h}
            /\ ours' = IF file[h] = "script" THEN ours \cup {h} ELSE ours
            /\ GoesOn(i)
    /\ UNCHANGED <<file, directory, spoiled, installs, userActs, faults>>

InstallerKilled(i) ==
    /\ install[i].pc # "rest" /\ Faults
    /\ spoiled' = IF install[i].pc \in {"write", "chmod"} THEN spoiled \cup {install[i].hook}
                  ELSE spoiled
    /\ Raises(i)
    /\ UNCHANGED <<file, exec, directory, ours, installs, userActs>>

InstallStep(i) ==
    \/ CallsInstall(i) \/ MakesDirectory(i) \/ ChecksHook(i) \/ OpensHook(i) \/ CannotOpen(i)
    \/ WritesHook(i) \/ CannotWrite(i) \/ MakesExecutable(i)

---------------------------------------------------------------------------
\* The administrator moves a hook of his own there, or removes what is there:
\* an installer that has the file open writes to one that has no name any more.
Loses(h) ==
    install' = [i \in Installers |->
                   IF install[i].hook = h THEN [install[i] EXCEPT !.held = FALSE] ELSE install[i]]

UserActs(h, content) ==
    /\ userActs < MaxUserActs /\ userActs' = userActs + 1
    /\ directory
    /\ file' = [file EXCEPT ![h] = content]
    /\ exec' = IF content = "absent" THEN exec \ {h} ELSE exec \cup {h}
    /\ settled' = IF content = "other" /\ Installing = {} THEN settled \cup {h} ELSE settled \ {h}
    /\ spoiled' = spoiled \ {h}
    /\ ours' = ours \ {h}
    /\ Loses(h)
    /\ UNCHANGED <<directory, installs, faults>>

UserStep == \E h \in Hooks : UserActs(h, "other") \/ UserActs(h, "absent")

---------------------------------------------------------------------------
HooksTypeOK ==
    /\ file \in [Hooks -> Contents]
    /\ exec \subseteq Hooks
    /\ directory \in BOOLEAN
    /\ install \in [Installers -> [pc : {"rest", "mkdir", "check", "open", "write", "chmod"},
                                   hook : Hooks \cup {NoHook}, force : BOOLEAN, held : BOOLEAN]]
    /\ settled \subseteq Hooks /\ spoiled \subseteq Hooks /\ ours \subseteq Hooks
    /\ installs \in 0..MaxInstalls /\ userActs \in 0..MaxUserActs /\ faults \in 0..MaxFaults

(* Installing leaves a repository in order, however many install at once:  *)
(* a hook of the administrator that was there before they came is still    *)
(* there unless one of them was forced (check_rhodecode_hook), and when    *)
(* they are done each hook is somebody else's, missing, or RhodeCode's and *)
(* ready to run, unless its installer was killed or could not write        *)
(* (hook_utils/__init__.py:65-83).                                         *)
HooksKept ==
    /\ \A h \in settled : file[h] = "other"
    /\ Installing = {} =>
          \A h \in Hooks \ spoiled :
              /\ file[h] # "empty"
              /\ file[h] = "script" => h \in exec
================================================================================
