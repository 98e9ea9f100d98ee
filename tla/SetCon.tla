------------------------------- MODULE SetCon -------------------------------
(***************************************************************************)
(* SetCon: shows, replaces, extends or builds a console variable           *)
(* (Application/SetCon/SetCon.c).                                          *)
(*                                                                         *)
(* A device path is the sequence of its instances; Null is no path.        *)
(***************************************************************************)
EXTENDS ShellTool

CONSTANTS
  VarNames,      \* the variables there may be
  Beginning,     \* the names that begin with a given one, as StrnCmp finds
  TextPath,      \* what ConvertTextToDevicePath makes of a text
  HandlePath,    \* the path of a handle or handle index, or Null
  ConsolePaths   \* the paths of the console handles, in order

ASSUME SetConAssumption ==
  /\ \A from \in {TextPath, HandlePath} : \A t \in DOMAIN from : IsSequence(from[t])
  /\ IsSequence(ConsolePaths) /\ \A n \in DOMAIN ConsolePaths : IsSequence(ConsolePaths[n])

VARIABLES
  variable,  \* the variables by name: Null for none, Invalid, or a path
  flags,     \* the options seen: Set, Append, Auto
  path,      \* Path
  current,   \* CurrentPath
  index      \* Index of the loops

Invalid == <<"?">>  \* contents that are no device path

setConVars == <<variable, flags, path, current, index>>

SetConInit ==
  /\ flags = {} /\ path = Null /\ current = Null /\ index = 1

\* Usage and the error returns inside the option loop free nothing.
Usage == Goto("done") /\ Keep /\ UNCHANGED setConVars

TakesPath(from) ==
  IF opt'.OptArg = Null \/ {"Set", "Auto"} \cap flags # {} THEN Usage
  ELSE \E p \in {from[opt'.OptArg[1]]} \cup (IF Fails("memory") THEN {Null} ELSE {}) :
         /\ IF p = Null /\ opt'.Opt # "p"
            THEN Goto("done") /\ Keep /\ UNCHANGED <<flags, path>>
            ELSE /\ path' = p /\ flags' = flags \cup {"Set"}
                 /\ Allocated(IF p = Null THEN {} ELSE {"path"}, {})
                 /\ Goto("options")
         /\ UNCHANGED <<variable, current, index>>

TakesFlag(conflicts, new) ==
  IF conflicts \cap flags # {} THEN Usage
  ELSE flags' = flags \cup new /\ Goto("options") /\ Keep /\ UNCHANGED <<variable, path, current, index>>

SetConOption ==
  /\ pc = "options"
  /\ LET g == GetOpt({"i", "h", "p"}) IN
     /\ opt' = g.next
     /\ CASE ~g.found -> /\ Goto(IF Argc - opt'.OptIndex < 1 THEN "done" ELSE "read")
                         /\ Keep /\ UNCHANGED setConVars
          [] g.found /\ opt'.Opt = "A" -> TakesFlag({"Set", "Append"}, {"Auto", "Set"})
          [] g.found /\ opt'.Opt = "a" -> TakesFlag({"Auto"}, {"Append"})
          [] g.found /\ opt'.Opt = "p" -> TakesPath(TextPath)
          [] g.found /\ opt'.Opt \in {"h", "i"} -> TakesPath(HandlePath)
          [] OTHER -> Usage
  /\ UNCHANGED argv

VarName == Argv(opt.OptIndex)[1]
Content == IF VarName \in VarNames THEN variable[VarName] ELSE Null

\* The size is asked for first.  A failed allocation is freed all the same.
GetVarPath ==
  /\ pc = "read"
  /\ \/ /\ Content = Null \/ Fails("variable")
        /\ Goto("out") /\ Keep /\ UNCHANGED current
     \/ /\ Content # Null /\ Fails("memory")
        /\ Goto("out") /\ FreesNull /\ UNCHANGED current
     \/ /\ Content = Invalid
        /\ Goto("decide") /\ Allocated({"current"}, {"current"}) /\ UNCHANGED current
     \/ /\ Content \notin {Null, Invalid}
        /\ current' = Content /\ Goto("decide") /\ Allocated({"current"}, {})
  /\ UNCHANGED <<argv, opt, variable, flags, path, index>>

Decide ==
  /\ pc = "decide"
  /\ Goto(CASE "Set" \notin flags -> IF current # Null THEN "print" ELSE "out"
            [] {"Set", "Auto"} \subseteq flags -> "auto"
            [] "Set" \in flags /\ "Auto" \notin flags /\ "Append" \in flags -> "append"
            [] OTHER -> "write")
  /\ index' = 1 /\ Keep /\ UNCHANGED <<argv, opt, variable, flags, path, current>>

\* Each instance and its text are allocated and freed; a text that could not
\* be allocated is freed, too.  Without memory for an instance they end.
PrintVarPath ==
  /\ pc = "print"
  /\ \/ /\ index > Len(current) \/ Fails("memory")
        /\ Goto("out") /\ Keep /\ index' = index
     \/ index <= Len(current) /\ index' = index + 1 /\ UNCHANGED pc /\ (Keep \/ (Fails("memory") /\ FreesNull))
  /\ UNCHANGED <<argv, opt, variable, flags, path, current>>

\* StrnCmp with the length of the name's beginning.
IsConsole(name) == \E console \in {"ConOut", "ErrOut", "ConIn"} : name \in Beginning[console]

AutoPath ==
  /\ pc = "auto"
  /\ \/ IsConsole(VarName) /\ Allocated({"handles"}, {}) /\ Goto("build")
     \/ (IsConsole(VarName) => Fails("handles")) /\ Keep /\ Goto("out")
  /\ UNCHANGED <<argv, opt, setConVars>>

AutoPathEnds(build, freed) ==
  path' = build /\ Allocated({}, {"handles"} \cup freed) /\ index' = index

\* One handle of AutoPath; path stands for Build until it is handed over.
AutoPathHandle ==
  /\ pc = "build"
  /\ LET p == ConsolePaths[index] IN
     \/ /\ index <= Len(ConsolePaths) /\ p = Null
        /\ index' = index + 1 /\ Keep /\ UNCHANGED <<path, pc>>
     \/ /\ index <= Len(ConsolePaths) /\ p # Null
        /\ index' = index + 1 /\ path' = path \o p /\ Allocated({"path"}, {}) /\ UNCHANGED pc
     \/ /\ index <= Len(ConsolePaths) /\ p # Null /\ Fails("memory")
        /\ AutoPathEnds(Null, {"path"} \cap heap) /\ Goto("out")
     \/ /\ index > Len(ConsolePaths)
        /\ AutoPathEnds(path, {}) /\ Goto(IF path = Null THEN "out" ELSE "write")
  /\ UNCHANGED <<argv, opt, variable, flags, current>>

\* AppendDevicePathInstance copies; the path given on the command line goes.
AppendPath ==
  /\ pc = "append"
  /\ \/ /\ path # Null
        /\ path' = current \o path /\ Keep /\ Goto("write")
     \/ /\ path = Null \/ Fails("memory")
        /\ Goto("out") /\ Keep /\ UNCHANGED path
  /\ UNCHANGED <<argv, opt, variable, flags, current, index>>

\* Writing no bytes deletes a variable.
SetVariable ==
  /\ pc = "write"
  /\ \/ variable' = [variable EXCEPT ![VarName] = path]
     \/ Fails("variable") /\ UNCHANGED variable
  /\ Goto("out") /\ Keep
  /\ UNCHANGED <<argv, opt, flags, path, current, index>>

\* Mutant: what was read is not freed.
SetConOutForgets ==
  /\ pc = "out"
  /\ Allocated({}, IF path # Null THEN {"path"} ELSE {})
  /\ Goto("done")
  /\ UNCHANGED <<argv, opt, setConVars>>

SetConOut ==
  /\ pc = "out"
  /\ Allocated({}, (IF current # Null THEN {"current"} ELSE {}) \cup (IF path # Null THEN {"path"} ELSE {}))
  /\ Goto("done")
  /\ UNCHANGED <<argv, opt, setConVars>>

SetConNext ==
  \/ GetShellArgcArgv("options") /\ UNCHANGED setConVars
  \/ SetConOption \/ GetVarPath \/ Decide \/ PrintVarPath
  \/ AutoPath \/ AutoPathHandle \/ AppendPath \/ SetVariable \/ SetConOut
=============================================================================
