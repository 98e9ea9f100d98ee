------------------------------- MODULE Shell --------------------------------
(***************************************************************************)
(* A user runs SetCon or LoadOpRom with something in mind, request, and    *)
(* spells it as a command line in one of the ways the tools' usage allows. *)
(* The properties compare what the tools do with what was meant.           *)
(***************************************************************************)
EXTENDS SetCon, LoadOpRom

CONSTANTS
  Requests,    \* what users want
  Spellings,   \* and how it can be written, per request
  Contents     \* what the variable asked for may hold

-----------------------------------------------------------------------------
(* What a command line means.  The options come first, each in a word of   *)
(* its own or with its argument in the next; a lone dash may end them.     *)
IsOption(word) == IsDash(word) /\ Len(word) # 1
IsArgument(words, n, withArgs) ==
  /\ n > 2 /\ ~IsDash(words[n])
  /\ IsOption(words[n - 1]) /\ Len(words[n - 1]) = 2 /\ words[n - 1][2] \in withArgs
InOptions(words, n, withArgs) ==
  \A m \in 2..n : IsOption(words[m]) \/ IsArgument(words, m, withArgs)

Options(words, which, withArgs) ==
  {n \in 2..Len(words) : InOptions(words, n, withArgs) /\ IsOption(words[n]) /\ words[n][2] \in which}
Operands(words, withArgs) ==
  {n \in 2..Len(words) : /\ ~InOptions(words, n, withArgs)
                         /\ IsOption(words[n]) \/ ~IsDash(words[n]) \/ ~InOptions(words, n - 1, withArgs)}

First(s) == CHOOSE b \in s : \A c \in s : b <= c

\* SetCon [-A] [-i handle-index] [-h handle] [-p path] [-a] VariableName
PathOptions == {"i", "h", "p"}
Given(words, which) == Options(words, which, PathOptions)
Argument(words, n) ==
  IF Len(words[n]) = 3 THEN <<words[n][3]>>
  ELSE IF n < Len(words) /\ IsArgument(words, n + 1, PathOptions) THEN words[n + 1] ELSE Null
PathMeant(words, n) ==
  IF words[n][2] = "p" THEN TextPath[Argument(words, n)[1]] ELSE HandlePath[Argument(words, n)[1]]

SetConFits(words) ==
  /\ \A n \in 2..Len(words) : InOptions(words, n, PathOptions) /\ IsOption(words[n]) =>
       words[n][2] \in PathOptions \cup {"A", "a"}
  /\ \A m, n \in Given(words, PathOptions \cup {"A"}) : m = n
  /\ Given(words, {"A"}) = {} \/ Given(words, {"a"}) = {}
  /\ \A n \in Given(words, PathOptions) : Argument(words, n) # Null
  /\ Operands(words, PathOptions) # {}

SetConMeans(words, r) ==
  IF ~SetConFits(words) THEN r.do = "usage"
  ELSE /\ r.do = IF Given(words, {"A"}) # {} THEN "auto"
                 ELSE IF Given(words, PathOptions) = {} THEN "show"
                 ELSE IF Given(words, {"a"}) = {} THEN "set" ELSE "append"
       /\ \A n \in Given(words, PathOptions) : r.path = PathMeant(words, n)
       /\ r.var = words[First(Operands(words, PathOptions))][1]

\* LoadOpRom [-l] [-n] [seg bus dev func]
LoadOpRomFits(words) ==
  /\ \A n \in 2..Len(words) : InOptions(words, n, {}) /\ IsOption(words[n]) => words[n][2] \in {"l", "n"}
  /\ Operands(words, {}) \in {{}, (Len(words) - 3)..Len(words)}

LoadOpRomMeans(words, r) ==
  IF ~LoadOpRomFits(words) THEN r.do = "usage"
  ELSE /\ r.do = IF Options(words, {"l"}, {}) # {} THEN "list"
                 ELSE IF Operands(words, {}) = {} THEN "all" ELSE "one"
       /\ r.noConnect = (Options(words, {"n"}, {}) # {})
       /\ r.do = "one" => r.location = [w \in 1..4 |-> words[Len(words) - 4 + w][1]]

IsWord(word) == Len(word) = 1 \/ (Len(word) \in 2..3 /\ word[1] = "-")

ASSUME ShellRequests ==
  \A r \in Requests :
    /\ IF r.tool = "SetCon" THEN r.var \in VarNames /\ IsSequence(r.path) ELSE r.tool = "LoadOpRom"
    /\ \A words \in Spellings[r] :
         /\ IsSequence(words) /\ words # <<>>
         /\ \A n \in DOMAIN words : IsSequence(words[n]) /\ IsWord(words[n])
         /\ IF r.tool = "SetCon" THEN SetConMeans(words, r) ELSE LoadOpRomMeans(words, r)
ASSUME ShellContents == \A p \in Contents : IsSequence(p)

VARIABLES
  request,  \* what is asked for
  before    \* the variable before the tool ran

vars == <<shared, setConVars, loadVars, request, before, mayFail>>

Init ==
  /\ request \in Requests
  /\ argv \in Spellings[request]
  /\ before \in IF request.tool = "SetCon" THEN Contents ELSE {Null}
  /\ variable = [v \in VarNames |-> IF v = request.var THEN before ELSE <<"other">>]
  /\ ToolInit /\ SetConInit /\ LoadInit

Next ==
  /\ \/ request.tool = "SetCon" /\ SetConNext /\ UNCHANGED loadVars
     \/ request.tool = "LoadOpRom" /\ LoadOpRomNext /\ UNCHANGED setConVars
  /\ UNCHANGED <<request, before, mayFail>>

\* The tools are sequential programs: whatever they can do next they do.
Spec == Init /\ [][Next]_vars /\ WF_vars(Next)

-----------------------------------------------------------------------------
(* What the requests mean.                                                 *)
Existing == IF before = Invalid THEN Null ELSE before

\* ConOut, ErrOut, ConIn, or a name that goes on from one of these: ConOutDev.
ForConsoles ==
  request.var \in Beginning["ConOut"] \cup Beginning["ErrOut"] \cup Beginning["ConIn"]

Asked ==
  CASE before = Null \/ request.do \in {"show", "usage"} -> before
    [] before # Null /\ request.do = "auto" ->
         IF ForConsoles /\ FlattenSeq(ConsolePaths) # Null THEN FlattenSeq(ConsolePaths) ELSE before
    [] before # Null /\ request.do = "set" ->
         IF request.path # Null THEN request.path ELSE before
    [] before # Null /\ request.do = "append" ->
         IF request.path # Null THEN Existing \o request.path ELSE before

\* SetCon ends with the variable as the command line asks, however it is
\* spelled, or, after a failure, as it was, and no other is touched.  A path
\* that cannot be made of -p's text is reported but then written: the variable
\* is deleted.
VariableAsAsked ==
  pc = "done" /\ request.tool = "SetCon" =>
    /\ \A v \in VarNames \ {request.var} : variable[v] = <<"other">>
    /\ LET after == variable[request.var] IN
       \/ after = Asked \/ (mayFail # {} /\ after = before)
       \/ after = Null /\ request.do = "set" /\ "Set" \in flags /\ path = Null

-----------------------------------------------------------------------------
\* The images of a ROM: where a walk from the first block comes by.
Stride(rom, b) == IF rom[b] = Null THEN 1 ELSE ImageLength(rom[b])
GoesOn(rom, b) == rom[b] = Null \/ (rom[b].pcir /\ ~rom[b].last)
Closed(rom, s) ==
  /\ 1 \in DOMAIN rom => 1 \in s
  /\ \A b \in s : GoesOn(rom, b) /\ b + Stride(rom, b) \in DOMAIN rom => b + Stride(rom, b) \in s
Walk(rom) == {b \in DOMAIN rom : \A s \in SUBSET DOMAIN rom : Closed(rom, s) => b \in s}

Usable(rom) ==
  {b \in Walk(rom) : /\ rom[b] # Null /\ rom[b].pcir
                     /\ rom[b].kind = "efi" /\ rom[b].machine = Host
                     /\ rom[b].init <= rom[b].length /\ rom[b].offsetOk}

AskedDevices ==
  CASE request.do \in {"list", "usage"} -> {}
    [] request.do = "all" -> DOMAIN Devices
    [] request.do = "one" -> {d \in DOMAIN Devices : Devices[d].location = request.location}

AskedImages ==
  {[dev |-> d, at |-> First(Usable(Devices[d].rom)), st |-> "started"] :
     d \in {e \in AskedDevices : Usable(Devices[e].rom) # {}}}

\* LoadOpRom starts, for the devices asked for alone, the first image of each
\* ROM that the host can run: none is skipped for one behind it, or loaded
\* from behind the last; images that fail are unloaded and no device gets a
\* second one.  Connected are the devices whose image was started, unless the
\* user said no.  Excepted are runs in which AllDevs was read unassigned.
RightImages ==
  request.tool = "LoadOpRom" /\ (want # Null => ~allDevs) =>
    /\ \A i \in images : [i EXCEPT !.st = "started"] \in AskedImages
    /\ pc \in {"device", "rom", "finish", "done"} => \A i \in images : i.st # "loaded"
    /\ \A d \in connected : ~request.noConnect /\ \E i \in images : i.dev = d /\ i.st = "started"
    /\ pc = "done" /\ mayFail = {} =>
         images = AskedImages /\ (~request.noConnect => connected = {i.dev : i \in images})

\* A tool that ends has freed all it allocated, on every path that leads
\* there, and nothing else.  Known exceptions: Usage after -p, -h or -i keeps
\* the path, and three failed allocations are freed as if they had not failed,
\* one of them in place of another.
NothingLeft ==
  /\ pc = "done" => heap \subseteq (IF request.tool = "SetCon" /\ request.do = "usage" THEN {"path"} ELSE {})
                              \cup (IF badFree THEN {"image"} ELSE {})
  /\ badFree => "memory" \in mayFail

\* Every command ends, whatever the ROMs hold, as long as an image of length
\* zero is the last of its ROM.
Terminates == <>(pc = "done")
=============================================================================
