----------------------------- MODULE ShellProofs -----------------------------
(***************************************************************************)
(* Proofs about Shell, for any command line, variable, handles, devices,   *)
(* ROMs and failures: SetCon leaves the variable as the command line asks, *)
(* LoadOpRom starts the images it should and no others, and both free what *)
(* they allocate.  First the invariant, tool by tool; then what GetOpt     *)
(* makes of a command line, against the grammar of Shell; then each step.  *)
(***************************************************************************)
EXTENDS Shell, SequenceTheorems, WellFoundedInduction, TLAPS

-----------------------------------------------------------------------------
(* Reading options: the next word is not the argument of an option.        *)

NextWord == opt.OptIndex + 1

AtOption(words, n, withArgs) ==
  /\ n \in 2..(Len(words) + 1)
  /\ InOptions(words, n - 1, withArgs)
  /\ n <= Len(words) => ~IsArgument(words, n, withArgs)

OptShape(o) ==
  /\ o = [Opt |-> o.Opt, OptArg |-> o.OptArg, OptIndex |-> o.OptIndex]
  /\ o.OptIndex \in Nat

\* The options in front of word n, and what is known from them alone.
Seen(words, n, which, withArgs) == {m \in Options(words, which, withArgs) : m < n}
Known(words, n, which) ==
  \A m \in 2..(n - 1) : IsOption(words[m]) => words[m][2] \in which
SetConSoFar(words, n) ==
  /\ Known(words, n, PathOptions \cup {"A", "a"})
  /\ \A m, l \in Seen(words, n, PathOptions \cup {"A"}, PathOptions) : m = l
  /\ Seen(words, n, {"A"}, PathOptions) = {} \/ Seen(words, n, {"a"}, PathOptions) = {}
  /\ \A m \in Seen(words, n, PathOptions, PathOptions) : Argument(words, m) # Null

FlagsSeen(words, n, fs) ==
  /\ ("Set" \in fs) <=> Seen(words, n, PathOptions \cup {"A"}, PathOptions) # {}
  /\ ("Auto" \in fs) <=> Seen(words, n, {"A"}, PathOptions) # {}
  /\ ("Append" \in fs) <=> Seen(words, n, {"a"}, PathOptions) # {}
PathSeen(words, n, p) ==
  /\ Seen(words, n, PathOptions, PathOptions) = {} => p = Null
  /\ \A m \in Seen(words, n, PathOptions, PathOptions) :
       p = PathMeant(words, m) \/ (p = Null /\ Fails("memory"))

-----------------------------------------------------------------------------
(* SetCon.                                                                 *)

SetConOptions ==
  /\ AtOption(argv, NextWord, PathOptions)
  /\ SetConSoFar(argv, NextWord)
  /\ FlagsSeen(argv, NextWord, flags)
  /\ PathSeen(argv, NextWord, path)

\* After the options, tool and user agree on what is to be done.
SetConAgrees ==
  /\ VarName = request.var
  /\ request.do \in {"show", "auto", "set", "append"}
  /\ ("Set" \in flags) <=> request.do # "show"
  /\ ("Auto" \in flags) <=> request.do = "auto"
  /\ request.do # "show" => (("Append" \in flags) <=> request.do = "append")

PathTold ==
  IF request.do \in {"set", "append"}
  THEN path = request.path \/ (path = Null /\ Fails("memory"))
  ELSE path = Null

\* The paths of the first n handles in one, and of those in front of handle n.
FlatIs(f, n) ==
  f = [i \in 1..n |-> IF i = 1 THEN ConsolePaths[i] ELSE f[i - 1] \o ConsolePaths[i]]
Flat[i \in 1..Len(ConsolePaths)] ==
  IF i = 1 THEN ConsolePaths[i] ELSE Flat[i - 1] \o ConsolePaths[i]
Built(n) == IF n = 1 THEN Null ELSE Flat[n - 1]

AsBefore == variable = [v \in VarNames |-> IF v = request.var THEN before ELSE <<"other">>]
Outcome ==
  /\ DOMAIN variable = VarNames
  /\ \A v \in VarNames \ {request.var} : variable[v] = <<"other">>
  /\ LET after == variable[request.var] IN
     \/ after = Asked \/ (mayFail # {} /\ after = before)
     \/ after = Null /\ request.do = "set" /\ "Set" \in flags /\ path = Null

SetConAt ==
  /\ pc \in {"start", "options", "read"} => current = Null
  /\ pc \in {"decide", "print", "append", "auto", "build", "write"} => before # Null
  /\ pc \in {"decide", "print", "append"} => current = Existing
  /\ pc \in {"read", "decide", "print", "append", "auto", "build", "write"} => SetConAgrees
  /\ pc \notin {"out", "done"} => AsBefore
  /\ pc = "start" => opt = InitGetOpt /\ flags = {} /\ path = Null
  /\ pc = "options" => SetConOptions
  /\ pc \in {"read", "decide", "append"} => PathTold
  /\ pc \in {"print", "auto"} => path = Null
  /\ pc = "auto" => index = 1
  /\ pc = "print" => request.do = "show"
  /\ pc = "append" => request.do = "append"
  /\ pc \in {"auto", "build"} => request.do = "auto"
  /\ pc = "build" => IsConsole(request.var) /\ index \in 1..(Len(ConsolePaths) + 1) /\ path = Built(index)
  /\ pc = "write" => path = Asked \/ (path = Null /\ request.do = "set")
  /\ pc \in {"out", "done"} => Outcome

SetConPcs == {"start", "options", "read", "decide", "print", "auto", "build", "append", "write", "out", "done"}

PartOf(x, part) == IF x = Null THEN {} ELSE {part}
SetConHeap ==
  /\ pc \notin {"done", "build"} => heap = PartOf(path, "path") \cup PartOf(current, "current")
  /\ pc = "build" => heap = {"handles"} \cup PartOf(path, "path") \cup PartOf(current, "current")
  /\ pc = "done" => heap \subseteq (IF request.do = "usage" THEN {"path"} ELSE {})
  /\ badFree => Fails("memory")

SetConInv ==
  /\ pc \in SetConPcs /\ OptShape(opt)
  /\ IsSequence(current) /\ (pc \notin {"options", "done"} => IsSequence(path))
  /\ SetConAt /\ SetConHeap

-----------------------------------------------------------------------------
(* LoadOpRom.                                                              *)

LoadFlags ==
  /\ AtOption(argv, NextWord, {})
  /\ Known(argv, NextWord, {"l", "n"})
  /\ onlyList <=> Seen(argv, NextWord, {"l"}, {}) # {}
  /\ noConnect <=> Seen(argv, NextWord, {"n"}, {}) # {}
LoadCount ==
  /\ \A m \in 2..Len(argv) : InOptions(argv, m, {}) /\ IsOption(argv[m]) => argv[m][2] \in {"l", "n"}
  /\ onlyList <=> Options(argv, {"l"}, {}) # {}
  /\ noConnect <=> Options(argv, {"n"}, {}) # {}
  /\ Operands(argv, {}) = NextWord..Len(argv) /\ NextWord \in 2..(Len(argv) + 1)

LoadAgrees ==
  /\ request.do \in {"all", "list", "one"}
  /\ onlyList <=> request.do = "list"
  /\ noConnect <=> request.noConnect
  /\ want = Null => allDevs
  /\ request.do = "all" => want = Null
  /\ request.do = "one" => want = request.location /\ want # Null

\* Of the images asked for, those of the devices in front of device n; what
\* may have become of them.
ForFirst(asked, n) == {i \in asked : i.dev < n}
Tried(asked, n) == ForFirst(asked, n) \cup {[i EXCEPT !.st = "unloaded"] : i \in ForFirst(asked, n)}
Handled(asked, is, n) == is \subseteq Tried(asked, n) /\ (mayFail = {} => is = ForFirst(asked, n))
Linked(asked, cs, n) == mayFail = {} /\ ~request.noConnect => cs = {i.dev : i \in ForFirst(asked, n)}
OnlyStarted ==
  \A d \in connected : ~request.noConnect /\ \E i \in images : i.dev = d /\ i.st = "started"

FirstUsable == at \in Walk(Rom) /\ \A b \in Usable(Rom) : at <= b

Loading == {"load", "path", "core", "start image", "connect", "free"}
RightAt ==
  /\ pc \in {"start", "flags", "count", "locate"} => images = {} /\ connected = {}
  /\ pc \in {"device", "rom", "load", "path", "core"} => Handled(AskedImages, images, k)
  /\ pc \in {"device", "rom", "load", "path", "core", "start image", "connect"} => Linked(AskedImages, connected, k)
  /\ pc = "rom" => onlyList \/ (k \in AskedDevices /\ FirstUsable)
  /\ pc \in Loading => k \in AskedDevices /\ FirstUsable /\ at \in Usable(Rom)
  /\ pc = "start image" => Handled(AskedImages, images \ {Tag("loaded")}, k)
  /\ pc = "connect" => Tag("started") \in images /\ ~request.noConnect
  /\ pc \in {"connect", "free"} => Handled(AskedImages, images, k + 1)
  /\ pc = "free" => Linked(AskedImages, connected, k + 1)
  /\ pc \in {"finish", "done"} => /\ Handled(AskedImages, images, Len(Devices) + 1)
                                /\ Linked(AskedImages, connected, Len(Devices) + 1)
  /\ OnlyStarted

OnDevice == {"device", "rom", "finish"} \cup Loading
LoadAt ==
  /\ pc = "start" => opt = InitGetOpt /\ ~onlyList /\ ~noConnect
  /\ pc \in {"start", "flags", "count"} => want = Null /\ images = {} /\ connected = {}
  /\ pc \in {"start", "flags", "count", "locate"} => k = 1 /\ at = 1
  /\ pc = "device" => at = 1
  /\ pc = "flags" => LoadFlags
  /\ pc = "count" => LoadCount
  /\ pc \in {"locate"} \cup OnDevice => LoadAgrees
  /\ pc \in OnDevice => k \in DOMAIN Devices
  /\ pc \in {"rom"} \cup Loading => at \in DOMAIN Rom
  /\ pc \in Loading => Header # Null /\ ~onlyList

LoadPcs == {"start", "flags", "count", "locate", "device", "rom", "load", "path", "core", "start image", "connect",
            "free", "finish", "done"}

Leaked == IF badFree THEN {"image"} ELSE {}
Unpacked == IF Header.compressed THEN {"image"} ELSE {}
HeapIs(least) == least \subseteq heap /\ heap \subseteq least \cup Leaked
LoadHeap ==
  /\ pc \in {"start", "flags", "count", "locate"} => heap = {}
  /\ pc \in {"device", "rom", "load", "finish"} => HeapIs({"handles"})
  /\ pc = "path" => HeapIs({"handles"} \cup Unpacked)
  /\ pc \in {"core", "start image", "connect"} => HeapIs({"handles", "devicepath"} \cup Unpacked)
  /\ pc = "free" => HeapIs({"handles"} \cup Unpacked) \/ HeapIs({"handles", "devicepath"} \cup Unpacked)
  /\ pc = "done" => HeapIs({})
  /\ badFree => Fails("memory")

LoadInv ==
  /\ pc \in LoadPcs /\ OptShape(opt) /\ LoadAt /\ LoadHeap
  /\ (want # Null => ~allDevs) => RightAt

Typed ==
  /\ request \in Requests /\ argv \in Spellings[request]
  /\ request.tool = "SetCon" => before \in Contents
ShellInv ==
  /\ Typed
  /\ request.tool = "SetCon" => SetConInv
  /\ request.tool = "LoadOpRom" => LoadInv

-----------------------------------------------------------------------------
(* What GetOpt does to a command line.                                     *)

WordsOK(words) ==
  /\ Len(words) \in Nat /\ Len(words) >= 1
  /\ \A n \in 1..Len(words) : Len(words[n]) \in 1..3 /\ (Len(words[n]) # 1 => IsDash(words[n]))

\* A command line is made of words.
LEMMA WordsAssumed ==
  ASSUME Typed PROVE WordsOK(argv)
<1>1. IsSequence(argv) /\ argv # <<>> /\ \A n \in DOMAIN argv : IsSequence(argv[n]) /\ IsWord(argv[n])
  BY ShellRequests DEF Typed
<1>2. Len(argv) \in Nat /\ argv = [n \in 1..Len(argv) |-> argv[n]]
  BY <1>1 DEF IsSequence
<1>3. DOMAIN argv = 1..Len(argv)
  BY <1>2
<1>4. Len(argv) # 0
  <2>1. SUFFICES ASSUME Len(argv) = 0 PROVE FALSE
    OBVIOUS
  <2>2. 1..0 = {}
    OBVIOUS
  <2>3. argv = [n \in {} |-> argv[n]]
    BY <1>2, <2>1, <2>2
  <2>4. argv = <<>>
    BY <2>3
  <2> QED BY <2>4, <1>1
<1>5. ASSUME NEW n \in 1..Len(argv)
      PROVE  Len(argv[n]) \in 1..3 /\ (Len(argv[n]) # 1 => IsDash(argv[n]))
  <2>1. Len(argv[n]) = 1 \/ (Len(argv[n]) \in 2..3 /\ IsDash(argv[n]))
    BY <1>1, <1>3 DEF IsWord, IsDash
  <2> QED BY <2>1 DEF IsDash
<1> QED BY <1>2, <1>4, <1>5 DEF WordsOK

\* InOptions grows word by word.
LEMMA InOptionsStep ==
  ASSUME NEW words, NEW withArgs, NEW n \in Nat, n >= 2, InOptions(words, n - 1, withArgs)
  PROVE  InOptions(words, n, withArgs) <=> (IsOption(words[n]) \/ IsArgument(words, n, withArgs))
<1>1. \A m \in 2..n : m = n \/ m \in 2..(n - 1)
  OBVIOUS
<1> QED BY <1>1 DEF InOptions

\* What stands before an option stands among the options.
LEMMA InOptionsBelow ==
  ASSUME NEW words, NEW withArgs, NEW n \in Nat, NEW m \in Nat, m <= n, InOptions(words, n, withArgs)
  PROVE  InOptions(words, m, withArgs)
<1>1. \A l \in 2..m : l \in 2..n
  OBVIOUS
<1> QED BY <1>1 DEF InOptions

\* An option found is the next word of the command line, and the word after it
\* is skipped exactly if it is its argument.
OptionFound(words, n, o, withArgs) ==
  LET n2 == o.OptIndex + 1 IN
  /\ n \in 2..Len(words) /\ IsOption(words[n]) /\ InOptions(words, n, withArgs)
  /\ o.Opt = words[n][2]
  /\ AtOption(words, n2, withArgs)
  /\ n2 = n + 1 \/ (n2 = n + 2 /\ ~IsOption(words[n + 1]))
  /\ withArgs = PathOptions /\ o.Opt \in PathOptions => o.OptArg = Argument(words, n)

\* GetOpt finds the option that is next and takes its argument.
LEMMA GetOptFound ==
  ASSUME WordsOK(argv), OptShape(opt), NEW withArgs, AtOption(argv, NextWord, withArgs), GetOpt(withArgs).found
  PROVE  OptShape(GetOpt(withArgs).next) /\ OptionFound(argv, NextWord, GetOpt(withArgs).next, withArgs)
<1> DEFINE i == opt.OptIndex
           n == i + 1
           o == argv[n][2]
           attached == Len(argv[n]) = 3
           separate == o \in withArgs /\ ~attached /\ i + 1 < Len(argv) /\ ~IsDash(argv[i + 2])
           arg == IF attached THEN <<argv[n][3]>> ELSE IF separate THEN argv[i + 2] ELSE Null
           new == [Opt |-> o, OptArg |-> IF o \in withArgs THEN arg ELSE opt.OptArg,
                   OptIndex |-> i + (IF separate THEN 2 ELSE 1)]
<1>0. i \in Nat /\ NextWord = n /\ n \in 2..(Len(argv) + 1) /\ Len(argv) \in Nat
  BY DEF OptShape, NextWord, AtOption, WordsOK
<1>1. i + 1 + 1 = i + 2
  BY <1>0
<1>2. GetOpt(withArgs) =
        IF i >= Len(argv) \/ ~IsDash(argv[n]) THEN [found |-> FALSE, next |-> opt]
        ELSE IF Len(argv[n]) = 1 THEN [found |-> FALSE, next |-> [opt EXCEPT !.OptIndex = i + 1]]
        ELSE [found |-> TRUE, next |-> new]
  BY <1>1, Zenon DEF GetOpt, Argv, Argc
<1>a. n = i + 1
  OBVIOUS
<1> HIDE DEF i, n
<1>3. ~(i >= Len(argv)) /\ IsDash(argv[n]) /\ Len(argv[n]) # 1
  BY <1>2
<1>4. GetOpt(withArgs).next = new
  BY <1>2, <1>3
<1>5. n \in 2..Len(argv) /\ Len(argv[n]) \in 2..3
  BY <1>0, <1>a, <1>3 DEF WordsOK
<1>6. IsOption(argv[n])
  BY <1>3, <1>5 DEF IsOption
<1>7. InOptions(argv, n, withArgs)
  BY <1>0, <1>5, <1>6, InOptionsStep DEF AtOption
<1>8. OptShape(new) /\ new.Opt = argv[n][2] /\ new.OptIndex = i + (IF separate THEN 2 ELSE 1)
      /\ (o \in withArgs => new.OptArg = arg)
  BY <1>0 DEF OptShape
<1>9. ASSUME separate PROVE n + 1 \in 3..Len(argv) /\ IsArgument(argv, n + 1, withArgs) /\ ~IsOption(argv[n + 1])
                            /\ argv[n + 1] = argv[i + 2]
  <2>1. n + 1 \in 3..Len(argv) /\ n + 1 = i + 2 /\ n + 1 - 1 = n
    BY <1>9, <1>0, <1>a, <1>5
  <2>2. Len(argv[n]) = 2
    BY <1>5, <1>9
  <2> QED BY <2>1, <2>2, <1>0, <1>6, <1>9 DEF IsArgument, IsOption
<1>10. ASSUME ~separate, n + 1 <= Len(argv) PROVE ~IsArgument(argv, n + 1, withArgs)
  <2>1. n + 1 - 1 = n /\ n + 1 = i + 2 /\ i + 1 < Len(argv)
    BY <1>0, <1>a, <1>10
  <2>2. Len(argv[n]) = 2 => ~attached
    OBVIOUS
  <2> QED BY <1>0, <2>1, <2>2, <1>10 DEF IsArgument
<1>11. CASE separate
  <2>1. new.OptIndex + 1 = n + 2
    BY <1>11, <1>8, <1>0, <1>a
  <2>2. InOptions(argv, n + 1, withArgs)
    <3>1. n + 1 \in Nat /\ n + 1 >= 2 /\ n + 1 - 1 = n
      BY <1>0
    <3> QED BY <1>0, <3>1, <1>7, <1>9, <1>11, InOptionsStep
  <2>3. n + 2 <= Len(argv) => ~IsArgument(argv, n + 2, withArgs)
    <3>1. n + 2 - 1 = n + 1
      BY <1>0
    <3> QED BY <1>0, <3>1, <1>9, <1>11 DEF IsArgument, IsOption
  <2>4. AtOption(argv, n + 2, withArgs)
    <3>1. n + 2 \in 2..(Len(argv) + 1) /\ n + 2 - 1 = n + 1
      BY <1>0, <1>9, <1>11
    <3> QED BY <1>0, <3>1, <2>2, <2>3 DEF AtOption
  <2>5. withArgs = PathOptions => arg = Argument(argv, n)
    <3>1. ~attached /\ n < Len(argv)
      BY <1>11, <1>0, <1>a
    <3> QED BY <3>1, <1>9, <1>11 DEF Argument
  <2> QED
    BY <1>0, <1>4, <1>5, <1>6, <1>7, <1>8, <1>9, <1>11, <2>1, <2>4, <2>5 DEF OptionFound
<1>12. CASE ~separate
  <2>1. new.OptIndex + 1 = n + 1
    BY <1>12, <1>8, <1>0, <1>a
  <2>2. AtOption(argv, n + 1, withArgs)
    <3>1. n + 1 \in 2..(Len(argv) + 1) /\ n + 1 - 1 = n
      BY <1>0, <1>5
    <3> QED BY <1>0, <3>1, <1>7, <1>10, <1>12 DEF AtOption
  <2>3. withArgs = PathOptions => arg = Argument(argv, n)
    <3>1. CASE attached
      BY <3>1 DEF Argument
    <3>2. CASE ~attached
      <4>1. ~(n < Len(argv) /\ IsArgument(argv, n + 1, withArgs))
        <5>1. n < Len(argv) => n + 1 <= Len(argv)
          BY <1>0
        <5> QED BY <5>1, <1>10, <1>12
      <4>2. arg = Null
        BY <3>2, <1>12
      <4> QED BY <4>1, <4>2, <3>2 DEF Argument
    <3> QED BY <3>1, <3>2
  <2> QED
    BY <1>0, <1>4, <1>5, <1>6, <1>7, <1>8, <1>12, <2>1, <2>2, <2>3 DEF OptionFound
<1> QED BY <1>11, <1>12

\* Without an option found, all options have been and the operands are left.
OptionsOver(words, n, n2, withArgs) ==
  /\ n2 \in 2..(Len(words) + 1)
  /\ Operands(words, withArgs) = n2..Len(words)
  /\ \A m \in n..Len(words) : ~InOptions(words, m, withArgs)

\* GetOpt finds none where the options end, and skips the lone dash.
LEMMA GetOptOver ==
  ASSUME WordsOK(argv), OptShape(opt), NEW withArgs, AtOption(argv, NextWord, withArgs), ~GetOpt(withArgs).found
  PROVE  OptShape(GetOpt(withArgs).next)
         /\ OptionsOver(argv, NextWord, GetOpt(withArgs).next.OptIndex + 1, withArgs)
<1> DEFINE i == opt.OptIndex
           n == i + 1
           g == GetOpt(withArgs)
<1>0. i \in Nat /\ NextWord = n /\ n \in 2..(Len(argv) + 1) /\ Len(argv) \in Nat /\ InOptions(argv, n - 1, withArgs)
  BY DEF OptShape, NextWord, AtOption, WordsOK
<1>2. g = IF i >= Len(argv) \/ ~IsDash(argv[n]) THEN [found |-> FALSE, next |-> opt]
          ELSE IF Len(argv[n]) = 1 THEN [found |-> FALSE, next |-> [opt EXCEPT !.OptIndex = i + 1]]
          ELSE g
  BY DEF GetOpt, Argv, Argc
<1>3. (i >= Len(argv) \/ ~IsDash(argv[n])) \/ Len(argv[n]) = 1
  BY DEF GetOpt, Argv, Argc
<1>4. ASSUME n <= Len(argv) PROVE ~InOptions(argv, n, withArgs) /\ ~IsOption(argv[n])
  <2>1. ~IsArgument(argv, n, withArgs)
    BY <1>0, <1>4 DEF AtOption
  <2>2. ~IsOption(argv[n])
    BY <1>3, <1>4, <1>0 DEF IsOption
  <2> QED BY <1>0, <2>1, <2>2, InOptionsStep
<1>5. ASSUME NEW m \in n..Len(argv) PROVE ~InOptions(argv, m, withArgs)
  <2>1. n <= Len(argv) /\ n <= m /\ m \in Nat /\ n \in Nat
    BY <1>0
  <2> QED BY <2>1, <1>4, InOptionsBelow
<1>6. ASSUME NEW m \in 2..(n - 1) PROVE InOptions(argv, m, withArgs)
  <2>1. m \in Nat /\ n - 1 \in Nat /\ m <= n - 1
    BY <1>0
  <2> QED BY <2>1, <1>0, InOptionsBelow
<1>7. CASE i >= Len(argv) \/ ~IsDash(argv[n])
  <2>1. g.next = opt
    BY <1>2, <1>7
  <2>2. n <= Len(argv) => ~IsDash(argv[n])
    BY <1>7, <1>0
  <2>3. Operands(argv, withArgs) = n..Len(argv)
    <3>1. ASSUME NEW m \in Operands(argv, withArgs) PROVE m \in n..Len(argv)
      <4>1. m \in 2..Len(argv) /\ ~InOptions(argv, m, withArgs)
        BY <3>1 DEF Operands
      <4>2. m \notin 2..(n - 1)
        BY <4>1, <1>6
      <4> QED BY <4>1, <4>2, <1>0
    <3>2. ASSUME NEW m \in n..Len(argv) PROVE m \in Operands(argv, withArgs)
      <4>1. m \in 2..Len(argv) /\ ~InOptions(argv, m, withArgs)
        BY <1>5, <1>0
      <4>2. m # n => ~InOptions(argv, m - 1, withArgs)
        <5>1. m # n => m - 1 \in n..Len(argv)
          BY <1>0
        <5> QED BY <5>1, <1>5
      <4>3. m = n => ~IsDash(argv[m])
        BY <2>2, <1>0
      <4> QED BY <4>1, <4>2, <4>3 DEF Operands
    <3> QED BY <3>1, <3>2
  <2> QED BY <2>1, <2>3, <1>0, <1>5 DEF OptionsOver
<1>8. CASE ~(i >= Len(argv) \/ ~IsDash(argv[n]))
  <2>1. Len(argv[n]) = 1 /\ g.next = [opt EXCEPT !.OptIndex = i + 1] /\ IsDash(argv[n])
    BY <1>2, <1>3, <1>8
  <2>2. OptShape(g.next) /\ g.next.OptIndex = i + 1
    <3>1. opt = [Opt |-> opt.Opt, OptArg |-> opt.OptArg, OptIndex |-> opt.OptIndex]
      BY DEF OptShape
    <3>2. [opt EXCEPT !.OptIndex = i + 1] = [Opt |-> opt.Opt, OptArg |-> opt.OptArg, OptIndex |-> i + 1]
      BY <3>1
    <3> QED BY <3>2, <2>1, <1>0 DEF OptShape
  <2>3. n \in 2..Len(argv) /\ n + 1 \in 2..(Len(argv) + 1)
    BY <1>0, <1>8
  <2>4. Operands(argv, withArgs) = (n + 1)..Len(argv)
    <3>1. ASSUME NEW m \in Operands(argv, withArgs) PROVE m \in (n + 1)..Len(argv)
      <4>1. m \in 2..Len(argv) /\ ~InOptions(argv, m, withArgs)
        BY <3>1 DEF Operands
      <4>2. m \notin 2..(n - 1)
        BY <4>1, <1>6
      <4>3. m # n
        <5>1. IsOption(argv[m]) \/ ~IsDash(argv[m]) \/ ~InOptions(argv, m - 1, withArgs)
          BY <3>1 DEF Operands
        <5> QED BY <5>1, <1>4, <1>0, <2>1, <2>3
      <4> QED BY <4>1, <4>2, <4>3, <1>0
    <3>2. ASSUME NEW m \in (n + 1)..Len(argv) PROVE m \in Operands(argv, withArgs)
      <4>1. m \in 2..Len(argv) /\ ~InOptions(argv, m, withArgs)
        BY <1>5, <1>0
      <4>2. ~InOptions(argv, m - 1, withArgs)
        <5>1. m - 1 \in n..Len(argv)
          BY <1>0
        <5> QED BY <5>1, <1>5
      <4> QED BY <4>1, <4>2 DEF Operands
    <3> QED BY <3>1, <3>2
  <2> QED BY <2>2, <2>3, <2>4, <1>0, <1>5 DEF OptionsOver
<1> QED BY <1>7, <1>8

-----------------------------------------------------------------------------
(* The options seen and those of the whole line.                           *)

\* The options of a line, one by one.
LEMMA OptionsAre ==
  ASSUME NEW words, NEW which, NEW withArgs, NEW m
  PROVE  m \in Options(words, which, withArgs) <=>
           m \in 2..Len(words) /\ InOptions(words, m, withArgs) /\ IsOption(words[m]) /\ words[m][2] \in which
BY DEF Options

\* An option found is the only one that is seen more.
LEMMA SeenGrows ==
  ASSUME NEW words, WordsOK(words), NEW n, NEW o, NEW withArgs, OptionFound(words, n, o, withArgs), NEW which
  PROVE  Seen(words, o.OptIndex + 1, which, withArgs)
           = Seen(words, n, which, withArgs) \cup (IF words[n][2] \in which THEN {n} ELSE {})
<1> DEFINE n2 == o.OptIndex + 1
<1>1. n \in 2..Len(words) /\ Len(words) \in Nat /\ IsOption(words[n]) /\ InOptions(words, n, withArgs)
      /\ (n2 = n + 1 \/ (n2 = n + 2 /\ ~IsOption(words[n + 1])))
  BY DEF OptionFound, WordsOK
<1> HIDE DEF n2
<1>2. ASSUME NEW m \in Options(words, which, withArgs), m < n2 PROVE m < n \/ (m = n /\ words[n][2] \in which)
  <2>1. m \in 2..Len(words) /\ IsOption(words[m]) /\ words[m][2] \in which
    BY <1>2, OptionsAre
  <2>2. m # n + 1 \/ n2 = n + 1
    BY <1>1, <2>1
  <2>3. m < n \/ m = n
    BY <1>1, <1>2, <2>1, <2>2
  <2> QED BY <2>1, <2>3
<1>3. n < n2 /\ \A m \in 2..Len(words) : m < n => m < n2
  BY <1>1
<1>4. words[n][2] \in which => n \in Options(words, which, withArgs)
  BY <1>1, OptionsAre
<1>5. \A m \in Options(words, which, withArgs) : m \in 2..Len(words)
  BY OptionsAre
<1>6. ASSUME NEW m \in Seen(words, n2, which, withArgs)
      PROVE  m \in Seen(words, n, which, withArgs) \cup (IF words[n][2] \in which THEN {n} ELSE {})
  BY <1>2, <1>6 DEF Seen
<1>7. ASSUME NEW m \in Seen(words, n, which, withArgs) \cup (IF words[n][2] \in which THEN {n} ELSE {})
      PROVE  m \in Seen(words, n2, which, withArgs)
  BY <1>3, <1>4, <1>5, <1>7 DEF Seen
<1>8. Seen(words, n2, which, withArgs)
        = Seen(words, n, which, withArgs) \cup (IF words[n][2] \in which THEN {n} ELSE {})
  BY <1>6, <1>7
<1> QED BY <1>8 DEF n2

\* At their end all options have been seen.
LEMMA SeenAll ==
  ASSUME NEW words, WordsOK(words), NEW n \in Nat, NEW n2, NEW withArgs, OptionsOver(words, n, n2, withArgs), NEW which
  PROVE  Seen(words, n, which, withArgs) = Options(words, which, withArgs)
<1>1. ASSUME NEW m \in Options(words, which, withArgs) PROVE m < n
  <2>1. m \in 2..Len(words) /\ InOptions(words, m, withArgs)
    BY <1>1, OptionsAre
  <2>2. m \notin n..Len(words)
    BY <2>1 DEF OptionsOver
  <2> QED BY <2>1, <2>2 DEF WordsOK
<1> QED BY <1>1 DEF Seen

\* A known option more.
LEMMA KnownGrows ==
  ASSUME NEW words, WordsOK(words), NEW n, NEW o, NEW withArgs, OptionFound(words, n, o, withArgs),
         NEW which, Known(words, n, which), words[n][2] \in which
  PROVE  Known(words, o.OptIndex + 1, which)
<1> DEFINE n2 == o.OptIndex + 1
<1>1. n \in 2..Len(words) /\ Len(words) \in Nat
      /\ (n2 = n + 1 \/ (n2 = n + 2 /\ ~IsOption(words[n + 1])))
  BY DEF OptionFound, WordsOK
<1> HIDE DEF n2
<1>2. ASSUME NEW m \in 2..(n2 - 1), IsOption(words[m]) PROVE words[m][2] \in which
  <2>1. m \in 2..(n - 1) \/ m = n \/ (m = n + 1 /\ n2 = n + 2)
    BY <1>1
  <2> QED BY <2>1, <1>1, <1>2 DEF Known
<1>3. Known(words, n2, which)
  BY <1>2 DEF Known
<1> QED BY <1>3 DEF n2

\* At the end of the options all are known.
LEMMA KnownAll ==
  ASSUME NEW words, WordsOK(words), NEW n \in Nat, NEW n2, NEW withArgs, OptionsOver(words, n, n2, withArgs),
         NEW which, Known(words, n, which)
  PROVE  \A m \in 2..Len(words) : InOptions(words, m, withArgs) /\ IsOption(words[m]) => words[m][2] \in which
<1> SUFFICES ASSUME NEW m \in 2..Len(words), InOptions(words, m, withArgs), IsOption(words[m])
             PROVE  words[m][2] \in which
  OBVIOUS
<1>1. m \notin n..Len(words)
  BY DEF OptionsOver
<1>2. m \in 2..(n - 1)
  BY <1>1 DEF WordsOK
<1> QED BY <1>2 DEF Known

\* Where a line begins its first option.
LEMMA AtFirstOption ==
  ASSUME NEW words, WordsOK(words), NEW withArgs
  PROVE  /\ AtOption(words, 2, withArgs) /\ \A which : Seen(words, 2, which, withArgs) = {}
         /\ \A which : Known(words, 2, which)
<1>1. 2..(2 - 1) = {} /\ 2 \in 2..(Len(words) + 1)
  BY DEF WordsOK
<1>2. AtOption(words, 2, withArgs)
  BY <1>1 DEF AtOption, InOptions, IsArgument
<1>3. ASSUME NEW which, NEW m \in Seen(words, 2, which, withArgs) PROVE FALSE
  <2>1. m \in 2..Len(words) /\ m < 2
    BY <1>3 DEF Seen, Options
  <2> QED BY <2>1 DEF WordsOK
<1>4. \A which : Known(words, 2, which)
  BY <1>1 DEF Known
<1> QED BY <1>2, <1>3, <1>4

-----------------------------------------------------------------------------
(* When SetCon's usage is not followed.                                    *)

\* Where an option is found to be wrong, the line is not one of those allowed.
LEMMA WrongOption ==
  ASSUME NEW words, WordsOK(words), NEW n, NEW o, OptionFound(words, n, o, PathOptions), NEW fs,
         FlagsSeen(words, n, fs),
         \/ words[n][2] \notin PathOptions \cup {"A", "a"}
         \/ words[n][2] = "A" /\ {"Set", "Append"} \cap fs # {}
         \/ words[n][2] = "a" /\ {"Auto"} \cap fs # {}
         \/ words[n][2] \in PathOptions /\ ({"Set", "Auto"} \cap fs # {} \/ Argument(words, n) = Null)
  PROVE  ~SetConFits(words)
<1>1. n \in 2..Len(words) /\ IsOption(words[n]) /\ InOptions(words, n, PathOptions)
  BY DEF OptionFound
<1>2. \A which : words[n][2] \in which => n \in Given(words, which)
  BY <1>1, OptionsAre DEF Given
<1>3. \A which : \A m \in Seen(words, n, which, PathOptions) : m \in Given(words, which) /\ m # n
  BY <1>1 DEF Seen, Given, Options
<1>4. CASE words[n][2] \notin PathOptions \cup {"A", "a"}
  BY <1>1, <1>4, Zenon DEF SetConFits
<1>5. ASSUME words[n][2] \in PathOptions \cup {"A"}, "Set" \in fs \/ "Auto" \in fs PROVE ~SetConFits(words)
  <2>1. Seen(words, n, {"A"}, PathOptions) \subseteq Seen(words, n, PathOptions \cup {"A"}, PathOptions)
    BY DEF Seen, Options
  <2>2. PICK m \in Seen(words, n, PathOptions \cup {"A"}, PathOptions) : TRUE
    BY <1>5, <2>1 DEF FlagsSeen
  <2>3. m \in Given(words, PathOptions \cup {"A"}) /\ m # n /\ n \in Given(words, PathOptions \cup {"A"})
    BY <1>2, <1>3, <1>5, <2>2
  <2> QED BY <2>3 DEF SetConFits
<1>6. CASE words[n][2] = "A" /\ "Append" \in fs
  <2>1. n \in Given(words, {"A"}) /\ Given(words, {"a"}) # {}
    BY <1>2, <1>3, <1>6 DEF FlagsSeen
  <2> QED BY <2>1 DEF SetConFits
<1>7. CASE words[n][2] = "a" /\ "Auto" \in fs
  <2>1. n \in Given(words, {"a"}) /\ Given(words, {"A"}) # {}
    BY <1>2, <1>3, <1>7 DEF FlagsSeen
  <2> QED BY <2>1 DEF SetConFits
<1>8. CASE words[n][2] \in PathOptions /\ Argument(words, n) = Null
  <2>1. n \in Given(words, PathOptions)
    BY <1>2, <1>8
  <2> QED BY <2>1, <1>8 DEF SetConFits
<1> QED BY <1>4, <1>5, <1>6, <1>7, <1>8

\* What the user of a line of SetCon meant.
LEMMA SetConMeant ==
  ASSUME Typed, request.tool = "SetCon"
  PROVE  SetConMeans(argv, request) /\ request.var \in VarNames /\ IsSequence(request.path)
BY ShellRequests DEF Typed

\* A line that SetCon's usage does not allow asks for the usage.
LEMMA UsageMeant ==
  ASSUME Typed, request.tool = "SetCon", ~SetConFits(argv)
  PROVE  request.do = "usage"
BY SetConMeant DEF SetConMeans

\* An option that fits what has been seen before it.
LEMMA GoodAuto ==
  ASSUME NEW words, WordsOK(words), NEW n, NEW o, OptionFound(words, n, o, PathOptions), NEW fs, NEW p,
         SetConSoFar(words, n), FlagsSeen(words, n, fs), PathSeen(words, n, p),
         words[n][2] = "A", {"Set", "Append"} \cap fs = {}
  PROVE  /\ SetConSoFar(words, o.OptIndex + 1)
         /\ FlagsSeen(words, o.OptIndex + 1, fs \cup {"Auto", "Set"})
         /\ PathSeen(words, o.OptIndex + 1, p)
<1> DEFINE n2 == o.OptIndex + 1
           S(to, which) == Seen(words, to, which, PathOptions)
<1>1. \A which : S(n2, which) = S(n, which) \cup (IF "A" \in which THEN {n} ELSE {})
  BY SeenGrows
<1> HIDE DEF n2
<1>2. S(n, PathOptions \cup {"A"}) = {} /\ S(n, {"a"}) = {}
  BY DEF FlagsSeen
<1>3. "A" \notin PathOptions
  BY DEF PathOptions
<1>4. /\ S(n2, PathOptions \cup {"A"}) = {n} /\ S(n2, {"A"}) # {} /\ S(n2, {"a"}) = {}
      /\ S(n2, PathOptions) = S(n, PathOptions)
  BY <1>1, <1>2, <1>3
<1>5. Known(words, n2, PathOptions \cup {"A", "a"})
  BY KnownGrows DEF SetConSoFar, n2
<1>6. SetConSoFar(words, n2)
  BY <1>4, <1>5 DEF SetConSoFar
<1>7. FlagsSeen(words, n2, fs \cup {"Auto", "Set"})
  BY <1>4 DEF FlagsSeen
<1>8. PathSeen(words, n2, p)
  BY <1>4 DEF PathSeen
<1> QED BY <1>6, <1>7, <1>8 DEF n2

\* Option -a, where it is allowed.
LEMMA GoodAppend ==
  ASSUME NEW words, WordsOK(words), NEW n, NEW o, OptionFound(words, n, o, PathOptions), NEW fs, NEW p,
         SetConSoFar(words, n), FlagsSeen(words, n, fs), PathSeen(words, n, p),
         words[n][2] = "a", {"Auto"} \cap fs = {}
  PROVE  /\ SetConSoFar(words, o.OptIndex + 1)
         /\ FlagsSeen(words, o.OptIndex + 1, fs \cup {"Append"})
         /\ PathSeen(words, o.OptIndex + 1, p)
<1> DEFINE n2 == o.OptIndex + 1
           S(to, which) == Seen(words, to, which, PathOptions)
<1>1. \A which : S(n2, which) = S(n, which) \cup (IF "a" \in which THEN {n} ELSE {})
  BY SeenGrows
<1> HIDE DEF n2
<1>2. S(n, {"A"}) = {}
  BY DEF FlagsSeen
<1>3. "a" \notin PathOptions \cup {"A"}
  BY DEF PathOptions
<1>4. /\ S(n2, PathOptions \cup {"A"}) = S(n, PathOptions \cup {"A"}) /\ S(n2, {"A"}) = S(n, {"A"})
      /\ S(n2, {"a"}) # {} /\ S(n2, PathOptions) = S(n, PathOptions)
  BY <1>1, <1>3
<1>5. Known(words, n2, PathOptions \cup {"A", "a"})
  BY KnownGrows DEF SetConSoFar, n2
<1>6. SetConSoFar(words, n2)
  BY <1>2, <1>4, <1>5 DEF SetConSoFar
<1>7. FlagsSeen(words, n2, fs \cup {"Append"})
  BY <1>4 DEF FlagsSeen
<1>8. PathSeen(words, n2, p)
  BY <1>4 DEF PathSeen
<1> QED BY <1>6, <1>7, <1>8 DEF n2

\* Options -p, -h and -i, where they are allowed.
LEMMA GoodPath ==
  ASSUME NEW words, WordsOK(words), NEW n, NEW o, OptionFound(words, n, o, PathOptions), NEW fs, NEW p,
         SetConSoFar(words, n), FlagsSeen(words, n, fs),
         words[n][2] \in PathOptions, {"Set", "Auto"} \cap fs = {}, Argument(words, n) # Null,
         p = PathMeant(words, n) \/ (p = Null /\ Fails("memory"))
  PROVE  /\ SetConSoFar(words, o.OptIndex + 1)
         /\ FlagsSeen(words, o.OptIndex + 1, fs \cup {"Set"})
         /\ PathSeen(words, o.OptIndex + 1, p)
<1> DEFINE n2 == o.OptIndex + 1
           S(to, which) == Seen(words, to, which, PathOptions)
<1>1. \A which : S(n2, which) = S(n, which) \cup (IF words[n][2] \in which THEN {n} ELSE {})
  BY SeenGrows
<1> HIDE DEF n2
<1>2. S(n, PathOptions \cup {"A"}) = {} /\ S(n, {"A"}) = {}
  BY DEF FlagsSeen
<1>3. words[n][2] \notin {"A", "a"}
  BY DEF PathOptions
<1>a. S(n, PathOptions) = {}
  <2>1. S(n, PathOptions) \subseteq S(n, PathOptions \cup {"A"})
    BY DEF Seen, Options
  <2> QED BY <2>1, <1>2
<1>4. /\ S(n2, PathOptions \cup {"A"}) = {n} /\ S(n2, {"A"}) = {} /\ S(n2, PathOptions) = {n}
      /\ S(n2, {"a"}) = S(n, {"a"})
  BY <1>1, <1>2, <1>3, <1>a
<1>5. Known(words, n2, PathOptions \cup {"A", "a"})
  <2>1. words[n][2] \in PathOptions \cup {"A", "a"}
    OBVIOUS
  <2> QED BY <2>1, KnownGrows DEF SetConSoFar, n2
<1>6. SetConSoFar(words, n2)
  BY <1>4, <1>5 DEF SetConSoFar
<1>7. FlagsSeen(words, n2, fs \cup {"Set"})
  BY <1>4 DEF FlagsSeen
<1>8. PathSeen(words, n2, p)
  BY <1>4 DEF PathSeen
<1> QED BY <1>6, <1>7, <1>8 DEF n2

\* The first operand.
LEMMA FirstOfInterval ==
  ASSUME NEW a \in Nat, NEW b \in Nat, a <= b
  PROVE  First(a..b) = a
<1> DEFINE P(x) == x \in a..b /\ \A c \in a..b : x <= c
<1>1. P(a) /\ \A x : P(x) => x = a
  OBVIOUS
<1>2. (CHOOSE x \in a..b : \A c \in a..b : x <= c) = a
  BY <1>1
<1> QED BY <1>2 DEF First

\* Tool and user agree at the end of the options.
LEMMA AgreeAtEnd ==
  ASSUME Typed, request.tool = "SetCon", NEW n \in Nat, NEW n2, OptionsOver(argv, n, n2, PathOptions),
         SetConSoFar(argv, n), FlagsSeen(argv, n, flags), PathSeen(argv, n, path), n2 <= Len(argv)
  PROVE  /\ argv[n2][1] = request.var
         /\ request.do \in {"show", "auto", "set", "append"}
         /\ ("Set" \in flags) <=> request.do # "show"
         /\ ("Auto" \in flags) <=> request.do = "auto"
         /\ request.do # "show" => (("Append" \in flags) <=> request.do = "append")
         /\ PathTold
<1>0. WordsOK(argv)
  BY WordsAssumed
<1>1. n2 \in 2..Len(argv) /\ Operands(argv, PathOptions) = n2..Len(argv) /\ Len(argv) \in Nat
  BY <1>0 DEF OptionsOver, WordsOK
<1>2. \A which : Seen(argv, n, which, PathOptions) = Given(argv, which)
  BY <1>0, SeenAll DEF Given
<1>3. SetConFits(argv)
  <2>1. \A m \in 2..Len(argv) : InOptions(argv, m, PathOptions) /\ IsOption(argv[m]) =>
          argv[m][2] \in PathOptions \cup {"A", "a"}
    BY <1>0, KnownAll DEF SetConSoFar
  <2>2. Operands(argv, PathOptions) # {}
    BY <1>1
  <2>3. \A m, l \in Given(argv, PathOptions \cup {"A"}) : m = l
    BY <1>2 DEF SetConSoFar
  <2>4. Given(argv, {"A"}) = {} \/ Given(argv, {"a"}) = {}
    BY <1>2 DEF SetConSoFar
  <2>5. \A m \in Given(argv, PathOptions) : Argument(argv, m) # Null
    BY <1>2 DEF SetConSoFar
  <2> QED BY <2>1, <2>2, <2>3, <2>4, <2>5 DEF SetConFits
<1>4. First(Operands(argv, PathOptions)) = n2
  BY <1>1, FirstOfInterval
<1> DEFINE A == Given(argv, {"A"})
           a == Given(argv, {"a"})
           P == Given(argv, PathOptions)
           PA == Given(argv, PathOptions \cup {"A"})
<1>5. /\ request.do = IF A # {} THEN "auto" ELSE IF P = {} THEN "show" ELSE IF a = {} THEN "set" ELSE "append"
      /\ \A m \in P : request.path = PathMeant(argv, m)
      /\ request.var = argv[n2][1]
  BY <1>3, <1>4, SetConMeant DEF SetConMeans
<1>6. PA = P \cup A
  BY DEF Given, Options
<1>7. A # {} => P = {}
  <2>1. ASSUME NEW m \in A, NEW l \in P PROVE FALSE
    <3>1. m = l
      BY <1>3, <1>6 DEF SetConFits
    <3>2. argv[m][2] = "A" /\ argv[l][2] \in PathOptions
      BY OptionsAre DEF Given
    <3> QED BY <3>1, <3>2 DEF PathOptions
  <2> QED BY <2>1
<1>8. A = {} \/ a = {}
  BY <1>3 DEF SetConFits
<1>9. /\ ("Set" \in flags) <=> PA # {}
      /\ ("Auto" \in flags) <=> A # {}
      /\ ("Append" \in flags) <=> a # {}
      /\ P = {} => path = Null
      /\ \A m \in P : path = PathMeant(argv, m) \/ (path = Null /\ Fails("memory"))
  BY <1>2 DEF FlagsSeen, PathSeen
<1> HIDE DEF A, a, P, PA
<1>10. PathTold
  <2>1. CASE request.do \in {"set", "append"}
    <3>1. PICK m \in P : TRUE
      BY <2>1, <1>5
    <3>2. path = request.path \/ (path = Null /\ Fails("memory"))
      BY <3>1, <1>5, <1>9
    <3> QED BY <2>1, <3>2 DEF PathTold
  <2>2. CASE request.do \notin {"set", "append"}
    <3>1. P = {}
      BY <2>2, <1>5, <1>7
    <3> QED BY <2>2, <3>1, <1>9 DEF PathTold
  <2> QED BY <2>1, <2>2
<1>11. request.do \in {"show", "auto", "set", "append"}
  BY <1>5
<1>12. (PA # {}) <=> request.do # "show"
  BY <1>5, <1>6
<1>13. (A # {}) <=> request.do = "auto"
  BY <1>5
<1>14. request.do # "show" => ((a # {}) <=> request.do = "append")
  BY <1>5, <1>7, <1>8
<1> QED BY <1>5, <1>9, <1>10, <1>11, <1>12, <1>13, <1>14

\* Without a variable name the line asks for the usage.
LEMMA NoOperand ==
  ASSUME Typed, request.tool = "SetCon", NEW n, NEW n2, OptionsOver(argv, n, n2, PathOptions), ~(n2 <= Len(argv))
  PROVE  request.do = "usage"
<1>1. n2..Len(argv) = {}
  BY WordsAssumed DEF OptionsOver, WordsOK
<1> QED BY <1>1, UsageMeant DEF OptionsOver, SetConFits

-----------------------------------------------------------------------------
(* SetCon's steps.                                                         *)

Frame == UNCHANGED <<request, before, mayFail>>

\* What is asked of SetCon, by request.
LEMMA AskedCases ==
  /\ before = Null \/ request.do \in {"show", "usage"} => Asked = before
  /\ before # Null /\ request.do = "auto" =>
       Asked = IF IsConsole(request.var) /\ FlattenSeq(ConsolePaths) # Null THEN FlattenSeq(ConsolePaths) ELSE before
  /\ before # Null /\ request.do = "set" => Asked = IF request.path # Null THEN request.path ELSE before
  /\ before # Null /\ request.do = "append" =>
       Asked = IF request.path # Null THEN Existing \o request.path ELSE before
<1>1. IsConsole(request.var) <=> ForConsoles
  BY DEF IsConsole, ForConsoles
<1>2. CASE before = Null
  BY <1>2 DEF Asked
<1>3. CASE before # Null
  <2>1. CASE request.do \in {"show", "usage"}
    BY <1>3, <2>1 DEF Asked
  <2>2. CASE request.do = "auto"
    BY <1>1, <1>3, <2>2 DEF Asked
  <2>3. CASE request.do = "set"
    BY <1>3, <2>3 DEF Asked
  <2>4. CASE request.do = "append"
    BY <1>3, <2>4 DEF Asked
  <2> QED BY <1>3, <2>1, <2>2, <2>3, <2>4
<1> QED BY <1>2, <1>3

\* What is asked for does not change.
LEMMA AskedStays ==
  ASSUME Frame PROVE Asked' = Asked /\ Existing' = Existing
BY DEF Frame, Asked, Existing, ForConsoles

\* The variable is left alone, as asked or after a failure.
LEMMA LeftAlone ==
  ASSUME Typed, request.tool = "SetCon", Frame, AsBefore, UNCHANGED variable, Asked = before \/ mayFail # {}
  PROVE  Outcome'
<1>1. request.var \in VarNames
  BY SetConMeant
<1>2. variable[request.var] = before /\ \A v \in VarNames \ {request.var} : variable[v] = <<"other">>
  BY <1>1 DEF AsBefore
<1>3. DOMAIN variable = VarNames
  BY DEF AsBefore
<1>4. Asked' = Asked /\ request' = request /\ mayFail' = mayFail /\ before' = before
  BY AskedStays DEF Frame
<1> QED BY <1>2, <1>3, <1>4 DEF Outcome

\* A step that does not write leaves the variable as before.
LEMMA AsBeforeStays ==
  ASSUME Frame, AsBefore, UNCHANGED variable PROVE AsBefore'
BY DEF Frame, AsBefore

\* No device path is the empty sequence.
LEMMA NullIsSequence == IsSequence(Null)
<1>1. Len(<<>>) = 0 /\ 1..0 = {}
  OBVIOUS
<1>2. <<>> = [n \in 1..Len(<<>>) |-> <<>>[n]]
  BY <1>1
<1> QED BY <1>1, <1>2 DEF IsSequence, Null

\* Usage, or a path that cannot be made: the tool ends inside its options.
LEMMA EndsInOptions ==
  ASSUME Typed, request.tool = "SetCon", SetConInv, Frame, pc = "options",
         pc' = "done", OptShape(opt)', UNCHANGED <<heap, badFree, variable, flags, path, current>>,
         \/ request.do = "usage"
         \/ path = Null /\ (Asked = before \/ Fails("memory"))
  PROVE  SetConInv'
<1>1. AsBefore /\ current = Null /\ heap = PartOf(path, "path") \cup PartOf(current, "current")
      /\ (badFree => Fails("memory")) /\ IsSequence(current)
  BY DEF SetConInv, SetConAt, SetConHeap
<1>2. Asked = before \/ mayFail # {}
  BY AskedCases DEF Fails
<1>3. Outcome'
  BY <1>1, <1>2, LeftAlone
<1>4. heap \subseteq IF request.do = "usage" THEN {"path"} ELSE {}
  BY <1>1 DEF PartOf
<1>5. SetConAt'
  BY <1>3 DEF SetConAt
<1>6. SetConHeap'
  BY <1>1, <1>4 DEF SetConHeap, Frame, Fails
<1> QED BY <1>1, <1>5, <1>6 DEF SetConInv, SetConPcs

\* More options to come.
LEMMA GoesOnInOptions ==
  ASSUME Typed, request.tool = "SetCon", SetConInv, Frame, pc = "options",
         pc' = "options", OptShape(opt)', UNCHANGED <<argv, variable, current>>,
         AtOption(argv, NextWord', PathOptions), SetConSoFar(argv, NextWord'), FlagsSeen(argv, NextWord', flags'),
         PathSeen(argv, NextWord', path'), heap' = PartOf(path', "path"), badFree' => badFree
  PROVE  SetConInv'
<1>1. AsBefore /\ current = Null /\ (badFree => Fails("memory")) /\ IsSequence(current)
  BY DEF SetConInv, SetConAt, SetConHeap
<1>2. AsBefore'
  BY <1>1, AsBeforeStays
<1>a. PathSeen(argv, NextWord, path)'
  BY DEF PathSeen, Frame, Fails
<1>3. SetConOptions'
  BY <1>a DEF SetConOptions
<1>4. SetConAt'
  BY <1>1, <1>2, <1>3 DEF SetConAt
<1>5. SetConHeap'
  BY <1>1 DEF SetConHeap, Frame, Fails, PartOf
<1> QED BY <1>1, <1>4, <1>5 DEF SetConInv, SetConPcs

\* GetShellArgcArgv.
LEMMA SetConStarts ==
  ASSUME Typed, request.tool = "SetCon", SetConInv, GetShellArgcArgv("options"), UNCHANGED setConVars, Frame
  PROVE  SetConInv'
<1>1. /\ pc = "start" /\ UNCHANGED <<heap, badFree, argv, opt, variable, flags, path, current>>
      /\ pc' = "options" \/ (Fails("shell") /\ pc' = "done")
  BY DEF GetShellArgcArgv, setConVars, Keep, Goto
<1>2. AsBefore /\ current = Null /\ path = Null /\ opt = InitGetOpt /\ flags = {} /\ heap = {}
      /\ (badFree => Fails("memory")) /\ OptShape(opt) /\ IsSequence(current)
  BY <1>1 DEF SetConInv, SetConAt, SetConHeap, PartOf
<1>3. CASE pc' = "options"
  <2>a. opt.OptIndex = 1 /\ opt' = opt
    BY <1>1, <1>2 DEF InitGetOpt
  <2>1. NextWord = 2 /\ NextWord' = 2
    BY <2>a DEF NextWord
  <2>2. AtOption(argv, 2, PathOptions) /\ (\A which : Seen(argv, 2, which, PathOptions) = {})
        /\ \A which : Known(argv, 2, which)
    BY WordsAssumed, AtFirstOption
  <2>3. SetConSoFar(argv, 2) /\ FlagsSeen(argv, 2, flags) /\ PathSeen(argv, 2, path)
    BY <1>2, <2>2 DEF SetConSoFar, FlagsSeen, PathSeen
  <2>4. SetConOptions'
    BY <1>1, <2>1, <2>2, <2>3 DEF SetConOptions, PathSeen, Fails, Frame
  <2>5. SetConAt'
    BY <1>1, <1>2, <1>3, <2>4, AsBeforeStays DEF SetConAt
  <2>6. SetConHeap'
    BY <1>1, <1>2, <1>3 DEF SetConHeap, PartOf, Fails, Frame
  <2> QED BY <1>1, <1>2, <1>3, <2>5, <2>6 DEF SetConInv, SetConPcs
<1>4. CASE pc' = "done" /\ Fails("shell")
  <2>1. Outcome'
    BY <1>1, <1>2, <1>4, LeftAlone DEF Fails
  <2>2. SetConAt'
    BY <1>4, <2>1 DEF SetConAt
  <2>3. SetConHeap'
    BY <1>1, <1>2, <1>4 DEF SetConHeap, Fails, Frame
  <2> QED BY <1>1, <1>2, <1>4, <2>2, <2>3 DEF SetConInv, SetConPcs
<1> QED BY <1>1, <1>3, <1>4

\* The option loop at -A and -a.
LEMMA SetConFlag ==
  ASSUME Typed, request.tool = "SetCon", SetConInv, Frame, pc = "options", UNCHANGED argv,
         GetOpt(PathOptions).found, opt' = GetOpt(PathOptions).next,
         NEW conflicts, NEW new, TakesFlag(conflicts, new),
         \/ opt'.Opt = "A" /\ conflicts = {"Set", "Append"} /\ new = {"Auto", "Set"}
         \/ opt'.Opt = "a" /\ conflicts = {"Auto"} /\ new = {"Append"}
  PROVE  SetConInv'
<1>1. WordsOK(argv) /\ OptShape(opt) /\ SetConOptions /\ current = Null /\ heap = PartOf(path, "path")
  BY WordsAssumed DEF SetConInv, SetConAt, SetConHeap, PartOf
<1>2. OptShape(opt)' /\ OptionFound(argv, NextWord, opt', PathOptions)
  BY <1>1, GetOptFound DEF SetConOptions, OptShape
<1>3. opt'.Opt = argv[NextWord][2] /\ NextWord' = opt'.OptIndex + 1 /\ AtOption(argv, NextWord', PathOptions)
  BY <1>2 DEF OptionFound, NextWord
<1>4. SetConSoFar(argv, NextWord) /\ FlagsSeen(argv, NextWord, flags) /\ PathSeen(argv, NextWord, path)
  BY <1>1 DEF SetConOptions
<1>5. CASE conflicts \cap flags # {}
  <2>1. pc' = "done" /\ UNCHANGED <<heap, badFree, variable, flags, path, current>>
    BY <1>5 DEF TakesFlag, Usage, Goto, Keep, setConVars
  <2>2. ~SetConFits(argv)
    BY <1>1, <1>2, <1>3, <1>4, <1>5, WrongOption
  <2>3. request.do = "usage"
    BY <2>2, UsageMeant
  <2> QED BY <1>2, <2>1, <2>3, EndsInOptions
<1>6. CASE conflicts \cap flags = {}
  <2>1. pc' = "options" /\ flags' = flags \cup new /\ UNCHANGED <<heap, badFree, variable, path, current>>
    BY <1>6 DEF TakesFlag, Goto, Keep
  <2>2. SetConSoFar(argv, NextWord') /\ FlagsSeen(argv, NextWord', flags') /\ PathSeen(argv, NextWord', path')
    <3>1. CASE opt'.Opt = "A" /\ conflicts = {"Set", "Append"} /\ new = {"Auto", "Set"}
      BY <1>1, <1>2, <1>3, <1>4, <1>6, <2>1, <3>1, GoodAuto
    <3>2. CASE opt'.Opt = "a" /\ conflicts = {"Auto"} /\ new = {"Append"}
      BY <1>1, <1>2, <1>3, <1>4, <1>6, <2>1, <3>2, GoodAppend
    <3> QED BY <3>1, <3>2
  <2> QED BY <1>1, <1>2, <1>3, <2>1, <2>2, GoesOnInOptions
<1> QED BY <1>5, <1>6

\* The option loop at -p, -h and -i.
LEMMA SetConPath ==
  ASSUME Typed, request.tool = "SetCon", SetConInv, Frame, pc = "options", UNCHANGED argv,
         GetOpt(PathOptions).found, opt' = GetOpt(PathOptions).next,
         NEW from, TakesPath(from),
         \/ opt'.Opt = "p" /\ from = TextPath
         \/ opt'.Opt \in {"h", "i"} /\ from = HandlePath
  PROVE  SetConInv'
<1>1. WordsOK(argv) /\ OptShape(opt) /\ SetConOptions /\ current = Null /\ heap = PartOf(path, "path")
  BY WordsAssumed DEF SetConInv, SetConAt, SetConHeap, PartOf
<1>2. OptShape(opt)' /\ OptionFound(argv, NextWord, opt', PathOptions)
  BY <1>1, GetOptFound DEF SetConOptions, OptShape
<1>3. opt'.Opt = argv[NextWord][2] /\ NextWord' = opt'.OptIndex + 1 /\ AtOption(argv, NextWord', PathOptions)
  BY <1>2 DEF OptionFound, NextWord
<1>4. SetConSoFar(argv, NextWord) /\ FlagsSeen(argv, NextWord, flags) /\ PathSeen(argv, NextWord, path)
  BY <1>1 DEF SetConOptions
<1>5. argv[NextWord][2] \in PathOptions /\ opt'.OptArg = Argument(argv, NextWord)
  BY <1>2, <1>3 DEF OptionFound, PathOptions
<1>6. CASE opt'.OptArg = Null \/ {"Set", "Auto"} \cap flags # {}
  <2>1. pc' = "done" /\ UNCHANGED <<heap, badFree, variable, flags, path, current>>
    BY <1>6 DEF TakesPath, Usage, Goto, Keep, setConVars
  <2>2. ~SetConFits(argv)
    BY <1>1, <1>2, <1>4, <1>5, <1>6, WrongOption
  <2>3. request.do = "usage"
    BY <2>2, UsageMeant
  <2> QED BY <1>2, <2>1, <2>3, EndsInOptions
<1>7. CASE ~(opt'.OptArg = Null \/ {"Set", "Auto"} \cap flags # {})
  <2>1. PICK p \in {from[opt'.OptArg[1]]} \cup (IF Fails("memory") THEN {Null} ELSE {}) :
          /\ IF p = Null /\ opt'.Opt # "p"
             THEN Goto("done") /\ Keep /\ UNCHANGED <<flags, path>>
             ELSE /\ path' = p /\ flags' = flags \cup {"Set"}
                  /\ Allocated(IF p = Null THEN {} ELSE {"path"}, {})
                  /\ Goto("options")
          /\ UNCHANGED <<variable, current, index>>
    BY <1>7 DEF TakesPath
  <2>2. from[opt'.OptArg[1]] = PathMeant(argv, NextWord)
    <3>1. "h" # "p" /\ "i" # "p"
      OBVIOUS
    <3> QED BY <1>3, <1>5, <3>1 DEF PathMeant
  <2>3. p = PathMeant(argv, NextWord) \/ (p = Null /\ Fails("memory"))
    BY <2>1, <2>2
  <2>4. path = Null
    <3>1. Seen(argv, NextWord, PathOptions, PathOptions) \subseteq Seen(argv, NextWord, PathOptions \cup {"A"}, PathOptions)
      BY DEF Seen, Options
    <3>2. Seen(argv, NextWord, PathOptions, PathOptions) = {}
      BY <3>1, <1>4, <1>7 DEF FlagsSeen
    <3> QED BY <3>2, <1>4 DEF PathSeen
  <2>5. CASE p = Null /\ opt'.Opt # "p"
    <3>1. pc' = "done" /\ UNCHANGED <<heap, badFree, variable, flags, path, current>>
      BY <2>1, <2>5 DEF Goto, Keep
    <3>2. request.do = "usage" \/ Asked = before \/ Fails("memory")
      <4>1. SUFFICES ASSUME PathMeant(argv, NextWord) = Null, request.do # "usage" PROVE Asked = before
        BY <2>3, <2>5
      <4>2. SetConFits(argv)
        BY <4>1, UsageMeant
      <4>3. NextWord \in Given(argv, PathOptions)
        BY <1>2, <1>5 DEF OptionFound, Given, Options
      <4>4. request.path = Null
        BY <4>1, <4>2, <4>3, SetConMeant DEF SetConMeans
      <4>5. request.do \in {"set", "append", "auto", "show"} /\ request.do # "show"
        BY <4>2, <4>3, SetConMeant DEF SetConMeans
      <4>6. request.do # "auto"
        <5>1. SUFFICES ASSUME request.do = "auto" PROVE FALSE
          OBVIOUS
        <5>2. PICK m \in Given(argv, {"A"}) : TRUE
          BY <4>2, <5>1, SetConMeant DEF SetConMeans
        <5>3. m \in Given(argv, PathOptions \cup {"A"}) /\ NextWord \in Given(argv, PathOptions \cup {"A"})
          BY <4>3 DEF Given, Options
        <5>4. m = NextWord /\ argv[m][2] = "A"
          BY <4>2, <5>2, <5>3 DEF SetConFits, Given, Options
        <5> QED BY <5>4, <1>5 DEF PathOptions
      <4> QED BY <4>4, <4>5, <4>6, AskedCases
    <3> QED BY <1>2, <2>4, <3>1, <3>2, EndsInOptions
  <2>6. CASE ~(p = Null /\ opt'.Opt # "p")
    <3>1. path' = p /\ flags' = flags \cup {"Set"} /\ pc' = "options" /\ UNCHANGED <<variable, current>>
          /\ Allocated(IF p = Null THEN {} ELSE {"path"}, {})
      BY <2>1, <2>6 DEF Goto
    <3>2. heap' = PartOf(path', "path") /\ (badFree' => badFree)
      <4>1. heap = {}
        BY <1>1, <2>4 DEF PartOf
      <4>2. badFree' => badFree
        BY <3>1 DEF Allocated
      <4>3. heap' = PartOf(path', "path")
        BY <3>1, <4>1 DEF Allocated, PartOf
      <4> QED BY <4>2, <4>3
    <3>3. SetConSoFar(argv, NextWord') /\ FlagsSeen(argv, NextWord', flags') /\ PathSeen(argv, NextWord', path')
      BY <1>1, <1>2, <1>3, <1>4, <1>5, <1>7, <2>3, <3>1, GoodPath
    <3> QED BY <1>1, <1>2, <1>3, <3>1, <3>2, <3>3, GoesOnInOptions
  <2> QED BY <2>5, <2>6
<1> QED BY <1>6, <1>7

-----------------------------------------------------------------------------
(* The paths of the console handles.                                       *)

\* Every set of numbers with an element has a least one.
LEMMA LeastElement ==
  ASSUME NEW S \in SUBSET Nat, S # {}
  PROVE  \E n \in S : \A m \in S : n <= m
<1>1. \E x \in S : \A y \in S : ~(<<y, x>> \in OpToRel(<, Nat))
  BY NatLessThanWellFounded, WFMin
<1>2. PICK x \in S : \A y \in S : ~(<<y, x>> \in OpToRel(<, Nat))
  BY <1>1
<1>3. \A y \in S : ~(y < x)
  BY <1>2 DEF OpToRel
<1> QED
  BY <1>3

\* Flattening is defined for each number of handles.
LEMMA FlatExists ==
  ASSUME NEW N \in Nat
  PROVE  \E f : FlatIs(f, N)
<1> DEFINE S == {n \in Nat : ~\E f : FlatIs(f, n)}
<1>1. SUFFICES ASSUME S # {} PROVE FALSE
  OBVIOUS
<1>2. PICK n \in S : \A m \in S : n <= m
  BY <1>1, LeastElement
<1>3. CASE n = 0
  <2>1. FlatIs(<<>>, 0)
    BY DEF FlatIs
  <2> QED BY <1>2, <1>3, <2>1
<1>4. CASE n # 0
  <2>1. n - 1 \in Nat /\ ~(n <= n - 1)
    BY <1>2, <1>4
  <2>2. PICK f : FlatIs(f, n - 1)
    BY <1>2, <2>1
  <2> DEFINE last == IF n = 1 THEN ConsolePaths[n] ELSE f[n - 1] \o ConsolePaths[n]
             g == [i \in 1..n |-> IF i = n THEN last ELSE f[i]]
  <2>3. ASSUME NEW i \in 1..n
        PROVE  g[i] = IF i = 1 THEN ConsolePaths[i] ELSE g[i - 1] \o ConsolePaths[i]
    <3>1. CASE i = n
      <4>1. i # 1 => g[i - 1] = f[i - 1]
        BY <3>1, <1>2
      <4> QED BY <3>1, <4>1
    <3>2. CASE i # n
      <4>1. i \in 1..(n - 1)
        BY <3>2, <1>2
      <4>2. f[i] = IF i = 1 THEN ConsolePaths[i] ELSE f[i - 1] \o ConsolePaths[i]
        BY <2>2, <4>1 DEF FlatIs
      <4>3. i # 1 => i - 1 \in 1..n /\ i - 1 # n
        BY <4>1, <1>2
      <4> QED BY <3>2, <4>2, <4>3
    <3> QED BY <3>1, <3>2
  <2>4. DOMAIN g = 1..n
    OBVIOUS
  <2> HIDE DEF g
  <2>5. g = [i \in 1..n |-> g[i]]
    BY <2>4 DEF g
  <2>6. FlatIs(g, n)
    BY <2>3, <2>5 DEF FlatIs
  <2> QED BY <2>6, <1>2
<1> QED BY <1>3, <1>4

\* The paths of the first handles in one: there is one such function.
LEMMA FlatUnique ==
  ASSUME NEW N \in Nat, NEW f, FlatIs(f, N), NEW g, FlatIs(g, N), NEW n \in 1..N
  PROVE  f[n] = g[n]
<1> DEFINE S == {i \in 1..N : f[i] # g[i]}
<1>1. SUFFICES ASSUME S # {} PROVE FALSE
  OBVIOUS
<1>2. PICK i \in S : \A m \in S : i <= m
  <2>1. S \in SUBSET Nat
    OBVIOUS
  <2> QED BY <1>1, <2>1, LeastElement
<1>3. /\ f[i] = IF i = 1 THEN ConsolePaths[i] ELSE f[i - 1] \o ConsolePaths[i]
      /\ g[i] = IF i = 1 THEN ConsolePaths[i] ELSE g[i - 1] \o ConsolePaths[i]
  BY <1>2 DEF FlatIs
<1>4. i # 1 => i - 1 \in 1..N /\ ~(i <= i - 1)
  BY <1>2
<1>5. i # 1 => f[i - 1] = g[i - 1]
  BY <1>2, <1>4
<1> QED BY <1>2, <1>3, <1>5

\* What is built from all handles is what flattening their paths gives.
LEMMA BuiltPaths ==
  /\ Built(1) = Null
  /\ \A n \in 1..Len(ConsolePaths) :
       Built(n + 1) = IF n = 1 THEN ConsolePaths[n] ELSE Built(n) \o ConsolePaths[n]
  /\ Built(Len(ConsolePaths) + 1) = FlattenSeq(ConsolePaths)
<1> DEFINE N == Len(ConsolePaths)
<1>1. N \in Nat /\ IsSequence(ConsolePaths)
  BY SetConAssumption DEF IsSequence
<1>2. FlatIs(Flat, N)
  <2>1. Flat = CHOOSE f : FlatIs(f, N)
    BY DEF Flat, FlatIs
  <2> QED BY <2>1, <1>1, FlatExists
<1>3. ASSUME NEW n \in 1..N
      PROVE  Built(n + 1) = IF n = 1 THEN ConsolePaths[n] ELSE Built(n) \o ConsolePaths[n]
  <2>1. Flat[n] = IF n = 1 THEN ConsolePaths[n] ELSE Flat[n - 1] \o ConsolePaths[n]
    BY <1>2 DEF FlatIs
  <2>2. n + 1 # 1 /\ n + 1 - 1 = n
    BY <1>1
  <2> QED BY <2>1, <2>2 DEF Built
<1>4. Built(N + 1) = FlattenSeq(ConsolePaths)
  <2>1. CASE N = 0
    <3>1. ConsolePaths = Null
      <4>1. ConsolePaths = [n \in 1..0 |-> ConsolePaths[n]]
        BY <1>1, <2>1 DEF IsSequence
      <4>2. 1..0 = {}
        OBVIOUS
      <4> QED BY <4>1, <4>2 DEF Null
    <3>2. FlattenSeq(ConsolePaths) = ConsolePaths
      BY <2>1 DEF FlattenSeq
    <3> QED BY <2>1, <3>1, <3>2 DEF Built
  <2>2. CASE N # 0
    <3>1. FlattenSeq(ConsolePaths) = (CHOOSE f : FlatIs(f, N))[N]
      BY <2>2 DEF FlattenSeq, FlatIs
    <3>2. FlatIs(CHOOSE f : FlatIs(f, N), N)
      BY <1>1, FlatExists
    <3>3. N \in 1..N /\ N + 1 # 1 /\ N + 1 - 1 = N
      BY <1>1, <2>2
    <3>4. (CHOOSE f : FlatIs(f, N))[N] = Flat[N]
      BY <1>1, <1>2, <3>2, <3>3, FlatUnique
    <3> QED BY <3>1, <3>3, <3>4 DEF Built
  <2> QED BY <2>1, <2>2
<1> QED BY <1>3, <1>4 DEF Built

\* Sequences put together are a sequence, and empty only if both are.
LEMMA Joined ==
  ASSUME NEW s, IsSequence(s), NEW t, IsSequence(t)
  PROVE  IsSequence(s \o t) /\ (s \o t = Null <=> s = Null /\ t = Null) /\ Null \o t = t /\ s \o Null = s
<1> DEFINE A == {s[n] : n \in 1..Len(s)} \cup {t[n] : n \in 1..Len(t)}
<1>1. s \in Seq(A) /\ t \in Seq(A)
  <2>1. ASSUME NEW u, IsSequence(u), \A n \in 1..Len(u) : u[n] \in A PROVE u \in Seq(A)
    <3>1. Len(u) \in Nat /\ u \in [1..Len(u) -> A]
      BY <2>1 DEF IsSequence
    <3> QED BY <3>1, SeqDef
  <2> QED BY <2>1
<1> HIDE DEF A
<1>2. s \o t \in Seq(A) /\ Len(s \o t) = Len(s) + Len(t) /\ Len(s) \in Nat /\ Len(t) \in Nat
  BY <1>1, ConcatProperties, LenProperties
<1>3. IsSequence(s \o t)
  BY <1>2, LenProperties DEF IsSequence
<1>4. \A u \in Seq(A) : u = Null <=> Len(u) = 0
  BY EmptySeq DEF Null
<1>5. Null \o t = t /\ s \o Null = s
  BY <1>1, ConcatEmptySeq DEF Null
<1> QED BY <1>1, <1>2, <1>3, <1>4, <1>5

-----------------------------------------------------------------------------
(* SetCon's steps after the options.                                       *)

AfterOptions == {"read", "decide", "print", "append", "auto", "build", "write"}

\* What tool and user agree on stays agreed on.
LEMMA AgreesStays ==
  ASSUME SetConAgrees, Frame, UNCHANGED <<argv, opt, flags>>
  PROVE  SetConAgrees'
BY DEF SetConAgrees, Frame, VarName, Argv

\* So does the path.
LEMMA ToldStays ==
  ASSUME PathTold, Frame, UNCHANGED path
  PROVE  PathTold'
BY DEF PathTold, Frame, Fails

\* One round of the option loop.
LEMMA SetConOptionKeeps ==
  ASSUME Typed, request.tool = "SetCon", SetConInv, Frame, SetConOption
  PROVE  SetConInv'
<1>1. pc = "options" /\ UNCHANGED argv /\ opt' = GetOpt(PathOptions).next
  BY DEF SetConOption, PathOptions
<1> DEFINE found == GetOpt(PathOptions).found
<1>2. \/ /\ ~found /\ Goto(IF Argc - opt'.OptIndex < 1 THEN "done" ELSE "read")
         /\ Keep /\ UNCHANGED setConVars
      \/ found /\ opt'.Opt = "A" /\ TakesFlag({"Set", "Append"}, {"Auto", "Set"})
      \/ found /\ opt'.Opt = "a" /\ TakesFlag({"Auto"}, {"Append"})
      \/ found /\ opt'.Opt = "p" /\ TakesPath(TextPath)
      \/ found /\ opt'.Opt \in {"h", "i"} /\ TakesPath(HandlePath)
      \/ found /\ opt'.Opt \notin {"A", "a", "p", "h", "i"} /\ Usage
  BY DEF SetConOption, PathOptions
<1>3. WordsOK(argv) /\ OptShape(opt) /\ SetConOptions /\ current = Null /\ heap = PartOf(path, "path")
      /\ AsBefore /\ (badFree => Fails("memory"))
  BY <1>1, WordsAssumed DEF SetConInv, SetConAt, SetConHeap, PartOf
<1>4. AtOption(argv, NextWord, PathOptions) /\ SetConSoFar(argv, NextWord) /\ FlagsSeen(argv, NextWord, flags)
      /\ PathSeen(argv, NextWord, path)
  BY <1>3 DEF SetConOptions
<1>5. CASE /\ ~found /\ Goto(IF Argc - opt'.OptIndex < 1 THEN "done" ELSE "read")
           /\ Keep /\ UNCHANGED setConVars
  <2>1. OptShape(opt)' /\ OptionsOver(argv, NextWord, NextWord', PathOptions)
    BY <1>1, <1>3, <1>4, <1>5, GetOptOver DEF OptShape, NextWord
  <2>2. NextWord \in Nat /\ NextWord' \in 2..(Len(argv) + 1) /\ Len(argv) \in Nat /\ opt'.OptIndex \in Nat
        /\ NextWord' = opt'.OptIndex + 1
    BY <1>3, <1>4, <2>1 DEF AtOption, OptionsOver, WordsOK, NextWord, OptShape
  <2>3. UNCHANGED <<heap, badFree, variable, flags, path, current>>
    BY <1>5 DEF Keep, setConVars
  <2>4. CASE NextWord' <= Len(argv)
    <3>1. pc' = "read"
      BY <1>1, <1>5, <2>2, <2>4 DEF Goto, Argc
    <3>2. /\ argv[NextWord'][1] = request.var
          /\ request.do \in {"show", "auto", "set", "append"}
          /\ ("Set" \in flags) <=> request.do # "show"
          /\ ("Auto" \in flags) <=> request.do = "auto"
          /\ request.do # "show" => (("Append" \in flags) <=> request.do = "append")
          /\ PathTold
      BY <1>4, <2>1, <2>2, <2>4, AgreeAtEnd
    <3>3. SetConAgrees'
      <4>1. VarName' = argv[NextWord'][1]
        BY <1>1, <2>2 DEF VarName, Argv
      <4> QED BY <1>1, <2>3, <3>2, <4>1 DEF SetConAgrees, Frame
    <3>4. IsSequence(path)
      <4>1. IsSequence(request.path)
        BY SetConMeant
      <4> QED BY <3>2, <4>1, NullIsSequence DEF PathTold
    <3>5. SetConAt'
      BY <1>3, <2>3, <3>1, <3>2, <3>3, ToldStays, AsBeforeStays DEF SetConAt
    <3>6. SetConHeap'
      BY <1>3, <2>3, <3>1 DEF SetConHeap, PartOf, Fails, Frame
    <3> QED BY <1>3, <2>1, <2>3, <3>1, <3>4, <3>5, <3>6, NullIsSequence DEF SetConInv, SetConPcs
  <2>5. CASE ~(NextWord' <= Len(argv))
    <3>1. pc' = "done"
      BY <1>1, <1>5, <2>2, <2>5 DEF Goto, Argc
    <3>2. request.do = "usage"
      BY <2>1, <2>5, NoOperand
    <3> QED BY <1>1, <2>1, <2>3, <3>1, <3>2, EndsInOptions
  <2> QED BY <2>4, <2>5
<1>6. CASE found /\ opt'.Opt = "A" /\ TakesFlag({"Set", "Append"}, {"Auto", "Set"})
  BY <1>1, <1>6, SetConFlag
<1>7. CASE found /\ opt'.Opt = "a" /\ TakesFlag({"Auto"}, {"Append"})
  BY <1>1, <1>7, SetConFlag
<1>8. CASE found /\ opt'.Opt = "p" /\ TakesPath(TextPath)
  BY <1>1, <1>8, SetConPath
<1>9. CASE found /\ opt'.Opt \in {"h", "i"} /\ TakesPath(HandlePath)
  BY <1>1, <1>9, SetConPath
<1>10. CASE found /\ opt'.Opt \notin {"A", "a", "p", "h", "i"} /\ Usage
  <2>1. OptShape(opt)' /\ OptionFound(argv, NextWord, opt', PathOptions)
    BY <1>1, <1>3, <1>4, <1>10, GetOptFound DEF OptShape
  <2>2. argv[NextWord][2] \notin PathOptions \cup {"A", "a"}
    BY <1>10, <2>1 DEF OptionFound, PathOptions
  <2>3. request.do = "usage"
    BY <1>3, <1>4, <2>1, <2>2, WrongOption, UsageMeant
  <2>4. pc' = "done" /\ UNCHANGED <<heap, badFree, variable, flags, path, current>>
    BY <1>10 DEF Usage, Goto, Keep, setConVars
  <2> QED BY <1>1, <2>1, <2>3, <2>4, EndsInOptions
<1> QED BY <1>2, <1>5, <1>6, <1>7, <1>8, <1>9, <1>10

\* To the end of the tool with the variable alone.
LEMMA GoesOut ==
  ASSUME Typed, request.tool = "SetCon", SetConInv, Frame, pc \in AfterOptions, pc # "build", pc' = "out",
         UNCHANGED <<opt, variable, path, current, heap>>,
         badFree' => badFree \/ Fails("memory"), Asked = before \/ mayFail # {}, pc # "write"
  PROVE  SetConInv'
<1>1. AsBefore /\ OptShape(opt) /\ IsSequence(current) /\ IsSequence(path)
      /\ heap = PartOf(path, "path") \cup PartOf(current, "current") /\ (badFree => Fails("memory"))
  BY DEF SetConInv, SetConAt, SetConHeap, AfterOptions
<1>2. Outcome'
  BY <1>1, LeftAlone
<1>3. SetConAt'
  BY <1>2 DEF SetConAt
<1>4. SetConHeap'
  BY <1>1 DEF SetConHeap, PartOf, Fails, Frame
<1> QED BY <1>1, <1>3, <1>4, NullIsSequence DEF SetConInv, SetConPcs, OptShape

\* On to another step.
LEMMA Continues ==
  ASSUME Typed, request.tool = "SetCon", SetConInv, Frame, pc \in AfterOptions, pc' \in AfterOptions \ {"read"},
         UNCHANGED <<argv, opt, variable, flags>>, IsSequence(path'), IsSequence(current'), before # Null,
         pc' \in {"decide", "print", "append"} => current' = Existing,
         pc' \in {"decide", "append"} => PathTold',
         pc' \in {"print", "auto"} => path' = Null,
         pc' = "auto" => index' = 1,
         pc' = "print" => request.do = "show",
         pc' = "append" => request.do = "append",
         pc' \in {"auto", "build"} => request.do = "auto",
         pc' = "build" => IsConsole(request.var) /\ index' \in 1..(Len(ConsolePaths) + 1) /\ path' = Built(index'),
         pc' = "write" => path' = Asked \/ (path' = Null /\ request.do = "set"),
         heap' = (IF pc' = "build" THEN {"handles"} ELSE {}) \cup PartOf(path', "path") \cup PartOf(current', "current"),
         badFree' => badFree \/ Fails("memory")
  PROVE  SetConInv'
<1>1. AsBefore /\ OptShape(opt) /\ SetConAgrees /\ (badFree => Fails("memory"))
  BY DEF SetConInv, SetConAt, SetConHeap, AfterOptions
<1>2. AsBefore' /\ SetConAgrees' /\ Asked' = Asked /\ Existing' = Existing /\ request' = request /\ before' = before
  BY <1>1, AsBeforeStays, AgreesStays, AskedStays DEF Frame
<1>3. pc' \in {"decide", "print", "append", "auto", "build", "write"}
  BY DEF AfterOptions
<1>4. SetConAt'
  BY <1>2, <1>3 DEF SetConAt
<1>5. SetConHeap'
  BY <1>1, <1>3 DEF SetConHeap, PartOf, Fails, Frame
<1> QED BY <1>1, <1>3, <1>4, <1>5 DEF SetConInv, SetConPcs, OptShape

\* GetVarPath.
LEMMA GetVarPathKeeps ==
  ASSUME Typed, request.tool = "SetCon", SetConInv, Frame, GetVarPath
  PROVE  SetConInv'
<1>1. pc = "read" /\ UNCHANGED <<argv, opt, variable, flags, path>>
  BY DEF GetVarPath
<1>2. /\ AsBefore /\ current = Null /\ IsSequence(path) /\ IsSequence(current) /\ SetConAgrees /\ PathTold
      /\ heap = PartOf(path, "path")
  BY <1>1 DEF SetConInv, SetConAt, SetConHeap, PartOf
<1>3. Content = before /\ IsSequence(before)
  <2>1. VarName = request.var /\ request.var \in VarNames
    BY <1>2, SetConMeant DEF SetConAgrees
  <2>2. variable[request.var] = before
    BY <1>2, <2>1 DEF AsBefore
  <2> QED BY <2>1, <2>2, ShellContents DEF Content, Typed
<1>4. CASE /\ Content = Null \/ Fails("variable")
           /\ Goto("out") /\ Keep /\ UNCHANGED current
  <2>1. Asked = before \/ mayFail # {}
    BY <1>3, <1>4, AskedCases DEF Fails
  <2>2. pc' = "out" /\ UNCHANGED <<current, heap, badFree>>
    BY <1>4 DEF Goto, Keep
  <2> QED BY <1>1, <2>1, <2>2, GoesOut DEF AfterOptions
<1>5. CASE /\ Content # Null /\ Fails("memory")
           /\ Goto("out") /\ FreesNull /\ UNCHANGED current
  <2>1. mayFail # {} /\ Fails("memory")
    BY <1>5 DEF Fails
  <2>2. pc' = "out" /\ UNCHANGED <<current, heap>>
    BY <1>5 DEF Goto, FreesNull
  <2> QED BY <1>1, <2>1, <2>2, GoesOut DEF AfterOptions
<1>6. CASE /\ Content = Invalid
           /\ Goto("decide") /\ Allocated({"current"}, {"current"}) /\ UNCHANGED current
  <2>1. before # Null /\ Existing = Null
    BY <1>3, <1>6 DEF Invalid, Null, Existing
  <2>2. heap' = PartOf(path', "path") \cup PartOf(current', "current") /\ (badFree' => badFree)
    <3>1. heap' = (heap \cup {"current"}) \ {"current"} /\ "current" \notin heap /\ (badFree' => badFree)
      BY <1>2, <1>6 DEF Allocated, PartOf
    <3>2. PartOf(current', "current") = {}
      BY <1>2, <1>6 DEF PartOf
    <3> QED BY <1>1, <1>2, <3>1, <3>2
  <2>3. pc' = "decide" /\ current' = Null /\ PathTold'
    BY <1>1, <1>2, <1>6, ToldStays DEF Goto
  <2> QED BY <1>1, <1>2, <2>1, <2>2, <2>3, Continues DEF AfterOptions
<1>7. CASE /\ Content \notin {Null, Invalid}
           /\ current' = Content /\ Goto("decide") /\ Allocated({"current"}, {})
  <2>1. before # Null /\ Existing = before
    BY <1>3, <1>7 DEF Existing
  <2>2. heap' = PartOf(path', "path") \cup PartOf(current', "current") /\ (badFree' => badFree)
    <3>1. PartOf(current', "current") = {"current"}
      BY <1>7 DEF PartOf
    <3> QED BY <1>1, <1>2, <1>7, <3>1 DEF Allocated
  <2>3. pc' = "decide" /\ current' = before /\ PathTold'
    BY <1>1, <1>2, <1>3, <1>7, ToldStays DEF Goto
  <2> QED BY <1>1, <1>2, <1>3, <2>1, <2>2, <2>3, Continues DEF AfterOptions
<1> QED BY <1>4, <1>5, <1>6, <1>7 DEF GetVarPath

\* What UefiMain does with the variable it has read.
LEMMA DecideKeeps ==
  ASSUME Typed, request.tool = "SetCon", SetConInv, Frame, Decide
  PROVE  SetConInv'
<1>1. /\ pc = "decide" /\ index' = 1 /\ UNCHANGED <<argv, opt, variable, flags, path, current, heap, badFree>>
      /\ pc' = CASE "Set" \notin flags -> IF current # Null THEN "print" ELSE "out"
                 [] {"Set", "Auto"} \subseteq flags -> "auto"
                 [] "Set" \in flags /\ "Auto" \notin flags /\ "Append" \in flags -> "append"
                 [] OTHER -> "write"
  BY DEF Decide, Goto, Keep
<1>2. /\ IsSequence(path) /\ IsSequence(current) /\ SetConAgrees /\ PathTold
      /\ before # Null /\ current = Existing
      /\ heap = PartOf(path, "path") \cup PartOf(current, "current")
  BY <1>1 DEF SetConInv, SetConAt, SetConHeap
<1>3. /\ request.do \in {"show", "auto", "set", "append"}
      /\ ("Set" \in flags) <=> request.do # "show"
      /\ ("Auto" \in flags) <=> request.do = "auto"
      /\ request.do # "show" => (("Append" \in flags) <=> request.do = "append")
  BY <1>2 DEF SetConAgrees
<1>a. heap' = PartOf(path', "path") \cup PartOf(current', "current")
  BY <1>1, <1>2
<1>b. PathTold'
  BY <1>1, <1>2, ToldStays
<1>4. CASE request.do = "show"
  <2>1. pc' = IF current # Null THEN "print" ELSE "out"
    BY <1>1, <1>3, <1>4
  <2>2. path = Null /\ Asked = before
    BY <1>2, <1>4, AskedCases DEF PathTold
  <2>3. CASE pc' = "out"
    BY <1>1, <2>2, <2>3, GoesOut DEF AfterOptions
  <2>4. CASE pc' = "print"
    BY <1>1, <1>2, <1>4, <1>a, <2>2, <2>4, Continues DEF AfterOptions
  <2> QED BY <2>1, <2>3, <2>4
<1>5. CASE request.do = "auto"
  <2>1. pc' = "auto"
    BY <1>1, <1>3, <1>5
  <2>2. path = Null
    BY <1>2, <1>5 DEF PathTold
  <2> QED BY <1>1, <1>2, <1>5, <1>a, <2>1, <2>2, Continues DEF AfterOptions
<1>6. CASE request.do = "append"
  <2>1. pc' = "append"
    BY <1>1, <1>3, <1>6
  <2> QED BY <1>1, <1>2, <1>6, <1>a, <1>b, <2>1, Continues DEF AfterOptions
<1>7. CASE request.do = "set"
  <2>1. pc' = "write"
    BY <1>1, <1>3, <1>7
  <2>2. path' = Asked \/ (path' = Null /\ request.do = "set")
    BY <1>1, <1>2, <1>7, AskedCases DEF PathTold
  <2> QED BY <1>1, <1>2, <1>7, <1>a, <2>1, <2>2, Continues DEF AfterOptions
<1> QED BY <1>3, <1>4, <1>5, <1>6, <1>7

\* PrintVarPath.
LEMMA PrintKeeps ==
  ASSUME Typed, request.tool = "SetCon", SetConInv, Frame, PrintVarPath
  PROVE  SetConInv'
<1>1. /\ pc = "print" /\ UNCHANGED <<argv, opt, variable, flags, path, current>>
      /\ \/ pc' = "out" /\ UNCHANGED <<heap, badFree>>
         \/ pc' = "print" /\ UNCHANGED heap /\ (badFree' => badFree \/ Fails("memory"))
  BY DEF PrintVarPath, Goto, Keep, FreesNull
<1>2. /\ IsSequence(path) /\ IsSequence(current) /\ path = Null /\ request.do = "show"
      /\ before # Null /\ current = Existing
      /\ heap = PartOf(path, "path") \cup PartOf(current, "current")
  BY <1>1 DEF SetConInv, SetConAt, SetConHeap
<1>3. CASE pc' = "out" /\ UNCHANGED <<heap, badFree>>
  <2>1. Asked = before
    BY <1>2, AskedCases
  <2> QED BY <1>1, <1>3, <2>1, GoesOut DEF AfterOptions
<1>4. CASE pc' = "print" /\ UNCHANGED heap /\ (badFree' => badFree \/ Fails("memory"))
  <2>1. heap' = PartOf(path', "path") \cup PartOf(current', "current")
    BY <1>1, <1>2, <1>4
  <2> QED BY <1>1, <1>2, <1>4, <2>1, Continues DEF AfterOptions
<1> QED BY <1>1, <1>3, <1>4

\* AutoPath up to its loop.
LEMMA AutoPathKeeps ==
  ASSUME Typed, request.tool = "SetCon", SetConInv, Frame, AutoPath
  PROVE  SetConInv'
<1>1. pc = "auto" /\ UNCHANGED <<argv, opt, variable, flags, path, current, index>>
  BY DEF AutoPath, setConVars
<1>2. /\ IsSequence(path) /\ IsSequence(current) /\ path = Null /\ request.do = "auto" /\ index = 1
      /\ before # Null /\ VarName = request.var
      /\ heap = PartOf(path, "path") \cup PartOf(current, "current")
  BY <1>1 DEF SetConInv, SetConAt, SetConHeap, SetConAgrees
<1>3. CASE IsConsole(VarName) /\ Allocated({"handles"}, {}) /\ Goto("build")
  <2>1. heap' = {"handles"} \cup PartOf(path', "path") \cup PartOf(current', "current") /\ (badFree' => badFree)
    BY <1>1, <1>2, <1>3 DEF Allocated
  <2>2. index' \in 1..(Len(ConsolePaths) + 1) /\ path' = Built(index')
    BY <1>1, <1>2, BuiltPaths, SetConAssumption DEF IsSequence
  <2>3. pc' = "build" /\ IsConsole(request.var)
    BY <1>2, <1>3 DEF Goto
  <2> QED BY <1>1, <1>2, <2>1, <2>2, <2>3, Continues DEF AfterOptions
<1>4. CASE (IsConsole(VarName) => Fails("handles")) /\ Keep /\ Goto("out")
  <2>1. Asked = before \/ mayFail # {}
    BY <1>2, <1>4, AskedCases DEF Fails
  <2>2. pc' = "out" /\ UNCHANGED <<heap, badFree>>
    BY <1>4 DEF Keep, Goto
  <2> QED BY <1>1, <2>1, <2>2, GoesOut DEF AfterOptions
<1> QED BY <1>3, <1>4 DEF AutoPath

\* From the loop over the handles the tool goes out with no path.
LEMMA BuildGoesOut ==
  ASSUME Typed, request.tool = "SetCon", SetConInv, Frame, pc = "build", pc' = "out",
         UNCHANGED <<opt, variable, current>>, path' = Null, heap' = PartOf(current, "current"),
         badFree' => badFree, Asked = before \/ mayFail # {}
  PROVE  SetConInv'
<1>1. AsBefore /\ OptShape(opt) /\ IsSequence(current) /\ (badFree => Fails("memory"))
  BY DEF SetConInv, SetConAt, SetConHeap
<1>2. Outcome'
  BY <1>1, LeftAlone
<1>3. SetConAt'
  BY <1>2 DEF SetConAt
<1>4. SetConHeap'
  BY <1>1 DEF SetConHeap, PartOf, Fails, Frame
<1> QED BY <1>1, <1>3, <1>4, NullIsSequence DEF SetConInv, SetConPcs, OptShape

\* The loop of AutoPath: the paths of the handles so far are in Build.
LEMMA AutoPathHandleKeeps ==
  ASSUME Typed, request.tool = "SetCon", SetConInv, Frame, AutoPathHandle
  PROVE  SetConInv'
<1> DEFINE p == ConsolePaths[index]
           N == Len(ConsolePaths)
<1>1. pc = "build" /\ UNCHANGED <<argv, opt, variable, flags, current>>
  BY DEF AutoPathHandle
<1>2. /\ IsSequence(path) /\ IsSequence(current) /\ request.do = "auto" /\ before # Null
      /\ IsConsole(request.var) /\ index \in 1..(N + 1) /\ path = Built(index)
      /\ heap = {"handles"} \cup PartOf(path, "path") \cup PartOf(current, "current")
  BY <1>1 DEF SetConInv, SetConAt, SetConHeap
<1>3. N \in Nat /\ index \in Nat /\ (index <= N => IsSequence(p))
  <2>1. N \in Nat /\ DOMAIN ConsolePaths = 1..N
    BY SetConAssumption DEF IsSequence
  <2>2. index \in Nat
    BY <1>2, <2>1
  <2>3. index <= N => index \in DOMAIN ConsolePaths
    BY <1>2, <2>1
  <2> QED BY <2>1, <2>2, <2>3, SetConAssumption
<1>4. CASE index <= N
  <2>1. Built(index + 1) = IF index = 1 THEN p ELSE path \o p
    BY <1>2, <1>3, <1>4, BuiltPaths
  <2>2. Built(index + 1) = path \o p
    <3>1. index = 1 => path = Null
      BY <1>2, BuiltPaths
    <3> QED BY <1>2, <1>3, <1>4, <2>1, <3>1, Joined
  <2>3. IsSequence(path \o p) /\ (path \o p = Null <=> path = Null /\ p = Null) /\ path \o Null = path
    BY <1>2, <1>3, <1>4, Joined
  <2>4. index + 1 \in 1..(N + 1)
    BY <1>2, <1>3, <1>4
  <2>5. CASE /\ p = Null /\ index' = index + 1 /\ Keep /\ UNCHANGED <<path, pc>>
    <3>1. path' = Built(index') /\ path' = path
      BY <2>2, <2>3, <2>5
    <3>2. heap' = {"handles"} \cup PartOf(path', "path") \cup PartOf(current', "current") /\ (badFree' => badFree)
      BY <1>1, <1>2, <2>5 DEF Keep
    <3> QED BY <1>1, <1>2, <2>4, <2>5, <3>1, <3>2, Continues DEF AfterOptions
  <2>6. CASE /\ p # Null /\ index' = index + 1 /\ path' = path \o p /\ Allocated({"path"}, {}) /\ UNCHANGED pc
    <3>1. path' = Built(index') /\ path' # Null /\ IsSequence(path')
      BY <2>2, <2>3, <2>6
    <3>2. heap' = {"handles"} \cup PartOf(path', "path") \cup PartOf(current', "current") /\ (badFree' => badFree)
      BY <1>1, <1>2, <2>6, <3>1 DEF Allocated, PartOf
    <3> QED BY <1>1, <1>2, <2>4, <2>6, <3>1, <3>2, Continues DEF AfterOptions
  <2>7. CASE /\ Fails("memory") /\ AutoPathEnds(Null, {"path"} \cap heap) /\ Goto("out")
    <3>1. path' = Null /\ pc' = "out" /\ (badFree' => badFree)
      BY <1>2, <2>7 DEF AutoPathEnds, Allocated, Goto
    <3>2. heap' = PartOf(current, "current")
      BY <1>2, <2>7 DEF AutoPathEnds, Allocated, PartOf
    <3>3. mayFail # {}
      BY <2>7 DEF Fails
    <3> QED BY <1>1, <3>1, <3>2, <3>3, BuildGoesOut
  <2> QED BY <1>4, <1>3, <2>5, <2>6, <2>7 DEF AutoPathHandle
<1>5. CASE index > N
  <2>1. AutoPathEnds(path, {}) /\ Goto(IF path = Null THEN "out" ELSE "write")
    BY <1>3, <1>5 DEF AutoPathHandle
  <2>2. path = FlattenSeq(ConsolePaths)
    <3>1. index = N + 1
      BY <1>2, <1>3, <1>5
    <3> QED BY <1>2, <3>1, BuiltPaths
  <2>3. /\ path' = path /\ (badFree' => badFree) /\ pc' = (IF path = Null THEN "out" ELSE "write")
        /\ heap' = PartOf(path, "path") \cup PartOf(current, "current")
    BY <1>2, <2>1 DEF AutoPathEnds, Allocated, PartOf, Goto
  <2>4. CASE path = Null
    <3>1. Asked = before
      BY <1>2, <2>2, <2>4, AskedCases
    <3>2. PartOf(path, "path") = {}
      BY <2>4 DEF PartOf
    <3> QED BY <1>1, <2>3, <2>4, <3>1, <3>2, BuildGoesOut
  <2>5. CASE path # Null
    <3>1. Asked = path
      BY <1>2, <2>2, <2>5, AskedCases
    <3> QED BY <1>1, <1>2, <2>3, <2>5, <3>1, Continues DEF AfterOptions
  <2> QED BY <2>4, <2>5
<1> QED BY <1>3, <1>4, <1>5

\* AppendPath.
LEMMA AppendPathKeeps ==
  ASSUME Typed, request.tool = "SetCon", SetConInv, Frame, AppendPath
  PROVE  SetConInv'
<1>1. pc = "append" /\ UNCHANGED <<argv, opt, variable, flags, current, index>>
  BY DEF AppendPath
<1>2. /\ IsSequence(path) /\ IsSequence(current) /\ request.do = "append" /\ before # Null /\ current = Existing
      /\ path = request.path \/ (path = Null /\ Fails("memory"))
      /\ heap = PartOf(path, "path") \cup PartOf(current, "current")
  BY <1>1 DEF SetConInv, SetConAt, SetConHeap, PathTold
<1>3. CASE path # Null /\ path' = current \o path /\ Keep /\ Goto("write")
  <2>1. path' # Null /\ IsSequence(path')
    BY <1>2, <1>3, Joined
  <2>2. path' = Asked
    BY <1>2, <1>3, AskedCases
  <2>3. heap' = PartOf(path', "path") \cup PartOf(current', "current")
    BY <1>1, <1>2, <1>3, <2>1 DEF Keep, PartOf
  <2>4. pc' = "write" /\ (badFree' => badFree)
    BY <1>3 DEF Goto, Keep
  <2> QED BY <1>1, <1>2, <2>1, <2>2, <2>3, <2>4, Continues DEF AfterOptions
<1>4. CASE (path = Null \/ Fails("memory")) /\ Goto("out") /\ Keep /\ UNCHANGED path
  <2>1. Asked = before \/ mayFail # {}
    BY <1>2, <1>4, AskedCases DEF Fails
  <2>2. pc' = "out" /\ UNCHANGED <<heap, badFree, path>>
    BY <1>4 DEF Goto, Keep
  <2> QED BY <1>1, <2>1, <2>2, GoesOut DEF AfterOptions
<1> QED BY <1>3, <1>4 DEF AppendPath

\* gRT->SetVariable.
LEMMA SetVariableKeeps ==
  ASSUME Typed, request.tool = "SetCon", SetConInv, Frame, SetVariable
  PROVE  SetConInv'
<1>1. pc = "write" /\ pc' = "out" /\ UNCHANGED <<argv, opt, flags, path, current, heap, badFree>>
  BY DEF SetVariable, Goto, Keep
<1>2. /\ AsBefore /\ OptShape(opt) /\ IsSequence(current) /\ IsSequence(path)
      /\ path = Asked \/ (path = Null /\ request.do = "set")
      /\ SetConAgrees
      /\ heap = PartOf(path, "path") \cup PartOf(current, "current") /\ (badFree => Fails("memory"))
  BY <1>1 DEF SetConInv, SetConAt, SetConHeap
<1>a. path = Asked \/ (path = Null /\ request.do = "set")
  BY <1>1 DEF SetConInv, SetConAt
<1>3. VarName = request.var /\ request.var \in VarNames /\ (request.do = "set" => "Set" \in flags)
  <2>1. SetConAgrees
    BY <1>1 DEF SetConInv, SetConAt
  <2> QED BY <2>1, SetConMeant DEF SetConAgrees
<1>4. Outcome'
  <2>1. CASE variable' = [variable EXCEPT ![VarName] = path]
    <3>1. DOMAIN variable = VarNames /\ \A v \in VarNames \ {request.var} : variable[v] = <<"other">>
      BY <1>2 DEF AsBefore
    <3>2. /\ DOMAIN variable' = VarNames /\ variable'[request.var] = path
          /\ \A v \in VarNames \ {request.var} : variable'[v] = <<"other">>
      BY <1>3, <2>1, <3>1
    <3>3. Asked' = Asked /\ request' = request /\ flags' = flags /\ path' = path
      BY <1>1, AskedStays DEF Frame
    <3> QED BY <1>a, <1>3, <3>2, <3>3 DEF Outcome
  <2>2. CASE Fails("variable") /\ UNCHANGED variable
    BY <1>2, <2>2, LeftAlone DEF Fails
  <2> QED BY <2>1, <2>2 DEF SetVariable
<1>5. SetConAt'
  BY <1>1, <1>4 DEF SetConAt
<1>6. SetConHeap'
  BY <1>1, <1>2 DEF SetConHeap, PartOf, Fails, Frame
<1> QED BY <1>1, <1>2, <1>5, <1>6 DEF SetConInv, SetConPcs, OptShape

\* The end of UefiMain frees both paths.
LEMMA SetConOutKeeps ==
  ASSUME Typed, request.tool = "SetCon", SetConInv, Frame, SetConOut
  PROVE  SetConInv'
<1>1. /\ pc = "out" /\ pc' = "done" /\ UNCHANGED <<argv, opt, variable, flags, path, current>>
      /\ Allocated({}, PartOf(current, "current") \cup PartOf(path, "path"))
  BY DEF SetConOut, Goto, setConVars, PartOf
<1>2. /\ OptShape(opt) /\ IsSequence(current) /\ Outcome
      /\ heap = PartOf(path, "path") \cup PartOf(current, "current") /\ (badFree => Fails("memory"))
  BY <1>1 DEF SetConInv, SetConAt, SetConHeap
<1>3. Outcome'
  BY <1>1, <1>2, AskedStays DEF Outcome, Frame
<1>4. heap' = {} /\ (badFree' => badFree)
  BY <1>1, <1>2 DEF Allocated
<1>5. SetConAt'
  BY <1>1, <1>3 DEF SetConAt
<1>6. SetConHeap'
  BY <1>1, <1>2, <1>4 DEF SetConHeap, Fails, Frame
<1> QED BY <1>1, <1>2, <1>5, <1>6 DEF SetConInv, SetConPcs, OptShape

\* Every step of SetCon keeps its invariant.
LEMMA SetConKeeps ==
  ASSUME Typed, request.tool = "SetCon", SetConInv, Frame, SetConNext
  PROVE  SetConInv'
BY SetConStarts, SetConOptionKeeps, GetVarPathKeeps, DecideKeeps, PrintKeeps, AutoPathKeeps, AutoPathHandleKeeps,
   AppendPathKeeps, SetVariableKeeps, SetConOutKeeps DEF SetConNext

-----------------------------------------------------------------------------
(* The images of a ROM.                                                    *)

RomOK(rom) == IsSequence(rom) /\ \A b \in DOMAIN rom : rom[b] = Null \/ IsHeader(rom[b])

\* The devices and their ROMs are well formed.
LEMMA DevicesAre ==
  /\ Len(Devices) \in Nat /\ DOMAIN Devices = 1..Len(Devices)
  /\ \A d \in DOMAIN Devices : RomOK(Devices[d].rom)
  /\ \A d, e \in DOMAIN Devices : Devices[d].location = Devices[e].location => d = e
BY LoadOpRomAssumption DEF RomOK, IsSequence

\* The blocks of a ROM.
LEMMA RomBlocks ==
  ASSUME NEW rom, RomOK(rom)
  PROVE  /\ Len(rom) \in Nat /\ DOMAIN rom = 1..Len(rom)
         /\ rom = Null <=> Len(rom) = 0
         /\ \A b \in DOMAIN rom : b \in Nat /\ Stride(rom, b) \in Nat
<1>1. Len(rom) \in Nat /\ DOMAIN rom = 1..Len(rom) /\ rom = [n \in 1..Len(rom) |-> rom[n]]
  BY DEF RomOK, IsSequence
<1>2. rom = Null <=> Len(rom) = 0
  <2>1. ASSUME Len(rom) = 0 PROVE rom = Null
    <3>1. 1..0 = {}
      OBVIOUS
    <3>2. rom = [n \in {} |-> rom[n]]
      BY <1>1, <2>1, <3>1
    <3> QED BY <3>2 DEF Null
  <2>2. Len(Null) = 0
    BY DEF Null
  <2> QED BY <2>1, <2>2
<1>3. ASSUME NEW b \in DOMAIN rom PROVE Stride(rom, b) \in Nat
  <2>1. CASE rom[b] = Null
    BY <2>1 DEF Stride
  <2>2. CASE rom[b] # Null
    <3>1. IsHeader(rom[b])
      BY <2>2 DEF RomOK
    <3>2. rom[b].length \in Nat /\ rom[b].legacy \in Nat
      BY <3>1 DEF IsHeader
    <3> QED BY <2>2, <3>2 DEF Stride, ImageLength
  <2> QED BY <2>1, <2>2
<1> QED BY <1>1, <1>2, <1>3

\* A closed set holds all of the walk, which is closed itself.
LEMMA WalkLeast ==
  ASSUME NEW rom, NEW s \in SUBSET DOMAIN rom, Closed(rom, s)
  PROVE  Walk(rom) \subseteq s
BY DEF Walk

\* The walk holds the first block and each that follows one of its own.
LEMMA WalkClosed ==
  ASSUME NEW rom
  PROVE  Walk(rom) \subseteq DOMAIN rom /\ Closed(rom, Walk(rom))
<1>1. Walk(rom) \subseteq DOMAIN rom
  BY DEF Walk
<1>2. 1 \in DOMAIN rom => 1 \in Walk(rom)
  BY DEF Walk, Closed
<1>3. ASSUME NEW b \in Walk(rom), GoesOn(rom, b), b + Stride(rom, b) \in DOMAIN rom
      PROVE  b + Stride(rom, b) \in Walk(rom)
  <2>1. ASSUME NEW s \in SUBSET DOMAIN rom, Closed(rom, s) PROVE b + Stride(rom, b) \in s
    <3>1. b \in s
      BY <2>1, WalkLeast
    <3> QED BY <1>3, <2>1, <3>1 DEF Closed
  <2> QED BY <1>3, <2>1 DEF Walk
<1> QED BY <1>1, <1>2, <1>3 DEF Closed

\* The walk leads from each block to the next: there is none between.
NextAfter(rom, a, c) == GoesOn(rom, a) /\ a + Stride(rom, a) <= c

\* Of two blocks of the walk, the first one leads to the other.
LEMMA WalkIsPath ==
  ASSUME NEW rom, RomOK(rom), NEW a \in Walk(rom), NEW c \in Walk(rom), a < c
  PROVE  NextAfter(rom, a, c)
<1> DEFINE W == Walk(rom)
           T == {x \in W : \A y \in W : y < x => NextAfter(rom, y, x)}
<1>1. W \subseteq DOMAIN rom /\ Closed(rom, W) /\ \A b \in W : b \in Nat /\ Stride(rom, b) \in Nat
  BY WalkClosed, RomBlocks
<1>2. \A b \in W : 1 <= b
  BY RomBlocks, <1>1
<1>3. 1 \in DOMAIN rom => 1 \in T
  BY <1>1, <1>2 DEF Closed
<1>4. ASSUME NEW x \in T, GoesOn(rom, x), x + Stride(rom, x) \in DOMAIN rom
      PROVE  x + Stride(rom, x) \in T
  <2> DEFINE d == x + Stride(rom, x)
             R == {b \in W : b <= x \/ d <= b}
  <2>1. x \in W /\ \A y \in W : y < x => NextAfter(rom, y, x)
    OBVIOUS
  <2>2. d \in W /\ d \in Nat /\ x \in Nat /\ x <= d
    BY <1>1, <1>4, <2>1 DEF Closed
  <2> HIDE DEF W, T
  <2>3. 1 \in DOMAIN rom => 1 \in R
    BY <1>1, <1>2, <2>1 DEF Closed
  <2>4. ASSUME NEW b \in R, GoesOn(rom, b), b + Stride(rom, b) \in DOMAIN rom PROVE b + Stride(rom, b) \in R
    <3>1. b \in W /\ b \in Nat /\ Stride(rom, b) \in Nat /\ b + Stride(rom, b) \in W
      BY <1>1, <2>4 DEF Closed
    <3>2. CASE b < x
      <4>1. b + Stride(rom, b) <= x
        BY <2>1, <3>1, <3>2 DEF NextAfter
      <4> QED BY <3>1, <4>1
    <3>3. CASE b = x
      BY <3>1, <3>3, <2>2
    <3>4. CASE x < b
      <4>1. d <= b
        BY <2>2, <2>4, <3>1, <3>4
      <4>2. d <= b + Stride(rom, b)
        BY <2>2, <3>1, <4>1
      <4> QED BY <3>1, <4>2
    <3> QED BY <2>2, <3>1, <3>2, <3>3, <3>4
  <2>5. W \subseteq R
    <3>1. R \in SUBSET DOMAIN rom
      BY <1>1
    <3>2. Closed(rom, R)
      BY <2>3, <2>4 DEF Closed
    <3> QED BY <3>1, <3>2, WalkLeast DEF W
  <2>6. ASSUME NEW y \in W, y < d PROVE NextAfter(rom, y, d)
    <3>1. y <= x /\ y \in Nat /\ Stride(rom, y) \in Nat
      BY <1>1, <2>2, <2>5, <2>6
    <3>2. CASE y = x
      BY <1>4, <2>2, <3>2 DEF NextAfter
    <3>3. CASE y < x
      <4>1. GoesOn(rom, y) /\ y + Stride(rom, y) <= x
        BY <2>1, <3>3 DEF NextAfter
      <4> QED BY <2>2, <3>1, <4>1 DEF NextAfter
    <3> QED BY <2>2, <3>1, <3>2, <3>3
  <2> QED BY <2>2, <2>6 DEF T
<1>5. W \subseteq T
  <2>1. T \in SUBSET DOMAIN rom
    BY <1>1
  <2>2. Closed(rom, T)
    BY <1>3, <1>4 DEF Closed
  <2> QED BY <2>1, <2>2, WalkLeast
<1> QED BY <1>5

\* From a block that is not for the host the tool may go on to the next.
LEMMA WalkOn ==
  ASSUME NEW rom, RomOK(rom), NEW b \in Walk(rom), b \notin Usable(rom), \A c \in Usable(rom) : b <= c
  PROVE  /\ GoesOn(rom, b) /\ b + Stride(rom, b) \in DOMAIN rom =>
              b + Stride(rom, b) \in Walk(rom) /\ \A c \in Usable(rom) : b + Stride(rom, b) <= c
         /\ ~(GoesOn(rom, b) /\ b + Stride(rom, b) \in DOMAIN rom) => Usable(rom) = {}
<1>1. ASSUME NEW c \in Usable(rom)
      PROVE  c \in DOMAIN rom /\ GoesOn(rom, b) /\ b + Stride(rom, b) <= c
  <2>1. c \in Walk(rom) /\ c # b
    BY DEF Usable
  <2>2. c \in DOMAIN rom /\ b \in DOMAIN rom /\ b \in Nat /\ c \in Nat
    BY <2>1, WalkClosed, RomBlocks
  <2>3. b < c
    BY <2>1, <2>2, <1>1
  <2> QED BY <2>1, <2>2, <2>3, WalkIsPath DEF NextAfter
<1>2. b \in DOMAIN rom /\ b \in Nat /\ Stride(rom, b) \in Nat /\ DOMAIN rom = 1..Len(rom) /\ Len(rom) \in Nat
  BY WalkClosed, RomBlocks
<1>3. GoesOn(rom, b) /\ b + Stride(rom, b) \in DOMAIN rom => b + Stride(rom, b) \in Walk(rom)
  BY WalkClosed DEF Closed
<1>4. ASSUME NEW c \in Usable(rom) PROVE GoesOn(rom, b) /\ b + Stride(rom, b) \in DOMAIN rom
  <2>1. c \in 1..Len(rom) /\ GoesOn(rom, b) /\ b + Stride(rom, b) <= c
    BY <1>1, <1>2
  <2>2. b \in 1..Len(rom)
    BY <1>2
  <2>3. b + Stride(rom, b) \in 1..Len(rom)
    BY <1>2, <2>1, <2>2
  <2> QED BY <2>1, <2>3, <1>2
<1> QED BY <1>1, <1>3, <1>4

\* The first of a set of blocks.
LEMMA FirstIsLeast ==
  ASSUME NEW s \in SUBSET Nat, NEW b \in s, \A c \in s : b <= c
  PROVE  First(s) = b
<1>1. \A x \in s : (\A c \in s : x <= c) => x = b
  OBVIOUS
<1> QED BY <1>1 DEF First

-----------------------------------------------------------------------------
(* The images asked for.                                                   *)

\* What LoadOpRom's command line asks for.
LEMMA LoadMeant ==
  ASSUME Typed, request.tool = "LoadOpRom"
  PROVE  /\ LoadOpRomMeans(argv, request) /\ WordsOK(argv)
         /\ request.do \in {"usage", "list", "all", "one"}
<1>1. LoadOpRomMeans(argv, request)
  <2>1. request.tool # "SetCon"
    OBVIOUS
  <2> QED BY <2>1, ShellRequests DEF Typed
<1>2. request.do \in {"usage", "list", "all", "one"}
  BY <1>1 DEF LoadOpRomMeans
<1> QED BY <1>1, <1>2, WordsAssumed

AskedOf(d) == [dev |-> d, at |-> First(Usable(Devices[d].rom)), st |-> "started"]

\* The devices asked for, by request.
LEMMA DevicesAsked ==
  ASSUME Typed, request.tool = "LoadOpRom"
  PROVE  /\ AskedDevices \subseteq DOMAIN Devices
         /\ request.do \in {"list", "usage"} => AskedDevices = {}
         /\ request.do = "all" => AskedDevices = DOMAIN Devices
         /\ request.do = "one" => AskedDevices = {d \in DOMAIN Devices : Devices[d].location = request.location}
<1>1. request.do \in {"list", "usage"} => AskedDevices = {}
  BY DEF AskedDevices
<1>2. request.do = "all" => AskedDevices = DOMAIN Devices
  BY DEF AskedDevices
<1>3. request.do = "one" => AskedDevices = {d \in DOMAIN Devices : Devices[d].location = request.location}
  BY DEF AskedDevices
<1> QED BY <1>1, <1>2, <1>3, LoadMeant

\* The images asked for, one by one.
LEMMA ImagesAsked ==
  ASSUME Typed, request.tool = "LoadOpRom", NEW i
  PROVE  i \in AskedImages <=>
           \E d \in AskedDevices : Usable(Devices[d].rom) # {} /\ i = AskedOf(d)
BY DEF AskedImages, AskedOf

\* Each is of a device asked for that has something for the host.
LEMMA ImageDevices ==
  ASSUME Typed, request.tool = "LoadOpRom"
  PROVE  \A i \in AskedImages : i = AskedOf(i.dev) /\ i.dev \in AskedDevices /\ i.dev \in 1..Len(Devices)
                                /\ i.dev \in Nat /\ i.st = "started" /\ Usable(Devices[i.dev].rom) # {}
<1> SUFFICES ASSUME NEW i \in AskedImages
             PROVE  i = AskedOf(i.dev) /\ i.dev \in AskedDevices /\ i.dev \in 1..Len(Devices)
                    /\ i.dev \in Nat /\ i.st = "started" /\ Usable(Devices[i.dev].rom) # {}
  OBVIOUS
<1>1. PICK d \in AskedDevices : Usable(Devices[d].rom) # {} /\ i = AskedOf(d)
  BY ImagesAsked
<1>2. i.dev = d /\ i.st = "started"
  BY <1>1 DEF AskedOf
<1>3. d \in 1..Len(Devices) /\ d \in Nat
  BY DevicesAsked, DevicesAre
<1> QED BY <1>1, <1>2, <1>3

\* A device that is not asked for, or has nothing for the host, has no image.
LEMMA ForFirstNone ==
  ASSUME Typed, request.tool = "LoadOpRom", NEW n \in Nat, n \notin AskedDevices \/ Usable(Devices[n].rom) = {}
  PROVE  ForFirst(AskedImages, n + 1) = ForFirst(AskedImages, n)
<1>1. \A i \in AskedImages : i.dev \in Nat /\ i.dev # n
  BY ImageDevices
<1>2. \A i \in AskedImages : i.dev < n + 1 <=> i.dev < n
  BY <1>1
<1> QED BY <1>2 DEF ForFirst

\* One that is asked for and has, adds its first.
LEMMA ForFirstNext ==
  ASSUME Typed, request.tool = "LoadOpRom", NEW n \in AskedDevices, NEW a \in Usable(Devices[n].rom),
         \A b \in Usable(Devices[n].rom) : a <= b
  PROVE  /\ ForFirst(AskedImages, n + 1)
              = ForFirst(AskedImages, n) \cup {[dev |-> n, at |-> a, st |-> "started"]}
         /\ [dev |-> n, at |-> a, st |-> "started"] \in AskedImages
<1> DEFINE new == [dev |-> n, at |-> a, st |-> "started"]
<1>1. n \in 1..Len(Devices) /\ n \in DOMAIN Devices /\ n \in Nat
  BY DevicesAsked, DevicesAre
<1>2. First(Usable(Devices[n].rom)) = a
  <2>1. Usable(Devices[n].rom) \subseteq Walk(Devices[n].rom)
    BY DEF Usable
  <2>2. Usable(Devices[n].rom) \in SUBSET Nat
    BY <1>1, <2>1, WalkClosed, DevicesAre, RomBlocks
  <2> QED BY <2>2, FirstIsLeast
<1>3. AskedOf(n) = new
  BY <1>2 DEF AskedOf
<1>4. new \in AskedImages /\ new.dev = n
  BY <1>3, ImagesAsked
<1>5. \A i \in AskedImages : i.dev \in Nat /\ (i.dev = n => i = new)
  BY <1>3, ImageDevices
<1>6. \A i \in AskedImages : i.dev < n + 1 <=> (i.dev < n \/ i = new)
  BY <1>1, <1>4, <1>5
<1>7. n < n + 1
  BY <1>1
<1> QED BY <1>4, <1>6, <1>7 DEF ForFirst

\* Behind the last device all are counted.
LEMMA ForFirstAll ==
  ASSUME Typed, request.tool = "LoadOpRom"
  PROVE  ForFirst(AskedImages, Len(Devices) + 1) = AskedImages
<1>1. \A i \in AskedImages : i.dev < Len(Devices) + 1
  BY ImageDevices, DevicesAre
<1> QED BY <1>1 DEF ForFirst

\* What was tried stays tried.
LEMMA TriedGrows ==
  ASSUME Typed, request.tool = "LoadOpRom", NEW n \in Nat, NEW m \in Nat, n <= m
  PROVE  Tried(AskedImages, n) \subseteq Tried(AskedImages, m)
<1>1. \A i \in AskedImages : i.dev < n => i.dev < m
  BY ImageDevices
<1> QED BY <1>1 DEF Tried, ForFirst

\* At the end of the list, or after the one device asked for, none is left.
LEMMA NoneLeft ==
  ASSUME Typed, request.tool = "LoadOpRom", LoadAgrees, want # Null => ~allDevs, k \in DOMAIN Devices,
         k = Len(Devices) \/ (~allDevs /\ (onlyList \/ k \in AskedDevices))
  PROVE  ForFirst(AskedImages, k + 1) = AskedImages
<1>1. Len(Devices) \in Nat /\ k \in Nat
  BY DevicesAre
<1>2. CASE k = Len(Devices)
  BY <1>2, ForFirstAll
<1>3. CASE ~allDevs /\ onlyList
  <2>1. AskedDevices = {}
    BY <1>3, DevicesAsked DEF LoadAgrees
  <2>2. AskedImages = {}
    BY <2>1, ImageDevices
  <2> QED BY <2>2 DEF ForFirst
<1>4. CASE ~allDevs /\ ~onlyList /\ k \in AskedDevices
  <2>1. request.do = "one"
    BY <1>4 DEF LoadAgrees
  <2>2. \A d \in AskedDevices : d = k
    <3>1. \A d \in AskedDevices : d \in DOMAIN Devices /\ Devices[d].location = request.location
      BY <2>1, DevicesAsked
    <3> QED BY <1>4, <3>1, DevicesAre
  <2>3. \A i \in AskedImages : i.dev < k + 1
    BY <1>1, <2>2, ImageDevices
  <2> QED BY <2>3 DEF ForFirst
<1> QED BY <1>2, <1>3, <1>4

\* The devices the tool looks at are those asked for, or it lists only.
LEMMA WantedAreAsked ==
  ASSUME Typed, request.tool = "LoadOpRom", LoadAgrees, want # Null => ~allDevs, k \in DOMAIN Devices
  PROVE  /\ allDevs \/ want = Devices[k].location => onlyList \/ k \in AskedDevices
         /\ ~(allDevs \/ want = Devices[k].location) => k \notin AskedDevices
<1>1. CASE request.do = "list"
  BY <1>1, DevicesAsked DEF LoadAgrees
<1>2. CASE request.do = "all"
  BY <1>2, DevicesAsked DEF LoadAgrees
<1>3. CASE request.do = "one"
  <2>1. want = request.location /\ ~allDevs
    BY <1>3 DEF LoadAgrees
  <2>2. k \in AskedDevices <=> Devices[k].location = request.location
    BY <1>3, DevicesAsked
  <2> QED BY <2>1, <2>2
<1> QED BY <1>1, <1>2, <1>3 DEF LoadAgrees

-----------------------------------------------------------------------------
(* LoadOpRom's steps.                                                      *)

Good == want # Null => ~allDevs

\* What is asked for, and what may fail, does not change.
LEMMA AskedForStays ==
  ASSUME Frame
  PROVE  /\ AskedImages' = AskedImages /\ AskedDevices' = AskedDevices
         /\ Fails("memory")' = Fails("memory")
BY DEF Frame, AskedImages, AskedDevices, Fails

\* To say something of the next state, say it of its images and its device.
LEMMA HandledStays ==
  ASSUME Frame
  PROVE  /\ Handled(AskedImages, images', k') => Handled(AskedImages, images, k)'
         /\ Handled(AskedImages, images', k' + 1) => Handled(AskedImages, images, k + 1)'
         /\ Handled(AskedImages, images' \ {Tag("loaded")'}, k') => Handled(AskedImages, images \ {Tag("loaded")}, k)'
         /\ Handled(AskedImages, images', Len(Devices) + 1) => Handled(AskedImages, images, Len(Devices) + 1)'
         /\ Linked(AskedImages, connected', k') => Linked(AskedImages, connected, k)'
         /\ Linked(AskedImages, connected', k' + 1) => Linked(AskedImages, connected, k + 1)'
         /\ Linked(AskedImages, connected', Len(Devices) + 1) => Linked(AskedImages, connected, Len(Devices) + 1)'
BY AskedForStays DEF Frame, Handled, Linked

\* What holds while the devices are looked at, and goes on to hold.
LEMMA OnTheWay ==
  ASSUME Frame, LoadInv, pc \in OnDevice, pc' \in OnDevice, UnchangedRest, k' \in DOMAIN Devices,
         pc' = "device" => at' = 1, pc' \in {"rom"} \cup Loading => at' \in DOMAIN Rom',
         pc' \in Loading => Header' # Null /\ ~onlyList, LoadHeap', Good => RightAt'
  PROVE  LoadInv'
<1>1. OptShape(opt) /\ LoadAgrees
  BY DEF LoadInv, LoadAt
<1>2. UNCHANGED <<argv, opt, want, allDevs, onlyList, noConnect, request>>
  BY DEF UnchangedRest, Frame
<1>3. OptShape(opt)' /\ LoadAgrees' /\ Good' = Good
  BY <1>1, <1>2 DEF OptShape, LoadAgrees, Good
<1>4. pc' \in LoadPcs /\ pc' \notin {"start", "flags", "count", "locate", "done"}
  BY DEF OnDevice, Loading, LoadPcs
<1>5. LoadAt'
  BY <1>2, <1>3, <1>4 DEF LoadAt
<1> QED BY <1>2, <1>3, <1>4, <1>5 DEF LoadInv, Good

\* A device that has no image for the host, was not asked for or met a failure
\* is done with.
LEMMA NothingHere ==
  ASSUME Typed, request.tool = "LoadOpRom", NEW n \in Nat, NEW is, NEW cs,
         Handled(AskedImages, is, n), Linked(AskedImages, cs, n),
         n \notin AskedDevices \/ Usable(Devices[n].rom) = {} \/ mayFail # {}
  PROVE  Handled(AskedImages, is, n + 1) /\ Linked(AskedImages, cs, n + 1)
<1>1. n + 1 \in Nat /\ n <= n + 1
  OBVIOUS
<1>2. Tried(AskedImages, n) \subseteq Tried(AskedImages, n + 1)
  BY <1>1, TriedGrows
<1>3. mayFail = {} => ForFirst(AskedImages, n + 1) = ForFirst(AskedImages, n)
  BY ForFirstNone
<1> QED BY <1>2, <1>3 DEF Handled, Linked

\* Where no image is left to be loaded, it is as at the end of the list.
LEMMA LastOne ==
  ASSUME Typed, request.tool = "LoadOpRom", NEW is, NEW cs, NEW n,
         Handled(AskedImages, is, n), Linked(AskedImages, cs, n), ForFirst(AskedImages, n) = AskedImages
  PROVE  Handled(AskedImages, is, Len(Devices) + 1) /\ Linked(AskedImages, cs, Len(Devices) + 1)
<1>1. ForFirst(AskedImages, Len(Devices) + 1) = ForFirst(AskedImages, n)
  BY ForFirstAll
<1> QED BY <1>1 DEF Handled, Linked, Tried

\* On to the next device, or to the end when none is left.
LEMMA DeviceDone ==
  ASSUME Typed, request.tool = "LoadOpRom", Frame, LoadInv, pc \in OnDevice, UnchangedRest,
         UNCHANGED <<images, connected>>, at' = 1,
         \/ pc' = "device" /\ k' = k + 1 /\ k < Len(Devices)
         \/ pc' = "finish" /\ k' = k /\ (k = Len(Devices) \/ (~allDevs /\ (Good => onlyList \/ k \in AskedDevices))),
         HeapIs({"handles"})', badFree' => Fails("memory"),
         Good => Handled(AskedImages, images, k + 1) /\ Linked(AskedImages, connected, k + 1) /\ OnlyStarted
  PROVE  LoadInv'
<1>1. k \in DOMAIN Devices /\ k \in 1..Len(Devices) /\ Len(Devices) \in Nat /\ k \in Nat /\ LoadAgrees
  BY DevicesAre DEF LoadInv, LoadAt
<1>2. LoadHeap'
  BY AskedForStays DEF LoadHeap
<1>3. Good => OnlyStarted'
  BY DEF OnlyStarted, Frame
<1>4. CASE pc' = "device" /\ k' = k + 1 /\ k < Len(Devices)
  <2>1. k' \in DOMAIN Devices
    BY <1>1, <1>4, DevicesAre
  <2>2. Good => Handled(AskedImages, images', k') /\ Linked(AskedImages, connected', k')
    BY <1>4
  <2>3. Good => RightAt'
    BY <1>3, <1>4, <2>2, HandledStays DEF RightAt, Loading
  <2> QED BY <1>2, <1>4, <2>1, <2>3, OnTheWay DEF OnDevice, Loading
<1>5. CASE pc' = "finish" /\ k' = k /\ (k = Len(Devices) \/ (~allDevs /\ (Good => onlyList \/ k \in AskedDevices)))
  <2>1. Good => ForFirst(AskedImages, k + 1) = AskedImages
    BY <1>1, <1>5, NoneLeft DEF Good
  <2>2. Good => Handled(AskedImages, images', Len(Devices) + 1) /\ Linked(AskedImages, connected', Len(Devices) + 1)
    BY <2>1, LastOne
  <2>3. Good => RightAt'
    BY <1>3, <1>5, <2>2, HandledStays DEF RightAt, Loading
  <2> QED BY <1>1, <1>2, <1>5, <2>3, OnTheWay DEF OnDevice, Loading
<1> QED BY <1>4, <1>5

\* After one that AnalyzeROM looked at.
LEMMA NextDeviceKeeps ==
  ASSUME Typed, request.tool = "LoadOpRom", Frame, LoadInv, pc \in OnDevice, UnchangedRest,
         UNCHANGED <<images, connected>>, NextDevice, HeapIs({"handles"})', badFree' => Fails("memory"),
         Good => /\ Handled(AskedImages, images, k + 1) /\ Linked(AskedImages, connected, k + 1) /\ OnlyStarted
                 /\ onlyList \/ k \in AskedDevices
  PROVE  LoadInv'
<1>1. k \in 1..Len(Devices) /\ Len(Devices) \in Nat /\ k \in Nat
  BY DevicesAre DEF LoadInv, LoadAt
<1>2. \/ pc' = "device" /\ k' = k + 1 /\ k < Len(Devices)
      \/ pc' = "finish" /\ k' = k /\ (k = Len(Devices) \/ ~allDevs)
  BY <1>1 DEF NextDevice, Goto
<1>3. at' = 1
  BY DEF NextDevice
<1> QED BY <1>2, <1>3, DeviceDone

\* The tool ends before it has found a device: usage, or after a failure.
LEMMA EndsEarly ==
  ASSUME Typed, request.tool = "LoadOpRom", Frame, LoadInv, pc \in {"start", "flags", "count", "locate"},
         pc' = "done", OptShape(opt)', UNCHANGED <<heap, badFree, images, connected, want, allDevs>>,
         request.do = "usage" \/ mayFail # {} \/ Devices = <<>>
  PROVE  LoadInv'
<1>1. heap = {} /\ (badFree => Fails("memory"))
  BY DEF LoadInv, LoadHeap
<1>2. LoadHeap'
  BY <1>1, AskedForStays DEF LoadHeap, HeapIs, Leaked
<1>3. LoadAt'
  BY DEF LoadAt, OnDevice, Loading
<1>4. ASSUME Good PROVE RightAt'
  <2>1. images = {} /\ connected = {}
    <3>1. CASE pc = "locate"
      <4>1. RightAt
        BY <1>4 DEF LoadInv, Good
      <4> QED BY <3>1, <4>1 DEF RightAt
    <3>2. CASE pc # "locate"
      BY <3>2 DEF LoadInv, LoadAt
    <3> QED BY <3>1, <3>2
  <2>2. mayFail = {} => AskedImages = {}
    <3>1. request.do = "usage" \/ Devices = <<>> => AskedDevices = {}
      BY DevicesAsked
    <3> QED BY <3>1, ImageDevices
  <2>3. Handled(AskedImages, images', Len(Devices) + 1) /\ Linked(AskedImages, connected', Len(Devices) + 1)
    BY <2>1, <2>2 DEF Handled, Linked, ForFirst
  <2>4. OnlyStarted'
    BY <2>1 DEF OnlyStarted
  <2> QED BY <2>3, <2>4, HandledStays DEF RightAt, Loading
<1> QED BY <1>2, <1>3, <1>4 DEF LoadInv, LoadPcs, Good

\* GetShellArgcArgv.
LEMMA LoadStarts ==
  ASSUME Typed, request.tool = "LoadOpRom", Frame, LoadInv, GetShellArgcArgv("flags"), UNCHANGED loadVars
  PROVE  LoadInv'
<1>1. /\ pc = "start" /\ UNCHANGED <<heap, badFree, argv, opt, want, allDevs, onlyList, noConnect, k, at, images, connected>>
      /\ pc' = "flags" \/ (Fails("shell") /\ pc' = "done")
  BY DEF GetShellArgcArgv, loadVars, Keep, Goto
<1>2. /\ opt = InitGetOpt /\ ~onlyList /\ ~noConnect /\ want = Null /\ images = {} /\ connected = {} /\ k = 1 /\ at = 1
      /\ heap = {} /\ (badFree => Fails("memory")) /\ OptShape(opt)
  BY <1>1 DEF LoadInv, LoadAt, LoadHeap
<1>3. CASE pc' = "flags"
  <2>a. opt.OptIndex = 1 /\ opt' = opt
    BY <1>1, <1>2 DEF InitGetOpt
  <2>1. NextWord = 2 /\ NextWord' = 2
    BY <2>a DEF NextWord
  <2>2. AtOption(argv, 2, {}) /\ (\A which : Seen(argv, 2, which, {}) = {}) /\ \A which : Known(argv, 2, which)
    BY WordsAssumed, AtFirstOption
  <2>3. LoadFlags'
    BY <1>1, <1>2, <2>1, <2>2 DEF LoadFlags
  <2>4. LoadAt'
    BY <1>1, <1>2, <1>3, <2>3 DEF LoadAt, OnDevice, Loading
  <2>5. LoadHeap'
    BY <1>1, <1>2, <1>3, AskedForStays DEF LoadHeap
  <2>6. RightAt'
    BY <1>1, <1>2, <1>3 DEF RightAt, Loading, OnlyStarted
  <2> QED BY <1>1, <1>2, <1>3, <2>4, <2>5, <2>6 DEF LoadInv, LoadPcs
<1>4. CASE pc' = "done" /\ Fails("shell")
  <2>1. mayFail # {}
    BY <1>4 DEF Fails
  <2> QED BY <1>1, <1>2, <1>4, <2>1, EndsEarly
<1> QED BY <1>1, <1>3, <1>4

\* A line that LoadOpRom's usage does not allow asks for the usage.
LEMMA LoadUsage ==
  ASSUME Typed, request.tool = "LoadOpRom", ~LoadOpRomFits(argv)
  PROVE  request.do = "usage"
BY LoadMeant DEF LoadOpRomMeans

\* One round of the option loop.
LEMMA LoadFlagKeeps ==
  ASSUME Typed, request.tool = "LoadOpRom", Frame, LoadInv, LoadFlag
  PROVE  LoadInv'
<1> DEFINE g == GetOpt({})
<1>1. /\ pc = "flags" /\ opt' = g.next
      /\ onlyList' = (onlyList \/ (g.found /\ opt'.Opt = "l"))
      /\ noConnect' = (noConnect \/ (g.found /\ opt'.Opt = "n"))
      /\ pc' = CASE ~g.found -> "count"
                 [] g.found /\ opt'.Opt \in {"l", "n"} -> "flags"
                 [] OTHER -> "done"
      /\ UNCHANGED <<heap, badFree, argv, want, allDevs, k, at, images, connected>>
  BY DEF LoadFlag, Goto, Keep
<1>2. /\ OptShape(opt) /\ LoadFlags /\ want = Null /\ images = {} /\ connected = {} /\ k = 1 /\ at = 1
      /\ heap = {} /\ (badFree => Fails("memory")) /\ WordsOK(argv)
  BY <1>1, WordsAssumed DEF LoadInv, LoadAt, LoadHeap
<1>3. /\ AtOption(argv, NextWord, {}) /\ Known(argv, NextWord, {"l", "n"})
      /\ onlyList <=> Seen(argv, NextWord, {"l"}, {}) # {}
      /\ noConnect <=> Seen(argv, NextWord, {"n"}, {}) # {}
  BY <1>2 DEF LoadFlags
<1>4. CASE g.found
  <2>1. OptShape(opt)' /\ OptionFound(argv, NextWord, opt', {}) /\ NextWord' = opt'.OptIndex + 1
    BY <1>1, <1>2, <1>3, <1>4, GetOptFound DEF OptShape, NextWord
  <2>2. /\ opt'.Opt = argv[NextWord][2] /\ AtOption(argv, NextWord', {})
        /\ NextWord \in 2..Len(argv) /\ IsOption(argv[NextWord]) /\ InOptions(argv, NextWord, {})
    BY <2>1 DEF OptionFound
  <2>3. CASE opt'.Opt \in {"l", "n"}
    <3>1. pc' = "flags"
      BY <1>1, <1>4, <2>3
    <3>2. Known(argv, NextWord', {"l", "n"})
      BY <1>2, <1>3, <2>1, <2>2, <2>3, KnownGrows
    <3>3. /\ Seen(argv, NextWord', {"l"}, {})
             = Seen(argv, NextWord, {"l"}, {}) \cup (IF opt'.Opt \in {"l"} THEN {NextWord} ELSE {})
          /\ Seen(argv, NextWord', {"n"}, {})
             = Seen(argv, NextWord, {"n"}, {}) \cup (IF opt'.Opt \in {"n"} THEN {NextWord} ELSE {})
      <4>1. \A which : Seen(argv, opt'.OptIndex + 1, which, {})
                         = Seen(argv, NextWord, which, {}) \cup (IF argv[NextWord][2] \in which THEN {NextWord} ELSE {})
        BY <1>2, <2>1, SeenGrows
      <4>2. opt'.Opt = argv[NextWord][2] /\ NextWord' = opt'.OptIndex + 1
        BY <2>1, <2>2
      <4> QED BY <4>1, <4>2
    <3>4. LoadFlags'
      <4>1. onlyList' <=> Seen(argv, NextWord', {"l"}, {}) # {}
        BY <1>1, <1>3, <1>4, <3>3
      <4>2. noConnect' <=> Seen(argv, NextWord', {"n"}, {}) # {}
        BY <1>1, <1>3, <1>4, <3>3
      <4> QED BY <1>1, <2>2, <3>2, <4>1, <4>2 DEF LoadFlags
    <3>5. LoadAt'
      BY <1>1, <1>2, <3>1, <3>4 DEF LoadAt, OnDevice, Loading
    <3>6. LoadHeap'
      BY <1>1, <1>2, <3>1, AskedForStays DEF LoadHeap
    <3>7. RightAt'
      BY <1>1, <1>2, <3>1 DEF RightAt, Loading, OnlyStarted
    <3> QED BY <2>1, <3>1, <3>5, <3>6, <3>7 DEF LoadInv, LoadPcs
  <2>4. CASE opt'.Opt \notin {"l", "n"}
    <3>1. pc' = "done"
      BY <1>1, <1>4, <2>4
    <3>2. ~LoadOpRomFits(argv)
      BY <2>2, <2>4 DEF LoadOpRomFits
    <3> QED BY <1>1, <1>2, <2>1, <3>1, <3>2, LoadUsage, EndsEarly
  <2> QED BY <2>3, <2>4
<1>5. CASE ~g.found
  <2>1. OptShape(opt)' /\ OptionsOver(argv, NextWord, NextWord', {})
    BY <1>1, <1>2, <1>3, <1>5, GetOptOver DEF OptShape, NextWord
  <2>2. NextWord \in Nat
    BY <1>3, <1>2 DEF AtOption, WordsOK
  <2>3. pc' = "count" /\ (onlyList' <=> onlyList) /\ (noConnect' <=> noConnect)
    <3>1. pc' = "count"
      BY <1>1, <1>5
    <3> QED BY <3>1, <1>1, <1>5
  <2>4. \A m \in 2..Len(argv) : InOptions(argv, m, {}) /\ IsOption(argv[m]) => argv[m][2] \in {"l", "n"}
    BY <1>2, <1>3, <2>1, <2>2, KnownAll
  <2>5. /\ Seen(argv, NextWord, {"l"}, {}) = Options(argv, {"l"}, {})
        /\ Seen(argv, NextWord, {"n"}, {}) = Options(argv, {"n"}, {})
    BY <1>2, <2>1, <2>2, SeenAll
  <2>6. LoadCount'
    <3>1. Operands(argv, {}) = NextWord'..Len(argv) /\ NextWord' \in 2..(Len(argv) + 1)
      BY <2>1 DEF OptionsOver
    <3> QED BY <1>1, <1>3, <2>3, <2>4, <2>5, <3>1 DEF LoadCount
  <2>7. LoadAt'
    BY <1>1, <1>2, <2>3, <2>6 DEF LoadAt, OnDevice, Loading
  <2>8. LoadHeap'
    BY <1>1, <1>2, <2>3, AskedForStays DEF LoadHeap
  <2>9. RightAt'
    BY <1>1, <1>2, <2>3 DEF RightAt, Loading, OnlyStarted
  <2> QED BY <2>1, <2>3, <2>7, <2>8, <2>9 DEF LoadInv, LoadPcs
<1> QED BY <1>4, <1>5

\* UefiMain counts the operands: none for all devices, four for one.
LEMMA CountArgsKeeps ==
  ASSUME Typed, request.tool = "LoadOpRom", Frame, LoadInv, CountArgs
  PROVE  LoadInv'
<1> DEFINE i == opt.OptIndex
           L == Len(argv)
<1>1. /\ pc = "count"
      /\ \/ L - i = 0 /\ allDevs' = TRUE /\ want' = want /\ pc' = "locate"
         \/ /\ L - i = 4 /\ pc' = "locate"
            /\ want' = [w \in 1..4 |-> Argv(i + w - 1)[1]]
         \/ L - i \notin {0, 4} /\ pc' = "done" /\ UNCHANGED <<want, allDevs>>
      /\ UNCHANGED <<heap, badFree, argv, opt, onlyList, noConnect, k, at, images, connected>>
  BY DEF CountArgs, Goto, Keep, Argc
<1>2. /\ OptShape(opt) /\ LoadCount /\ want = Null /\ images = {} /\ connected = {} /\ k = 1 /\ at = 1
      /\ heap = {} /\ (badFree => Fails("memory"))
  BY <1>1 DEF LoadInv, LoadAt, LoadHeap
<1>3. /\ L \in Nat /\ i \in Nat /\ NextWord = i + 1 /\ i + 1 \in 2..(L + 1)
      /\ Operands(argv, {}) = (i + 1)..L
      /\ onlyList <=> Options(argv, {"l"}, {}) # {}
      /\ noConnect <=> Options(argv, {"n"}, {}) # {}
  BY <1>2, WordsAssumed DEF LoadCount, OptShape, NextWord, WordsOK
<1>4. LoadOpRomMeans(argv, request)
  BY LoadMeant
<1>5. OptShape(opt)'
  BY <1>1, <1>2 DEF OptShape
<1>6. ASSUME L - i \in {0, 4} PROVE LoadOpRomFits(argv)
  <2>1. Operands(argv, {}) \in {{}, (L - 3)..L}
    <3>1. CASE L - i = 0
      <4>1. (i + 1)..L = {}
        BY <1>3, <3>1
      <4> QED BY <1>3, <4>1
    <3>2. CASE L - i = 4
      <4>1. i + 1 = L - 3
        BY <1>3, <3>2
      <4> QED BY <1>3, <4>1
    <3> QED BY <1>6, <3>1, <3>2
  <2> QED BY <1>2, <2>1 DEF LoadCount, LoadOpRomFits
<1>7. ASSUME L - i \in {0, 4}, pc' = "locate", want' = Null => allDevs',
             Operands(argv, {}) = {} => want' = Null,
             Operands(argv, {}) # {} => want' = [w \in 1..4 |-> argv[L - 4 + w][1]] /\ want' # Null
      PROVE  LoadInv'
  <2>1. /\ request.do = IF Options(argv, {"l"}, {}) # {} THEN "list"
                        ELSE IF Operands(argv, {}) = {} THEN "all" ELSE "one"
        /\ request.noConnect = (Options(argv, {"n"}, {}) # {})
        /\ request.do = "one" => request.location = [w \in 1..4 |-> argv[L - 4 + w][1]]
    BY <1>4, <1>6, <1>7 DEF LoadOpRomMeans
  <2>2. LoadAgrees'
    <3>1. request.do \in {"all", "list", "one"} /\ (onlyList <=> request.do = "list")
          /\ (noConnect <=> request.noConnect)
      BY <1>3, <2>1
    <3>2. request.do = "all" => want' = Null
      BY <1>7, <2>1
    <3>3. request.do = "one" => want' = request.location /\ want' # Null
      BY <1>7, <2>1
    <3> QED BY <1>1, <1>7, <3>1, <3>2, <3>3 DEF LoadAgrees, Frame
  <2>3. LoadAt'
    BY <1>1, <1>2, <1>7, <2>2 DEF LoadAt, OnDevice, Loading
  <2>4. LoadHeap'
    BY <1>1, <1>2, <1>7, AskedForStays DEF LoadHeap
  <2>5. RightAt'
    BY <1>1, <1>2, <1>7 DEF RightAt, Loading, OnlyStarted
  <2> QED BY <1>5, <1>7, <2>3, <2>4, <2>5 DEF LoadInv, LoadPcs
<1>8. CASE L - i = 0 /\ allDevs' = TRUE /\ want' = want /\ pc' = "locate"
  <2>1. Operands(argv, {}) = {}
    BY <1>3, <1>8
  <2> QED BY <1>2, <1>7, <1>8, <2>1
<1>9. CASE L - i = 4 /\ pc' = "locate" /\ want' = [w \in 1..4 |-> Argv(i + w - 1)[1]]
  <2>1. Operands(argv, {}) # {}
    <3>1. L \in (i + 1)..L
      BY <1>3, <1>9
    <3> QED BY <1>3, <3>1
  <2>2. \A w \in 1..4 : i + w - 1 + 1 = L - 4 + w
    BY <1>3, <1>9
  <2>3. \A w \in 1..4 : Argv(i + w - 1)[1] = argv[L - 4 + w][1]
    BY <2>2 DEF Argv
  <2>4. want' = [w \in 1..4 |-> argv[L - 4 + w][1]]
    BY <1>9, <2>3
  <2>5. want' # Null
    <3>1. DOMAIN want' = 1..4 /\ 1 \in 1..4
      BY <1>9
    <3>2. DOMAIN Null = {}
      BY DEF Null
    <3> QED BY <3>1, <3>2
  <2> QED BY <1>7, <1>9, <2>1, <2>4, <2>5
<1>10. CASE L - i \notin {0, 4} /\ pc' = "done" /\ UNCHANGED <<want, allDevs>>
  <2>1. ~LoadOpRomFits(argv)
    <3>1. SUFFICES ASSUME Operands(argv, {}) \in {{}, (L - 3)..L} PROVE FALSE
      BY DEF LoadOpRomFits
    <3>2. i + 1 <= L
      BY <1>3, <1>10
    <3>3. i + 1 \in (i + 1)..L
      BY <1>3, <3>2
    <3>4. (i + 1)..L = (L - 3)..L
      BY <1>3, <3>1, <3>3
    <3>5. L - 3 <= i + 1
      BY <1>3, <3>3, <3>4
    <3>6. L - 3 \in (L - 3)..L
      BY <1>3
    <3>7. i + 1 <= L - 3
      BY <1>3, <3>4, <3>6
    <3> QED BY <1>3, <1>10, <3>5, <3>7
  <2> QED BY <1>1, <1>2, <1>5, <1>10, <2>1, LoadUsage, EndsEarly
<1> QED BY <1>1, <1>8, <1>9, <1>10

\* LocateHandleBuffer.
LEMMA LocateHandlesKeeps ==
  ASSUME Typed, request.tool = "LoadOpRom", Frame, LoadInv, LocateHandles
  PROVE  LoadInv'
<1>1. /\ pc = "locate" /\ UNCHANGED <<argv, opt, want, allDevs, onlyList, noConnect, k, at, images, connected>>
      /\ \/ Devices # <<>> /\ Allocated({"handles"}, {}) /\ pc' = "device"
         \/ (Devices # <<>> => Fails("handles")) /\ pc' = "done" /\ UNCHANGED <<heap, badFree>>
  BY DEF LocateHandles, UnchangedRest, Goto, Keep
<1>2. /\ OptShape(opt) /\ k = 1 /\ at = 1 /\ heap = {} /\ (badFree => Fails("memory")) /\ LoadAgrees
      /\ Good => images = {} /\ connected = {}
  BY <1>1 DEF LoadInv, LoadAt, LoadHeap, RightAt, Good
<1>3. OptShape(opt)' /\ LoadAgrees' /\ Good' = Good
  BY <1>1, <1>2 DEF OptShape, LoadAgrees, Good, Frame
<1>4. CASE Devices # <<>> /\ Allocated({"handles"}, {}) /\ pc' = "device"
  <2>1. heap' = {"handles"} /\ (badFree' => badFree)
    BY <1>2, <1>4 DEF Allocated
  <2>2. 1 \in DOMAIN Devices
    <3>1. IsSequence(Devices)
      BY LoadOpRomAssumption
    <3>2. Len(Devices) \in Nat /\ Devices = [n \in 1..Len(Devices) |-> Devices[n]]
      BY <3>1 DEF IsSequence
    <3>3. Len(Devices) # 0
      <4>1. SUFFICES ASSUME Len(Devices) = 0 PROVE FALSE
        OBVIOUS
      <4>2. 1..0 = {}
        OBVIOUS
      <4>3. Devices = [n \in {} |-> Devices[n]]
        BY <3>2, <4>1, <4>2
      <4> QED BY <1>4, <4>3
    <3> QED BY <3>2, <3>3
  <2>3. LoadAt'
    BY <1>1, <1>2, <1>3, <1>4, <2>2 DEF LoadAt, OnDevice, Loading
  <2>4. LoadHeap'
    BY <1>2, <1>4, <2>1, AskedForStays DEF LoadHeap, HeapIs
  <2>5. ASSUME Good PROVE RightAt'
    <3>1. images' = {} /\ connected' = {} /\ k' = 1
      BY <1>1, <1>2, <2>5
    <3>2. ForFirst(AskedImages, 1) = {}
      <4>1. \A j \in AskedImages : ~(j.dev < 1)
        BY ImageDevices
      <4> QED BY <4>1 DEF ForFirst
    <3>3. Handled(AskedImages, images', k') /\ Linked(AskedImages, connected', k')
      BY <3>1, <3>2 DEF Handled, Linked
    <3>4. OnlyStarted'
      BY <3>1 DEF OnlyStarted
    <3> QED BY <1>4, <3>3, <3>4, HandledStays DEF RightAt, Loading
  <2> QED BY <1>3, <1>4, <2>3, <2>4, <2>5 DEF LoadInv, LoadPcs, Good
<1>5. CASE (Devices # <<>> => Fails("handles")) /\ pc' = "done" /\ UNCHANGED <<heap, badFree>>
  <2>1. mayFail # {} \/ Devices = <<>>
    BY <1>5 DEF Fails
  <2> QED BY <1>1, <1>3, <1>5, <2>1, EndsEarly
<1> QED BY <1>1, <1>4, <1>5

\* What is known while the devices are looked at.
LEMMA OnDeviceFacts ==
  ASSUME Typed, request.tool = "LoadOpRom", LoadInv, pc \in OnDevice
  PROVE  /\ k \in DOMAIN Devices /\ k \in 1..Len(Devices) /\ k \in Nat /\ Len(Devices) \in Nat
         /\ RomOK(Rom) /\ LoadAgrees
         /\ Good => RightAt /\ OnlyStarted
         /\ onlyList => k \notin AskedDevices
<1>1. k \in DOMAIN Devices /\ k \in 1..Len(Devices) /\ Len(Devices) \in Nat /\ k \in Nat /\ LoadAgrees
  BY DevicesAre DEF LoadInv, LoadAt
<1>2. RomOK(Rom)
  BY <1>1, DevicesAre DEF Rom
<1>3. Good => RightAt /\ OnlyStarted
  BY DEF LoadInv, RightAt, Good
<1>4. onlyList => k \notin AskedDevices
  BY <1>1, DevicesAsked DEF LoadAgrees
<1> QED BY <1>1, <1>2, <1>3, <1>4

\* What is allocated stays allocated.
LEMMA HeapStays ==
  ASSUME UNCHANGED <<heap, badFree>>, NEW least, HeapIs(least)
  PROVE  least \subseteq heap' /\ heap' \subseteq least \cup Leaked'
BY DEF HeapIs, Leaked

\* UefiMain opens PciIo of a device and asks where it is.
LEMMA DeviceKeeps ==
  ASSUME Typed, request.tool = "LoadOpRom", Frame, LoadInv, Device
  PROVE  LoadInv'
<1> DEFINE wanted == allDevs \/ want = Devices[k].location
<1>1. /\ pc = "device" /\ UNCHANGED <<heap, badFree, images, connected>> /\ UnchangedRest
      /\ \/ wanted /\ Rom # Null /\ pc' = "rom" /\ UNCHANGED <<k, at>>
         \/ wanted /\ Rom = Null /\ NextDevice
         \/ (wanted => Fails("protocol")) /\ SkipDevice
  BY DEF Device, Goto, Keep
<1>2. pc \in OnDevice
  BY <1>1 DEF OnDevice
<1>3. /\ k \in DOMAIN Devices /\ k \in 1..Len(Devices) /\ k \in Nat /\ Len(Devices) \in Nat
      /\ RomOK(Rom) /\ LoadAgrees /\ (Good => RightAt /\ OnlyStarted)
  BY <1>2, OnDeviceFacts
<1>4. at = 1 /\ HeapIs({"handles"}) /\ (badFree => Fails("memory"))
  BY <1>1 DEF LoadInv, LoadAt, LoadHeap
<1>5. HeapIs({"handles"})' /\ (badFree' => Fails("memory"))
  BY <1>1, <1>4, HeapStays DEF HeapIs
<1>6. Good => /\ wanted => onlyList \/ k \in AskedDevices
              /\ ~wanted => k \notin AskedDevices
  BY <1>3, WantedAreAsked DEF Good
<1>7. Good => Handled(AskedImages, images, k) /\ Linked(AskedImages, connected, k)
  BY <1>1, <1>3 DEF RightAt
<1>8. CASE wanted /\ Rom # Null /\ pc' = "rom" /\ UNCHANGED <<k, at>>
  <2>1. Rom' = Rom /\ Len(Rom) \in Nat /\ Len(Rom) # 0 /\ DOMAIN Rom = 1..Len(Rom)
    BY <1>3, <1>8, RomBlocks DEF Rom
  <2>2. at' \in DOMAIN Rom' /\ at \in DOMAIN Rom /\ 1 \in DOMAIN Rom
    BY <1>4, <1>8, <2>1
  <2>3. FirstUsable
    <3>1. 1 \in Walk(Rom)
      BY <2>2, WalkClosed DEF Closed
    <3>2. \A b \in Usable(Rom) : b \in Walk(Rom) /\ b \in 1..Len(Rom)
      BY <2>1, WalkClosed DEF Usable
    <3>3. \A b \in Usable(Rom) : 1 <= b
      BY <2>1, <3>2
    <3> QED BY <1>4, <3>1, <3>3 DEF FirstUsable
  <2>4. FirstUsable'
    BY <1>8, <2>1, <2>3 DEF FirstUsable
  <2>5. LoadHeap'
    BY <1>5, <1>8, AskedForStays DEF LoadHeap
  <2>6. ASSUME Good PROVE RightAt'
    <3>1. (onlyList \/ k \in AskedDevices)'
      BY <1>1, <1>6, <1>8, <2>6, AskedForStays DEF UnchangedRest
    <3>2. Handled(AskedImages, images', k') /\ Linked(AskedImages, connected', k')
      BY <1>1, <1>7, <1>8, <2>6
    <3>3. OnlyStarted'
      BY <1>1, <1>3, <2>6 DEF OnlyStarted, Frame
    <3> QED BY <1>8, <2>4, <3>1, <3>2, <3>3, HandledStays DEF RightAt, Loading
  <2> QED BY <1>1, <1>2, <1>3, <1>8, <2>2, <2>5, <2>6, OnTheWay DEF OnDevice, Loading
<1>9. CASE wanted /\ Rom = Null /\ NextDevice
  <2>1. Usable(Devices[k].rom) = {}
    <3>1. DOMAIN Rom = {}
      BY <1>9 DEF Null
    <3> QED BY <3>1, WalkClosed DEF Usable, Rom
  <2>2. Good => Handled(AskedImages, images, k + 1) /\ Linked(AskedImages, connected, k + 1)
    BY <1>3, <1>7, <2>1, NothingHere
  <2> QED BY <1>1, <1>2, <1>3, <1>5, <1>6, <1>9, <2>2, NextDeviceKeeps
<1>10. CASE (wanted => Fails("protocol")) /\ SkipDevice
  <2>1. \/ pc' = "device" /\ k' = k + 1 /\ k < Len(Devices)
        \/ pc' = "finish" /\ k' = k /\ k = Len(Devices)
    BY <1>3, <1>10 DEF SkipDevice, Goto
  <2>2. at' = 1
    BY <1>10 DEF SkipDevice
  <2>3. Good => k \notin AskedDevices \/ mayFail # {}
    BY <1>6, <1>10 DEF Fails
  <2>4. Good => Handled(AskedImages, images, k + 1) /\ Linked(AskedImages, connected, k + 1)
    BY <1>3, <1>7, <2>3, NothingHere
  <2> QED BY <1>1, <1>2, <1>3, <1>5, <2>1, <2>2, <2>4, DeviceDone
<1> QED BY <1>1, <1>8, <1>9, <1>10

\* One round of ParseImages: nothing for the host is passed by.
LEMMA ParseImagesKeeps ==
  ASSUME Typed, request.tool = "LoadOpRom", Frame, LoadInv, ParseImages
  PROVE  LoadInv'
<1> DEFINE further == at' = at + Advance /\ UNCHANGED <<k, pc>>
           fits == Supported(Header, ImageLength(Header)) /\ ~onlyList
<1>1. /\ pc = "rom" /\ UNCHANGED <<heap, badFree, images, connected>> /\ UnchangedRest
  BY DEF ParseImages, Keep
<1>2. pc \in OnDevice
  BY <1>1 DEF OnDevice
<1>3. /\ k \in DOMAIN Devices /\ k \in 1..Len(Devices) /\ k \in Nat /\ Len(Devices) \in Nat
      /\ RomOK(Rom) /\ LoadAgrees /\ (Good => RightAt /\ OnlyStarted) /\ (onlyList => k \notin AskedDevices)
  BY <1>2, OnDeviceFacts
<1>4. at \in DOMAIN Rom /\ HeapIs({"handles"}) /\ (badFree => Fails("memory"))
  BY <1>1 DEF LoadInv, LoadAt, LoadHeap
<1>5. HeapIs({"handles"})' /\ (badFree' => Fails("memory"))
  BY <1>1, <1>4, HeapStays DEF HeapIs
<1>6. Good => /\ Handled(AskedImages, images, k) /\ Linked(AskedImages, connected, k)
              /\ onlyList \/ (k \in AskedDevices /\ FirstUsable)
  BY <1>1, <1>3 DEF RightAt
<1>7. DOMAIN Rom = 1..Len(Rom) /\ Len(Rom) \in Nat /\ at \in Nat /\ Advance = Stride(Rom, at) /\ Advance \in Nat
  BY <1>3, <1>4, RomBlocks DEF Advance, Stride, Header
<1>8. at + Advance <= Len(Rom) <=> at + Advance \in DOMAIN Rom
  BY <1>4, <1>7
<1>9. at \in Usable(Rom) => fits \/ onlyList
  <2>1. SUFFICES ASSUME at \in Usable(Rom) PROVE Supported(Header, ImageLength(Header))
    OBVIOUS
  <2>2. Header # Null /\ Header.kind = "efi" /\ Header.machine = Host /\ Header.init <= Header.length /\ Header.offsetOk
    BY <2>1 DEF Usable, Header
  <2>3. Header.init \in Nat /\ Header.length \in Nat
    BY <1>3, <1>4, <2>2 DEF RomOK, IsHeader, Header
  <2>4. ImageLength(Header) = Header.length
    BY <2>2 DEF ImageLength
  <2> QED BY <2>2, <2>3, <2>4 DEF Supported
\* The tool stops in this ROM: there is nothing for the host in what follows.
<1>10. ASSUME NextDevice, Header = Null \/ ~Header.pcir \/ ~fits,
              ~GoesOn(Rom, at) \/ at + Advance \notin DOMAIN Rom
       PROVE  LoadInv'
  <2>1. ASSUME Good, ~onlyList PROVE Usable(Rom) = {}
    <3>1. at \in Walk(Rom) /\ \A c \in Usable(Rom) : at <= c
      BY <1>6, <2>1 DEF FirstUsable
    <3>2. at \notin Usable(Rom)
      BY <1>9, <1>10, <2>1 DEF Usable, Header
    <3> QED BY <1>3, <1>7, <1>10, <3>1, <3>2, WalkOn
  <2>2. Good => k \notin AskedDevices \/ Usable(Devices[k].rom) = {}
    BY <1>3, <2>1 DEF Rom
  <2>3. Good => Handled(AskedImages, images, k + 1) /\ Linked(AskedImages, connected, k + 1)
    BY <1>3, <1>6, <2>2, NothingHere
  <2> QED BY <1>1, <1>2, <1>3, <1>5, <1>6, <1>10, <2>3, NextDeviceKeeps
\* It goes on behind a block that is not for the host.
<1>11. ASSUME further, Header = Null \/ ~fits, GoesOn(Rom, at), at + Advance \in DOMAIN Rom
       PROVE  LoadInv'
  <2>1. Rom' = Rom /\ k' = k /\ pc' = "rom" /\ at' = at + Advance /\ at' \in DOMAIN Rom'
    BY <1>1, <1>11 DEF Rom
  <2>2. ASSUME Good, ~onlyList PROVE FirstUsable'
    <3>1. at \in Walk(Rom) /\ \A c \in Usable(Rom) : at <= c
      BY <1>6, <2>2 DEF FirstUsable
    <3>2. at \notin Usable(Rom)
      BY <1>9, <1>11, <2>2 DEF Usable, Header
    <3>3. at + Advance \in Walk(Rom) /\ \A c \in Usable(Rom) : at + Advance <= c
      BY <1>3, <1>7, <1>11, <3>1, <3>2, WalkOn
    <3> QED BY <2>1, <3>3 DEF FirstUsable
  <2>3. LoadHeap'
    BY <1>5, <2>1, AskedForStays DEF LoadHeap
  <2>4. ASSUME Good PROVE RightAt'
    <3>1. (onlyList \/ (k \in AskedDevices /\ FirstUsable))'
      BY <1>1, <1>6, <2>1, <2>2, <2>4, AskedForStays DEF UnchangedRest
    <3>2. Handled(AskedImages, images', k') /\ Linked(AskedImages, connected', k')
      BY <1>1, <1>6, <2>1, <2>4
    <3>3. OnlyStarted'
      BY <1>1, <1>3, <2>4 DEF OnlyStarted, Frame
    <3> QED BY <2>1, <3>1, <3>2, <3>3, HandledStays DEF RightAt, Loading
  <2> QED BY <1>1, <1>2, <1>3, <2>1, <2>3, <2>4, OnTheWay DEF OnDevice, Loading
<1>12. CASE Header = Null
  <2>1. IF at + Advance > Len(Rom) THEN NextDevice ELSE further
    BY <1>12 DEF ParseImages
  <2>2. GoesOn(Rom, at)
    BY <1>12 DEF GoesOn, Header
  <2>3. CASE at + Advance > Len(Rom)
    BY <1>7, <1>8, <1>10, <1>12, <2>1, <2>3
  <2>4. CASE ~(at + Advance > Len(Rom))
    BY <1>7, <1>8, <1>11, <1>12, <2>1, <2>2, <2>4
  <2> QED BY <2>3, <2>4
<1>13. CASE Header # Null /\ ~Header.pcir
  <2>1. NextDevice
    BY <1>13 DEF ParseImages
  <2>2. ~GoesOn(Rom, at)
    BY <1>13 DEF GoesOn, Header
  <2> QED BY <1>10, <1>13, <2>1, <2>2
<1>14. CASE Header # Null /\ Header.pcir /\ fits
  <2>1. pc' = "load" /\ UNCHANGED <<k, at>>
    BY <1>14 DEF ParseImages, Goto
  <2>2. Rom' = Rom /\ Header' = Header /\ at' \in DOMAIN Rom'
    BY <1>4, <2>1 DEF Rom, Header
  <2>3. ASSUME Good PROVE k \in AskedDevices /\ FirstUsable /\ at \in Usable(Rom)
    <3>1. k \in AskedDevices /\ FirstUsable
      BY <1>6, <1>14, <2>3
    <3>2. Header.kind = "efi" /\ Header.machine = Host /\ ImageLength(Header) >= Header.init /\ Header.offsetOk
      BY <1>14 DEF Supported
    <3>3. Header.init \in Nat /\ Header.length \in Nat /\ ImageLength(Header) = Header.length
      BY <1>3, <1>4, <1>14, <3>2 DEF RomOK, IsHeader, Header, ImageLength
    <3>4. Header.init <= Header.length
      BY <3>2, <3>3
    <3> QED BY <1>14, <3>1, <3>2, <3>4 DEF Usable, FirstUsable, Header
  <2>4. LoadHeap'
    BY <1>5, <2>1, AskedForStays DEF LoadHeap
  <2>5. ASSUME Good PROVE RightAt'
    <3>1. (k \in AskedDevices /\ FirstUsable /\ at \in Usable(Rom))'
      BY <2>1, <2>2, <2>3, <2>5, AskedForStays DEF FirstUsable
    <3>2. Handled(AskedImages, images', k') /\ Linked(AskedImages, connected', k')
      BY <1>1, <1>6, <2>1, <2>5
    <3>3. OnlyStarted'
      BY <1>1, <1>3, <2>5 DEF OnlyStarted, Frame
    <3> QED BY <2>1, <3>1, <3>2, <3>3, HandledStays DEF RightAt, Loading
  <2> QED BY <1>1, <1>2, <1>3, <1>14, <2>1, <2>2, <2>4, <2>5, OnTheWay DEF OnDevice, Loading
<1>15. CASE Header # Null /\ Header.pcir /\ ~fits
  <2>1. IF at + Advance > Len(Rom) \/ Header.last THEN NextDevice ELSE further
    BY <1>15 DEF ParseImages
  <2>2. GoesOn(Rom, at) <=> ~Header.last
    BY <1>15 DEF GoesOn, Header
  <2>3. CASE at + Advance > Len(Rom) \/ Header.last
    BY <1>7, <1>8, <1>10, <1>15, <2>1, <2>2, <2>3
  <2>4. CASE ~(at + Advance > Len(Rom) \/ Header.last)
    BY <1>7, <1>8, <1>11, <1>15, <2>1, <2>2, <2>4
  <2> QED BY <2>3, <2>4
<1> QED BY <1>12, <1>13, <1>14, <1>15

\* While an image is loaded: it is the one that is asked for.
LEMMA LoadingFacts ==
  ASSUME Typed, request.tool = "LoadOpRom", LoadInv, pc \in Loading
  PROVE  /\ pc \in OnDevice /\ at \in DOMAIN Rom /\ Header # Null /\ ~onlyList /\ (badFree => Fails("memory"))
         /\ Good => /\ RightAt /\ OnlyStarted /\ k \in AskedDevices /\ FirstUsable /\ at \in Usable(Rom)
                    /\ ForFirst(AskedImages, k + 1) = ForFirst(AskedImages, k) \cup {Tag("started")}
                    /\ Tag("started") \in AskedImages
<1>1. pc \in OnDevice /\ at \in DOMAIN Rom /\ Header # Null /\ ~onlyList /\ (badFree => Fails("memory"))
  BY DEF LoadInv, LoadAt, LoadHeap, OnDevice
<1>2. ASSUME Good
      PROVE  /\ RightAt /\ OnlyStarted /\ k \in AskedDevices /\ FirstUsable /\ at \in Usable(Rom)
             /\ ForFirst(AskedImages, k + 1) = ForFirst(AskedImages, k) \cup {Tag("started")}
             /\ Tag("started") \in AskedImages
  <2>1. RightAt /\ OnlyStarted
    BY <1>1, <1>2, OnDeviceFacts
  <2>2. k \in AskedDevices /\ FirstUsable /\ at \in Usable(Rom)
    BY <2>1 DEF RightAt
  <2>3. at \in Usable(Devices[k].rom) /\ \A b \in Usable(Devices[k].rom) : at <= b
    BY <2>2 DEF FirstUsable, Rom
  <2> QED BY <2>1, <2>2, <2>3, ForFirstNext DEF Tag
<1> QED BY <1>1, <1>2

\* From one step of LoadImage to the next.
LEMMA LoadingOn ==
  ASSUME Typed, request.tool = "LoadOpRom", Frame, LoadInv, pc \in Loading, pc' \in Loading, UnchangedRest,
         UNCHANGED <<k, at>>, LoadHeap',
         Good => /\ pc' \in {"path", "core"} =>
                      Handled(AskedImages, images', k) /\ Linked(AskedImages, connected', k)
                 /\ pc' = "start image" =>
                      Handled(AskedImages, images' \ {Tag("loaded")}, k) /\ Linked(AskedImages, connected', k)
                 /\ pc' = "connect" =>
                      /\ Handled(AskedImages, images', k + 1) /\ Linked(AskedImages, connected', k)
                      /\ Tag("started") \in images' /\ ~request.noConnect
                 /\ pc' = "free" => Handled(AskedImages, images', k + 1) /\ Linked(AskedImages, connected', k + 1)
                 /\ OnlyStarted',
         pc' # "load"
  PROVE  LoadInv'
<1>1. /\ pc \in OnDevice /\ at \in DOMAIN Rom /\ Header # Null /\ ~onlyList /\ k \in DOMAIN Devices
      /\ Good => k \in AskedDevices /\ FirstUsable /\ at \in Usable(Rom)
  BY LoadingFacts, OnDeviceFacts
<1>2. Rom' = Rom /\ Header' = Header /\ k' = k /\ at' = at /\ (\A st : Tag(st)' = Tag(st))
  BY DEF Rom, Header, Tag
<1>3. ASSUME Good PROVE RightAt'
  <2>1. (k \in AskedDevices /\ FirstUsable /\ at \in Usable(Rom))'
    BY <1>1, <1>2, <1>3, AskedForStays DEF FirstUsable
  <2>2. request' = request /\ pc' \in Loading /\ pc' # "load"
    BY DEF Frame
  <2>3. CASE pc' \in {"path", "core"}
    BY <1>2, <1>3, <2>1, <2>3, HandledStays DEF RightAt, Loading
  <2>4. CASE pc' = "start image"
    BY <1>2, <1>3, <2>1, <2>4, HandledStays DEF RightAt, Loading
  <2>5. CASE pc' = "connect"
    BY <1>2, <1>3, <2>1, <2>2, <2>5, HandledStays DEF RightAt, Loading
  <2>6. CASE pc' = "free"
    BY <1>2, <1>3, <2>1, <2>6, HandledStays DEF RightAt, Loading
  <2> QED BY <2>2, <2>3, <2>4, <2>5, <2>6 DEF Loading
<1>4. pc' \in OnDevice /\ pc' # "device"
  BY DEF OnDevice, Loading
<1> QED BY <1>1, <1>2, <1>3, <1>4, OnTheWay

\* The same image.
LEMMA UnpackedStays ==
  ASSUME UNCHANGED <<k, at>> PROVE Unpacked' = Unpacked /\ Header' = Header
BY DEF Unpacked, Header, Rom

\* LoadImage decompresses; whatever fails, the device is done with.
LEMMA DecompressKeeps ==
  ASSUME Typed, request.tool = "LoadOpRom", Frame, LoadInv, Decompress
  PROVE  LoadInv'
<1>1. /\ pc = "load" /\ UNCHANGED <<images, connected>> /\ UnchangedRest
      /\ \/ ~Header.compressed /\ pc' = "path" /\ UNCHANGED <<heap, badFree, k, at>>
         \/ Header.compressed /\ pc' = "path" /\ Allocated({"image", "scratch"}, {"scratch"}) /\ UNCHANGED <<k, at>>
         \/ (Fails("decompress") \/ Fails("memory")) /\ UNCHANGED <<heap, badFree>> /\ NextDevice
         \/ Fails("memory") /\ NextDevice /\ heap' = heap \cup {"image"} /\ badFree' = TRUE
         \/ Fails("decompress") /\ NextDevice /\ Allocated({"image", "scratch"}, {"image", "scratch"})
  BY DEF Decompress, Goto, Keep
<1>2. pc \in Loading
  BY <1>1 DEF Loading
<1>3. HeapIs({"handles"}) /\ (badFree => Fails("memory")) /\ pc \in OnDevice /\ k \in Nat
  BY <1>1, <1>2, LoadingFacts, OnDeviceFacts DEF LoadInv, LoadHeap
<1>4. Good => /\ Handled(AskedImages, images, k) /\ Linked(AskedImages, connected, k)
              /\ k \in AskedDevices /\ OnlyStarted
  BY <1>1, <1>2, LoadingFacts DEF RightAt
<1>5. Good => OnlyStarted'
  BY <1>1, <1>4 DEF OnlyStarted, Frame
<1>6. Fails("memory")' = Fails("memory")
  BY AskedForStays
\* On any failure the next device is the turn.
<1>7. ASSUME NextDevice, HeapIs({"handles"})', badFree' => Fails("memory"), mayFail # {}
      PROVE  LoadInv'
  <2>1. Good => Handled(AskedImages, images, k + 1) /\ Linked(AskedImages, connected, k + 1)
    BY <1>3, <1>4, <1>7, NothingHere
  <2> QED BY <1>1, <1>3, <1>4, <1>7, <2>1, NextDeviceKeeps
<1>8. ASSUME pc' = "path", UNCHANGED <<k, at>>, HeapIs({"handles"} \cup Unpacked)', badFree' => Fails("memory")
      PROVE  LoadInv'
  <2>1. LoadHeap'
    BY <1>6, <1>8 DEF LoadHeap
  <2>2. Good => Handled(AskedImages, images', k) /\ Linked(AskedImages, connected', k)
    BY <1>1, <1>4
  <2> QED BY <1>1, <1>2, <1>5, <1>8, <2>1, <2>2, LoadingOn DEF Loading
<1>9. CASE ~Header.compressed /\ pc' = "path" /\ UNCHANGED <<heap, badFree, k, at>>
  <2>1. Unpacked' = {}
    BY <1>9, UnpackedStays DEF Unpacked
  <2>2. HeapIs({"handles"} \cup Unpacked)'
    BY <1>3, <1>9, <2>1 DEF HeapIs, Leaked
  <2> QED BY <1>3, <1>8, <1>9, <2>2
<1>10. CASE Header.compressed /\ pc' = "path" /\ Allocated({"image", "scratch"}, {"scratch"}) /\ UNCHANGED <<k, at>>
  <2>1. Unpacked' = {"image"}
    BY <1>10, UnpackedStays DEF Unpacked
  <2>2. heap' = (heap \cup {"image", "scratch"}) \ {"scratch"} /\ (badFree' <=> badFree)
    BY <1>10 DEF Allocated
  <2>3. HeapIs({"handles"} \cup Unpacked)'
    BY <1>3, <2>1, <2>2 DEF HeapIs, Leaked
  <2> QED BY <1>3, <1>8, <1>10, <2>2, <2>3
<1>11. CASE (Fails("decompress") \/ Fails("memory")) /\ UNCHANGED <<heap, badFree>> /\ NextDevice
  <2>1. HeapIs({"handles"})'
    BY <1>3, <1>11 DEF HeapIs, Leaked
  <2>2. mayFail # {}
    BY <1>11 DEF Fails
  <2> QED BY <1>3, <1>7, <1>11, <2>1, <2>2
<1>12. CASE Fails("memory") /\ NextDevice /\ heap' = heap \cup {"image"} /\ badFree' = TRUE
  <2>1. HeapIs({"handles"})'
    BY <1>3, <1>12 DEF HeapIs, Leaked
  <2>2. mayFail # {}
    BY <1>12 DEF Fails
  <2> QED BY <1>7, <1>12, <2>1, <2>2
<1>13. CASE Fails("decompress") /\ NextDevice /\ Allocated({"image", "scratch"}, {"image", "scratch"})
  <2>1. heap' = (heap \cup {"image", "scratch"}) \ {"image", "scratch"} /\ (badFree' <=> badFree)
    BY <1>13 DEF Allocated
  <2>2. HeapIs({"handles"})'
    BY <1>3, <2>1 DEF HeapIs, Leaked
  <2>3. mayFail # {}
    BY <1>13 DEF Fails
  <2> QED BY <1>3, <1>7, <1>13, <2>1, <2>2, <2>3
<1> QED BY <1>1, <1>9, <1>10, <1>11, <1>12, <1>13

\* AppendDevicePathNode.
LEMMA AppendNodeKeeps ==
  ASSUME Typed, request.tool = "LoadOpRom", Frame, LoadInv, AppendNode
  PROVE  LoadInv'
<1>1. /\ pc = "path" /\ UNCHANGED <<images, connected, k, at>> /\ UnchangedRest
      /\ \/ pc' = "core" /\ Allocated({"devicepath"}, {})
         \/ Fails("memory") /\ pc' = "free" /\ UNCHANGED <<heap, badFree>>
  BY DEF AppendNode, Goto, Keep
<1>2. pc \in Loading
  BY <1>1 DEF Loading
<1>3. HeapIs({"handles"} \cup Unpacked) /\ (badFree => Fails("memory")) /\ pc \in OnDevice /\ k \in Nat
  BY <1>1, <1>2, LoadingFacts, OnDeviceFacts DEF LoadInv, LoadHeap
<1>4. Good => Handled(AskedImages, images, k) /\ Linked(AskedImages, connected, k) /\ OnlyStarted
  BY <1>1, <1>2, LoadingFacts DEF RightAt
<1>5. Good => OnlyStarted'
  BY <1>1, <1>4 DEF OnlyStarted, Frame
<1>6. Fails("memory")' = Fails("memory") /\ Unpacked' = Unpacked
  BY <1>1, AskedForStays, UnpackedStays
<1>7. CASE pc' = "core" /\ Allocated({"devicepath"}, {})
  <2>1. heap' = heap \cup {"devicepath"} /\ (badFree' <=> badFree)
    BY <1>7 DEF Allocated
  <2>2. HeapIs({"handles", "devicepath"} \cup Unpacked)'
    BY <1>3, <1>6, <2>1 DEF HeapIs, Leaked
  <2>3. LoadHeap'
    BY <1>3, <1>6, <1>7, <2>1, <2>2 DEF LoadHeap
  <2>4. Good => Handled(AskedImages, images', k) /\ Linked(AskedImages, connected', k)
    BY <1>1, <1>4
  <2> QED BY <1>1, <1>2, <1>5, <1>7, <2>3, <2>4, LoadingOn DEF Loading
<1>8. CASE Fails("memory") /\ pc' = "free" /\ UNCHANGED <<heap, badFree>>
  <2>1. HeapIs({"handles"} \cup Unpacked)'
    BY <1>3, <1>6, <1>8 DEF HeapIs, Leaked
  <2>2. LoadHeap'
    BY <1>3, <1>6, <1>8, <2>1 DEF LoadHeap
  <2>3. mayFail # {}
    BY <1>8 DEF Fails
  <2>4. Good => Handled(AskedImages, images', k + 1) /\ Linked(AskedImages, connected', k + 1)
    BY <1>1, <1>3, <1>4, <2>3, NothingHere
  <2> QED BY <1>1, <1>2, <1>5, <1>8, <2>2, <2>4, LoadingOn DEF Loading
<1> QED BY <1>1, <1>7, <1>8

\* An image that is loaded and was not started is unloaded again.
LEMMA ImageFails ==
  ASSUME Typed, request.tool = "LoadOpRom", NEW is, NEW cs, k \in Nat, mayFail # {},
         Handled(AskedImages, is, k), Tag("started") \in AskedImages,
         ForFirst(AskedImages, k + 1) = ForFirst(AskedImages, k) \cup {Tag("started")}
  PROVE  /\ Handled(AskedImages, is \cup {Tag("unloaded")}, k + 1) /\ Handled(AskedImages, is, k + 1)
         /\ Linked(AskedImages, cs, k + 1)
<1>1. [Tag("started") EXCEPT !.st = "unloaded"] = Tag("unloaded")
  BY DEF Tag
<1>2. Tag("unloaded") \in Tried(AskedImages, k + 1)
  BY <1>1 DEF Tried
<1>3. k + 1 \in Nat /\ k <= k + 1
  OBVIOUS
<1>4. Tried(AskedImages, k) \subseteq Tried(AskedImages, k + 1)
  BY <1>3, TriedGrows
<1> QED BY <1>2, <1>4 DEF Handled, Linked

\* None of the images is marked as loaded when a device is looked at.
LEMMA NoneLoaded ==
  ASSUME Typed, request.tool = "LoadOpRom", NEW is, NEW n, Handled(AskedImages, is, n)
  PROVE  \A i \in is : i.st # "loaded" /\ [i EXCEPT !.st = "started"] \in AskedImages
<1> SUFFICES ASSUME NEW i \in Tried(AskedImages, n)
             PROVE  i.st # "loaded" /\ [i EXCEPT !.st = "started"] \in AskedImages
  BY DEF Handled
<1>1. PICK j \in ForFirst(AskedImages, n) : i = j \/ i = [j EXCEPT !.st = "unloaded"]
  BY DEF Tried
<1>2. j \in AskedImages /\ j = AskedOf(j.dev)
  BY <1>1, ImageDevices DEF ForFirst
<1>3. i.st \in {"started", "unloaded"} /\ [i EXCEPT !.st = "started"] = j
  BY <1>1, <1>2 DEF AskedOf
<1> QED BY <1>2, <1>3

\* gBS->LoadImage; an image refused for its signature is unloaded.
LEMMA CoreLoadStays ==
  ASSUME Typed, request.tool = "LoadOpRom", Frame, LoadInv, CoreLoad
  PROVE  LoadInv'
<1>1. /\ pc = "core" /\ UNCHANGED <<heap, badFree, connected, k, at>> /\ UnchangedRest
      /\ \/ images' = images \cup {Tag("loaded")} /\ pc' = "start image"
         \/ Fails("load") /\ pc' = "free" /\ UNCHANGED images
         \/ Fails("denied") /\ images' = images \cup {Tag("unloaded")} /\ pc' = "free"
  BY DEF CoreLoad, Goto, Keep
<1>2. pc \in Loading
  BY <1>1 DEF Loading
<1>3. /\ HeapIs({"handles", "devicepath"} \cup Unpacked) /\ (badFree => Fails("memory")) /\ pc \in OnDevice /\ k \in Nat
  BY <1>1, <1>2, LoadingFacts, OnDeviceFacts DEF LoadInv, LoadHeap
<1>4. Good => /\ Handled(AskedImages, images, k) /\ Linked(AskedImages, connected, k) /\ OnlyStarted
              /\ ForFirst(AskedImages, k + 1) = ForFirst(AskedImages, k) \cup {Tag("started")}
              /\ Tag("started") \in AskedImages
  BY <1>1, <1>2, LoadingFacts DEF RightAt
<1>5. Good => OnlyStarted'
  <2>1. images \subseteq images' /\ connected' = connected /\ request' = request
    BY <1>1 DEF Frame
  <2> QED BY <1>4, <2>1 DEF OnlyStarted
<1>6. HeapIs({"handles", "devicepath"} \cup Unpacked)' /\ (badFree' => Fails("memory")')
  BY <1>1, <1>3, AskedForStays, UnpackedStays DEF HeapIs, Leaked
<1>7. CASE images' = images \cup {Tag("loaded")} /\ pc' = "start image"
  <2>1. LoadHeap'
    BY <1>6, <1>7 DEF LoadHeap
  <2>2. Good => Handled(AskedImages, images' \ {Tag("loaded")}, k) /\ Linked(AskedImages, connected', k)
    <3>1. Tag("loaded").st = "loaded"
      BY DEF Tag
    <3>2. Good => \A i \in images : i.st # "loaded"
      BY <1>4, NoneLoaded
    <3>3. Good => images' \ {Tag("loaded")} = images
      BY <1>7, <3>1, <3>2
    <3> QED BY <1>1, <1>4, <3>3
  <2> QED BY <1>1, <1>2, <1>5, <1>7, <2>1, <2>2, LoadingOn DEF Loading
<1>8. CASE Fails("load") /\ pc' = "free" /\ UNCHANGED images
  <2>1. LoadHeap'
    BY <1>6, <1>8 DEF LoadHeap
  <2>2. mayFail # {}
    BY <1>8 DEF Fails
  <2>3. Good => Handled(AskedImages, images', k + 1) /\ Linked(AskedImages, connected', k + 1)
    BY <1>1, <1>3, <1>4, <1>8, <2>2, ImageFails
  <2> QED BY <1>1, <1>2, <1>5, <1>8, <2>1, <2>3, LoadingOn DEF Loading
<1>9. CASE Fails("denied") /\ images' = images \cup {Tag("unloaded")} /\ pc' = "free"
  <2>1. LoadHeap'
    BY <1>6, <1>9 DEF LoadHeap
  <2>2. mayFail # {}
    BY <1>9 DEF Fails
  <2>3. Good => Handled(AskedImages, images', k + 1) /\ Linked(AskedImages, connected', k + 1)
    BY <1>1, <1>3, <1>4, <1>9, <2>2, ImageFails
  <2> QED BY <1>1, <1>2, <1>5, <1>9, <2>1, <2>3, LoadingOn DEF Loading
<1> QED BY <1>1, <1>7, <1>8, <1>9

\* gBS->StartImage; an image that fails is unloaded.
LEMMA CoreStartKeeps ==
  ASSUME Typed, request.tool = "LoadOpRom", Frame, LoadInv, CoreStart
  PROVE  LoadInv'
<1>1. /\ pc = "start image" /\ UNCHANGED <<heap, badFree, connected, k, at>> /\ UnchangedRest
      /\ \/ images' = (images \ {Tag("loaded")}) \cup {Tag("started")} /\ pc' = IF noConnect THEN "free" ELSE "connect"
         \/ Fails("start") /\ images' = (images \ {Tag("loaded")}) \cup {Tag("unloaded")} /\ pc' = "free"
  BY DEF CoreStart, Goto, Keep, Image
<1>2. pc \in Loading
  BY <1>1 DEF Loading
<1>3. /\ HeapIs({"handles", "devicepath"} \cup Unpacked) /\ (badFree => Fails("memory")) /\ pc \in OnDevice /\ k \in Nat
      /\ (noConnect <=> request.noConnect)
  BY <1>1, <1>2, LoadingFacts, OnDeviceFacts DEF LoadInv, LoadHeap, LoadAgrees
<1>4. Good => /\ Handled(AskedImages, images \ {Tag("loaded")}, k) /\ Linked(AskedImages, connected, k) /\ OnlyStarted
              /\ ForFirst(AskedImages, k + 1) = ForFirst(AskedImages, k) \cup {Tag("started")}
              /\ Tag("started") \in AskedImages
  BY <1>1, <1>2, LoadingFacts DEF RightAt
<1>5. Good => OnlyStarted'
  <2>1. Tag("loaded").st = "loaded"
    BY DEF Tag
  <2>2. \A i \in images : i.st = "started" => i \in images'
    BY <1>1, <2>1
  <2>3. connected' = connected /\ request' = request
    BY <1>1 DEF Frame
  <2> QED BY <1>4, <2>2, <2>3 DEF OnlyStarted
<1>6. HeapIs({"handles", "devicepath"} \cup Unpacked)' /\ (badFree' => Fails("memory")')
  BY <1>1, <1>3, AskedForStays, UnpackedStays DEF HeapIs, Leaked
<1>7. CASE images' = (images \ {Tag("loaded")}) \cup {Tag("started")} /\ pc' = IF noConnect THEN "free" ELSE "connect"
  <2>1. LoadHeap'
    BY <1>6, <1>7 DEF LoadHeap
  <2>2. ASSUME Good PROVE Handled(AskedImages, images', k + 1)
    <3>1. k + 1 \in Nat /\ k <= k + 1
      BY <1>3
    <3>2. Tried(AskedImages, k) \subseteq Tried(AskedImages, k + 1)
      BY <1>3, <3>1, TriedGrows
    <3>3. Tag("started") \in Tried(AskedImages, k + 1)
      BY <1>4, <2>2 DEF Tried
    <3> QED BY <1>4, <1>7, <2>2, <3>2, <3>3 DEF Handled
  <2>3. CASE noConnect
    <3>1. Good => Linked(AskedImages, connected', k + 1)
      BY <1>3, <2>3 DEF Linked
    <3> QED BY <1>1, <1>2, <1>5, <1>7, <2>1, <2>2, <2>3, <3>1, LoadingOn DEF Loading
  <2>4. CASE ~noConnect
    <3>1. Good => Linked(AskedImages, connected', k)
      BY <1>1, <1>4
    <3>2. Tag("started") \in images' /\ ~request.noConnect
      BY <1>3, <1>7, <2>4
    <3> QED BY <1>1, <1>2, <1>5, <1>7, <2>1, <2>2, <2>4, <3>1, <3>2, LoadingOn DEF Loading
  <2> QED BY <2>3, <2>4
<1>8. CASE Fails("start") /\ images' = (images \ {Tag("loaded")}) \cup {Tag("unloaded")} /\ pc' = "free"
  <2>1. LoadHeap'
    BY <1>6, <1>8 DEF LoadHeap
  <2>2. mayFail # {}
    BY <1>8 DEF Fails
  <2>3. Good => Handled(AskedImages, images', k + 1) /\ Linked(AskedImages, connected', k + 1)
    BY <1>1, <1>3, <1>4, <1>8, <2>2, ImageFails
  <2> QED BY <1>1, <1>2, <1>5, <1>8, <2>1, <2>3, LoadingOn DEF Loading
<1> QED BY <1>1, <1>7, <1>8

\* gBS->ConnectController.
LEMMA ConnectKeeps ==
  ASSUME Typed, request.tool = "LoadOpRom", Frame, LoadInv, Connect
  PROVE  LoadInv'
<1>1. /\ pc = "connect" /\ pc' = "free" /\ UNCHANGED <<heap, badFree, images, k, at>> /\ UnchangedRest
      /\ connected' = connected \cup {k} \/ (Fails("connect") /\ UNCHANGED connected)
  BY DEF Connect, Goto, Keep
<1>2. pc \in Loading
  BY <1>1 DEF Loading
<1>3. /\ HeapIs({"handles", "devicepath"} \cup Unpacked) /\ (badFree => Fails("memory")) /\ pc \in OnDevice /\ k \in Nat
  BY <1>1, <1>2, LoadingFacts, OnDeviceFacts DEF LoadInv, LoadHeap
<1>4. Good => /\ Handled(AskedImages, images, k + 1) /\ Linked(AskedImages, connected, k) /\ OnlyStarted
              /\ ForFirst(AskedImages, k + 1) = ForFirst(AskedImages, k) \cup {Tag("started")}
              /\ Tag("started") \in images /\ ~request.noConnect
  BY <1>1, <1>2, LoadingFacts DEF RightAt
<1>a. Tag("started").dev = k /\ Tag("started").st = "started"
  BY DEF Tag
<1>5. Good => OnlyStarted'
  <2>1. images' = images /\ request' = request /\ connected' \subseteq connected \cup {k}
    BY <1>1 DEF Frame
  <2> QED BY <1>4, <1>a, <2>1 DEF OnlyStarted
<1>6. HeapIs({"handles", "devicepath"} \cup Unpacked)' /\ (badFree' => Fails("memory")')
  BY <1>1, <1>3, AskedForStays, UnpackedStays DEF HeapIs, Leaked
<1>7. LoadHeap'
  BY <1>1, <1>6 DEF LoadHeap
<1>8. Good => Linked(AskedImages, connected', k + 1)
  <2>1. CASE mayFail = {} /\ ~request.noConnect
    <3>1. connected' = connected \cup {k}
      BY <1>1, <2>1 DEF Fails
    <3>2. Good => connected = {i.dev : i \in ForFirst(AskedImages, k)}
      BY <1>4, <2>1 DEF Linked
    <3>3. Good => {i.dev : i \in ForFirst(AskedImages, k + 1)} = {i.dev : i \in ForFirst(AskedImages, k)} \cup {k}
      BY <1>4, <1>a
    <3> QED BY <3>1, <3>2, <3>3 DEF Linked
  <2>2. CASE ~(mayFail = {} /\ ~request.noConnect)
    BY <2>2 DEF Linked
  <2> QED BY <2>1, <2>2
<1>9. Good => Handled(AskedImages, images', k + 1)
  BY <1>1, <1>4
<1> QED BY <1>1, <1>2, <1>5, <1>7, <1>8, <1>9, LoadingOn DEF Loading

\* The end of LoadImage.
LEMMA LoadDoneKeeps ==
  ASSUME Typed, request.tool = "LoadOpRom", Frame, LoadInv, LoadDone
  PROVE  LoadInv'
<1> DEFINE freed == Unpacked \cup (heap \cap {"devicepath"})
<1>1. /\ pc = "free" /\ UNCHANGED <<images, connected>> /\ UnchangedRest /\ NextDevice
      /\ heap' = heap \ freed /\ badFree' = (badFree \/ ~(freed \subseteq heap))
  BY DEF LoadDone, Allocated, Unpacked
<1>2. pc \in Loading
  BY <1>1 DEF Loading
<1>3. /\ (badFree => Fails("memory")) /\ pc \in OnDevice /\ k \in Nat
      /\ HeapIs({"handles"} \cup Unpacked) \/ HeapIs({"handles", "devicepath"} \cup Unpacked)
  BY <1>1, <1>2, LoadingFacts, OnDeviceFacts DEF LoadInv, LoadHeap
<1>4. Unpacked \subseteq heap /\ "handles" \in heap /\ heap \subseteq {"handles", "devicepath"} \cup Unpacked \cup Leaked
  BY <1>3 DEF HeapIs
<1>5. badFree' <=> badFree
  BY <1>1, <1>4
<1>6. HeapIs({"handles"})'
  <2>1. Leaked' = Leaked
    BY <1>5 DEF Leaked
  <2>2. "handles" \notin Unpacked
    BY DEF Unpacked
  <2> QED BY <1>1, <1>4, <2>1, <2>2 DEF HeapIs
<1>7. Good => /\ Handled(AskedImages, images, k + 1) /\ Linked(AskedImages, connected, k + 1) /\ OnlyStarted
              /\ k \in AskedDevices
  BY <1>1, <1>2, LoadingFacts DEF RightAt
<1> QED BY <1>1, <1>3, <1>5, <1>6, <1>7, NextDeviceKeeps

\* The end of UefiMain frees the handle buffer.
LEMMA FinishKeeps ==
  ASSUME Typed, request.tool = "LoadOpRom", Frame, LoadInv, Finish
  PROVE  LoadInv'
<1>1. /\ pc = "finish" /\ pc' = "done" /\ UNCHANGED <<k, at, images, connected>> /\ UnchangedRest
      /\ heap' = heap \ {"handles"} /\ badFree' = (badFree \/ ~({"handles"} \subseteq heap))
  BY DEF Finish, Allocated, Goto
<1>2. /\ HeapIs({"handles"}) /\ (badFree => Fails("memory")) /\ OptShape(opt)
      /\ Good => /\ Handled(AskedImages, images, Len(Devices) + 1) /\ Linked(AskedImages, connected, Len(Devices) + 1)
                 /\ OnlyStarted
  BY <1>1 DEF LoadInv, LoadHeap, RightAt, Good
<1>3. badFree' <=> badFree
  BY <1>1, <1>2 DEF HeapIs
<1>4. HeapIs({})'
  BY <1>1, <1>2, <1>3 DEF HeapIs, Leaked
<1>5. LoadHeap'
  BY <1>1, <1>2, <1>3, <1>4, AskedForStays DEF LoadHeap
<1>6. LoadAt'
  BY <1>1 DEF LoadAt, OnDevice, Loading
<1>7. Good' = Good /\ OptShape(opt)'
  BY <1>1, <1>2 DEF Good, UnchangedRest, OptShape
<1>8. ASSUME Good PROVE RightAt'
  <2>1. OnlyStarted'
    BY <1>1, <1>2, <1>8 DEF OnlyStarted, Frame
  <2>2. Handled(AskedImages, images', Len(Devices) + 1) /\ Linked(AskedImages, connected', Len(Devices) + 1)
    BY <1>1, <1>2, <1>8
  <2> QED BY <1>1, <2>1, <2>2, HandledStays DEF RightAt, Loading
<1> QED BY <1>1, <1>5, <1>6, <1>7, <1>8 DEF LoadInv, LoadPcs, Good

\* Every step of LoadOpRom.
LEMMA LoadOpRomKeeps ==
  ASSUME Typed, request.tool = "LoadOpRom", Frame, LoadInv, LoadOpRomNext
  PROVE  LoadInv'
<1>1. CASE GetShellArgcArgv("flags") /\ UNCHANGED loadVars
  BY <1>1, LoadStarts
<1>2. CASE LoadFlag
  BY <1>2, LoadFlagKeeps
<1>3. CASE CountArgs
  BY <1>3, CountArgsKeeps
<1>4. CASE LocateHandles
  BY <1>4, LocateHandlesKeeps
<1>5. CASE Device
  BY <1>5, DeviceKeeps
<1>6. CASE ParseImages
  BY <1>6, ParseImagesKeeps
<1>7. CASE Decompress
  BY <1>7, DecompressKeeps
<1>8. CASE AppendNode
  BY <1>8, AppendNodeKeeps
<1>9. CASE CoreLoad
  BY <1>9, CoreLoadStays
<1>10. CASE CoreStart
  BY <1>10, CoreStartKeeps
<1>11. CASE Connect
  BY <1>11, ConnectKeeps
<1>12. CASE LoadDone
  BY <1>12, LoadDoneKeeps
<1>13. CASE Finish
  BY <1>13, FinishKeeps
<1> QED BY <1>1, <1>2, <1>3, <1>4, <1>5, <1>6, <1>7, <1>8, <1>9, <1>10, <1>11, <1>12, <1>13 DEF LoadOpRomNext

-----------------------------------------------------------------------------
(* The tools keep the invariant.                                           *)

\* Nothing changes: SetCon.
LEMMA SetConStutters ==
  ASSUME UNCHANGED vars, SetConInv PROVE SetConInv'
<1>1. Frame /\ UNCHANGED <<argv, opt, pc, heap, badFree, variable, flags, path, current, index>>
  BY DEF vars, shared, setConVars, Frame
<1>2. Asked' = Asked /\ Existing' = Existing
  BY <1>1, AskedStays
<1>3. Outcome' = Outcome /\ AsBefore' = AsBefore
  BY <1>1, <1>2 DEF Outcome, AsBefore, Frame
<1>4. SetConAgrees' = SetConAgrees /\ PathTold' = PathTold
  BY <1>1 DEF SetConAgrees, PathTold, VarName, Argv, Frame, Fails
<1>5. SetConOptions' = SetConOptions /\ OptShape(opt)' = OptShape(opt)
  BY <1>1 DEF SetConOptions, PathSeen, NextWord, Frame, Fails, OptShape
<1>6. SetConAt' = SetConAt
  BY <1>1, <1>2, <1>3, <1>4, <1>5 DEF SetConAt, Frame
<1>7. SetConHeap' = SetConHeap
  BY <1>1 DEF SetConHeap, Frame, Fails
<1> QED BY <1>1, <1>5, <1>6, <1>7 DEF SetConInv

\* Nothing changes: LoadOpRom.
LEMMA LoadStutters ==
  ASSUME UNCHANGED vars, LoadInv PROVE LoadInv'
<1>1. Frame /\ UNCHANGED <<argv, opt, pc, heap, badFree, want, allDevs, onlyList, noConnect, k, at, images, connected>>
  BY DEF vars, shared, loadVars, Frame
<1>2. Rom' = Rom /\ Header' = Header /\ Leaked' = Leaked /\ Unpacked' = Unpacked /\ (\A st : Tag(st)' = Tag(st))
  BY <1>1 DEF Rom, Header, Leaked, Unpacked, Tag
<1>3. LoadFlags' = LoadFlags /\ LoadCount' = LoadCount /\ OptShape(opt)' = OptShape(opt) /\ LoadAgrees' = LoadAgrees
  BY <1>1 DEF LoadFlags, LoadCount, OptShape, LoadAgrees, NextWord, Frame
<1>4. LoadAt' = LoadAt
  BY <1>1, <1>2, <1>3 DEF LoadAt
<1>5. LoadHeap' = LoadHeap
  BY <1>1, <1>2 DEF LoadHeap, HeapIs, Fails, Frame
<1>6. Good /\ RightAt => RightAt'
  <2>1. FirstUsable' = FirstUsable /\ OnlyStarted' = OnlyStarted /\ AskedDevices' = AskedDevices
    BY <1>1, <1>2, AskedForStays DEF FirstUsable, OnlyStarted, Frame
  <2> QED BY <1>1, <1>2, <2>1, HandledStays DEF RightAt, Frame
<1> QED BY <1>1, <1>3, <1>4, <1>5, <1>6 DEF LoadInv, Good

\* A tool leaves the command line as it is.
LEMMA TypedStays ==
  ASSUME Typed, [Next]_vars PROVE Typed'
<1>1. UNCHANGED <<request, before>>
  BY DEF Next, vars
<1>2. argv' = argv
  <2>1. CASE SetConNext
    <3>1. CASE GetShellArgcArgv("options")
      BY <3>1 DEF GetShellArgcArgv
    <3>2. CASE SetConOption
      BY <3>2 DEF SetConOption
    <3>3. CASE GetVarPath \/ Decide \/ PrintVarPath
      BY <3>3 DEF GetVarPath, Decide, PrintVarPath
    <3>4. CASE AutoPath \/ AutoPathHandle \/ AppendPath
      BY <3>4 DEF AutoPath, AutoPathHandle, AppendPath
    <3>5. CASE SetVariable \/ SetConOut
      BY <3>5 DEF SetVariable, SetConOut
    <3> QED BY <2>1, <3>1, <3>2, <3>3, <3>4, <3>5 DEF SetConNext
  <2>2. CASE LoadOpRomNext
    BY <2>2 DEF LoadOpRomNext, GetShellArgcArgv, LoadFlag, CountArgs, LocateHandles, Device, ParseImages, Decompress,
      AppendNode, CoreLoad, CoreStart, Connect, LoadDone, Finish, UnchangedRest
  <2>3. CASE UNCHANGED vars
    BY <2>3 DEF vars, shared
  <2> QED BY <2>1, <2>2, <2>3 DEF Next
<1> QED BY <1>1, <1>2 DEF Typed

\* A tool starts with nothing done and nothing allocated.
LEMMA ShellStarts ==
  ASSUME Init PROVE ShellInv
<1>1. Typed
  BY DEF Init, Typed
<1>2. /\ pc = "start" /\ opt = InitGetOpt /\ heap = {} /\ badFree = FALSE
      /\ flags = {} /\ path = Null /\ current = Null
      /\ want = Null /\ onlyList = FALSE /\ noConnect = FALSE /\ k = 1 /\ at = 1 /\ images = {} /\ connected = {}
      /\ AsBefore
  BY DEF Init, ToolInit, SetConInit, LoadInit, AsBefore
<1>3. OptShape(opt) /\ IsSequence(Null)
  BY <1>2, NullIsSequence DEF OptShape, InitGetOpt
<1>4. SetConInv
  BY <1>2, <1>3 DEF SetConInv, SetConPcs, SetConAt, SetConHeap, PartOf
<1>5. LoadInv
  <2>1. LoadAt
    BY <1>2 DEF LoadAt, OnDevice, Loading
  <2>2. LoadHeap
    BY <1>2 DEF LoadHeap
  <2>3. RightAt
    BY <1>2 DEF RightAt, Loading, OnlyStarted
  <2> QED BY <1>2, <1>3, <2>1, <2>2, <2>3 DEF LoadInv, LoadPcs
<1> QED BY <1>1, <1>4, <1>5 DEF ShellInv

\* Every step of a tool.
LEMMA ShellKeeps ==
  ASSUME ShellInv, [Next]_vars PROVE ShellInv'
<1>1. Typed /\ Typed'
  BY TypedStays DEF ShellInv
<1>2. ASSUME Next PROVE ShellInv'
  <2>1. Frame
    BY <1>2 DEF Next, Frame
  <2>2. request' = request
    BY <2>1 DEF Frame
  <2>3. ASSUME request.tool = "SetCon" PROVE SetConInv'
    <3>1. SetConNext
      BY <1>2, <2>3 DEF Next
    <3> QED BY <1>1, <2>1, <2>3, <3>1, SetConKeeps DEF ShellInv
  <2>4. ASSUME request.tool = "LoadOpRom" PROVE LoadInv'
    <3>1. LoadOpRomNext
      BY <1>2, <2>4 DEF Next
    <3> QED BY <1>1, <2>1, <2>4, <3>1, LoadOpRomKeeps DEF ShellInv
  <2> QED BY <1>1, <2>2, <2>3, <2>4 DEF ShellInv
<1>3. ASSUME UNCHANGED vars PROVE ShellInv'
  <2>1. request' = request
    BY <1>3 DEF vars
  <2> QED BY <1>1, <1>3, <2>1, SetConStutters, LoadStutters DEF ShellInv
<1> QED BY <1>2, <1>3

\* The invariant of both tools holds throughout, whatever the command line.
THEOREM ShellInvariance == Spec => []ShellInv
<1>1. Init => ShellInv
  BY ShellStarts
<1>2. ShellInv /\ [Next]_vars => ShellInv'
  BY ShellKeeps
<1> QED BY <1>1, <1>2, PTL DEF Spec

-----------------------------------------------------------------------------
(* What the invariant says.                                                *)

\* SetCon, at its end.
LEMMA AsAskedFollows ==
  ASSUME ShellInv PROVE VariableAsAsked
BY DEF ShellInv, SetConInv, SetConAt, Outcome, VariableAsAsked

\* The pool, at the end of both.
LEMMA NothingLeftFollows ==
  ASSUME ShellInv PROVE NothingLeft
<1>1. request.tool \in {"SetCon", "LoadOpRom"}
  BY ShellRequests DEF ShellInv, Typed
<1>2. CASE request.tool = "SetCon"
  <2>1. SetConHeap
    BY <1>2 DEF ShellInv, SetConInv
  <2> QED BY <1>2, <2>1 DEF SetConHeap, NothingLeft, Fails
<1>3. CASE request.tool = "LoadOpRom"
  <2>1. LoadHeap
    BY <1>3 DEF ShellInv, LoadInv
  <2> QED BY <1>3, <2>1 DEF LoadHeap, HeapIs, Leaked, NothingLeft, Fails
<1> QED BY <1>1, <1>2, <1>3

\* LoadOpRom, throughout and at its end.
LEMMA RightFollows ==
  ASSUME ShellInv PROVE RightImages
<1> SUFFICES ASSUME request.tool = "LoadOpRom", Good
             PROVE  /\ \A i \in images : [i EXCEPT !.st = "started"] \in AskedImages
                    /\ pc \in {"device", "rom", "finish", "done"} => \A i \in images : i.st # "loaded"
                    /\ \A d \in connected : ~request.noConnect /\ \E i \in images : i.dev = d /\ i.st = "started"
                    /\ pc = "done" /\ mayFail = {} =>
                         images = AskedImages /\ (~request.noConnect => connected = {i.dev : i \in images})
  BY DEF RightImages, Good
<1>1. Typed /\ LoadInv /\ RightAt /\ pc \in LoadPcs
  BY DEF ShellInv, LoadInv, Good
<1>2. CASE pc = "start image"
  <2>1. Handled(AskedImages, images \ {Tag("loaded")}, k) /\ Tag("started") \in AskedImages
    BY <1>1, <1>2, LoadingFacts DEF RightAt, Loading
  <2>2. [Tag("loaded") EXCEPT !.st = "started"] = Tag("started")
    BY DEF Tag
  <2>3. \A i \in images : [i EXCEPT !.st = "started"] \in AskedImages
    <3>1. \A i \in images \ {Tag("loaded")} : [i EXCEPT !.st = "started"] \in AskedImages
      BY <1>1, <2>1, NoneLoaded
    <3>2. ASSUME NEW i \in images, i = Tag("loaded") PROVE [i EXCEPT !.st = "started"] \in AskedImages
      BY <2>1, <2>2, <3>2
    <3> QED BY <3>1, <3>2
  <2> QED BY <1>1, <1>2, <2>3 DEF RightAt, OnlyStarted
<1>3. CASE pc # "start image"
  <2>1. images = {} \/ \E n : Handled(AskedImages, images, n)
    BY <1>1, <1>3 DEF RightAt, LoadPcs
  <2>2. \A i \in images : i.st # "loaded" /\ [i EXCEPT !.st = "started"] \in AskedImages
    BY <1>1, <2>1, NoneLoaded
  <2>3. ASSUME pc = "done", mayFail = {}
        PROVE  images = AskedImages /\ (~request.noConnect => connected = {i.dev : i \in images})
    <3>1. Handled(AskedImages, images, Len(Devices) + 1) /\ Linked(AskedImages, connected, Len(Devices) + 1)
      BY <1>1, <2>3 DEF RightAt
    <3> QED BY <1>1, <2>3, <3>1, ForFirstAll DEF Handled, Linked
  <2>4. \A d \in connected : ~request.noConnect /\ \E i \in images : i.dev = d /\ i.st = "started"
    BY <1>1 DEF RightAt, OnlyStarted
  <2> QED BY <2>2, <2>3, <2>4
<1> QED BY <1>2, <1>3

\* SetCon ends with the variable as the command line asks or, after a failure,
\* as it was, and touches no other: for every line the usage allows, in every
\* spelling, and every line it does not.
THEOREM VariableEndsAsAsked == Spec => []VariableAsAsked
BY ShellInvariance, AsAskedFollows, PTL

\* LoadOpRom starts, for the devices asked for alone, the first image of each
\* ROM that the host can run, and connects what was started: for all ROMs.
THEOREM ImagesAreRight == Spec => []RightImages
BY ShellInvariance, RightFollows, PTL

\* A tool that ends has freed what it allocated, but for the known exceptions.
THEOREM NothingStaysAllocated == Spec => []NothingLeft
BY ShellInvariance, NothingLeftFollows, PTL
=============================================================================
