------------------------------ MODULE MCShell -------------------------------
(* Small instances of Shell for TLC.                                       *)
EXTENDS Shell

Paths == [GFX |-> <<"gfx">>, SER |-> <<"ser">>, BAD |-> <<>>]
TwoConsoles == <<<<"gfx">>, <<>>, <<"usb", "ser">>>>

NamesBeginning == [ConOut |-> {"ConOut", "ConOutDev"}, ErrOut |-> {"ErrOut", "ErrOutDev"},
                   ConIn |-> {"ConIn", "ConInDev"}]

Ask(tool, do) == [tool |-> tool, do |-> do, text |-> "", var |-> "ConOut",
                  path |-> <<>>, location |-> <<>>, noConnect |-> FALSE]

-----------------------------------------------------------------------------
\* SetCon: the option with its argument attached or not, -a on either side of
\* it, with and without a dash in front of the variable's name.
Option(o, text) == {<<<<"-", o, text>>>>, <<<<"-", o>>, <<text>>>>}
Command(options, var) ==
  {<<<<"prog">>>> \o o \o d \o <<<<var>>>> : o \in options, d \in {<<>>, <<<<"-">>>>}}

WithText(do) == {[Ask("SetCon", do) EXCEPT !.text = t, !.path = Paths[t]] : t \in DOMAIN Paths}
Settings == UNION {Option(o, "GFX") : o \in {"p", "h", "i"}}

SetConSpelled(r) ==
  CASE r.do = "show" -> Command({<<>>, <<<<"-", "a">>>>}, r.var)
    [] r.do = "auto" -> Command({<<<<"-", "A">>>>}, r.var)
    [] r.do = "set" -> Command(UNION {Option(o, r.text) : o \in {"p", "h", "i"}}, r.var)
    [] r.do = "append" ->
         LET opts == UNION {Option(o, r.text) : o \in {"p", "h", "i"}} IN
         Command({<<<<"-", "a">>>> \o o : o \in opts} \cup {o \o <<<<"-", "a">>>> : o \in opts}, r.var)
    [] r.do = "usage" ->
         {<<<<"prog">>>>, <<<<"prog">>, <<"-", "p">>>>, <<<<"prog">>, <<"-", "p">>, <<"-", "a">>, <<"ConOut">>>>}
           \cup {<<<<"prog">>>> \o o : o \in Settings}
           \cup Command({<<<<"-", "A">>, <<"-", "a">>>>, <<<<"-", "a">>, <<"-", "A">>>>, <<<<"-", "x">>>>}
                        \cup {o \o <<x>> : o \in Settings, x \in {<<"-", "A">>, <<"-", "x">>, <<"-", "h", "SER">>}}, r.var)

SetConRequests ==
  {Ask("SetCon", do) : do \in {"show", "auto", "usage"}} \cup WithText("set") \cup WithText("append")
    \cup {[Ask("SetCon", "auto") EXCEPT !.var = v] : v \in {"ConOutDev", "ConIn", "BootNext"}}

-----------------------------------------------------------------------------
\* LoadOpRom: six devices; ROMs with images of other kinds and machines,
\* gaps, a legacy length, corrupt headers, images behind the last one.
Efi == [kind |-> "efi", machine |-> "host", length |-> 1, init |-> 1, offsetOk |-> TRUE,
        compressed |-> FALSE, legacy |-> 0, pcir |-> TRUE, last |-> FALSE]
Last_(h) == [h EXCEPT !.last = TRUE]
Packed == [Efi EXCEPT !.compressed = TRUE]
Other == [Efi EXCEPT !.machine = "x64"]
Bios == [Efi EXCEPT !.kind = "bios", !.legacy = 2]
Cut == [Efi EXCEPT !.init = 2]
Shifted == [Efi EXCEPT !.offsetOk = FALSE]
NoData == [Efi EXCEPT !.pcir = FALSE]
Empty == [Efi EXCEPT !.length = 0, !.last = TRUE]

At(b, d, f) == <<"0", b, d, f>>
SixDevices ==
  <<[location |-> At("1", "0", "0"), rom |-> <<Bios, Efi, Other, <<>>, Packed, Last_(Efi)>>],
    [location |-> At("1", "0", "1"), rom |-> <<>>],
    [location |-> At("2", "0", "0"), rom |-> <<Cut, Shifted, Last_(Other), Efi>>],
    [location |-> At("2", "3", "0"), rom |-> <<Other, Last_(Efi), Efi>>],
    [location |-> At("3", "0", "0"), rom |-> <<<<>>, NoData, Efi>>],
    [location |-> At("3", "1", "0"), rom |-> <<Other, Empty>>]>>

Words(location) == [w \in 1..4 |-> <<location[w]>>]
Flags(r) ==
  LET l == IF r.do = "list" THEN <<<<"-", "l">>>> ELSE <<>>
      n == IF r.noConnect THEN <<<<"-", "n">>>> ELSE <<>>
  IN {l \o n, n \o l} \cup {l \o n \o <<<<"-">>>>}
LoadSpelled(r) ==
  CASE r.do \in {"all", "list"} -> {<<<<"prog">>>> \o f : f \in Flags(r)}
    [] r.do = "one" -> {<<<<"prog">>>> \o f \o Words(r.location) : f \in Flags(r)}
    [] r.do = "usage" -> {<<<<"prog">>, <<"-", "x">>>>, <<<<"prog">>, <<"1">>, <<"0">>>>}

LoadRequests ==
  {[Ask("LoadOpRom", do) EXCEPT !.noConnect = nc] : do \in {"all", "list"}, nc \in BOOLEAN}
    \cup {Ask("LoadOpRom", "usage")}
    \cup {[Ask("LoadOpRom", "one") EXCEPT !.location = l, !.noConnect = nc] :
            l \in {SixDevices[d].location : d \in DOMAIN SixDevices} \cup {At("9", "0", "0")}, nc \in BOOLEAN}

-----------------------------------------------------------------------------
\* Nothing fails, one service does, or anything.
NoneOneAll == {{}, Services} \cup {{s} : s \in Services}
AllRequests == SetConRequests \cup LoadRequests
AllSpellings == [r \in AllRequests |-> IF r.tool = "SetCon" THEN SetConSpelled(r) ELSE LoadSpelled(r)]
ConsoleContents == {Null, Invalid, <<"old">>, <<"old", "older">>}

=============================================================================
