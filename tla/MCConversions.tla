--------------------------- MODULE MCConversions ----------------------------
(* Inputs for the runs of Conversions: bytes at the bounds of the operand  *)
(* types, names of single bytes and a few characters of any width, texts   *)
(* with one character replaced, added or missing, EDIDs with odd offsets   *)
(* and lengths, and claims of up to two types and of too many.             *)
EXTENDS Conversions

MCValues == {0, 1, 2, 3, 4, 5, 8, 9, 14, 16, 31, 32, 64, 95, 96, 104, 127, 128, 130, 240, 255}

MCNames == {[i \in 1..n |-> 1] \o s : n \in 6..14, s \in UNION {[1..k -> 1..4] : k \in 0..3}}

Marks == {0, Dot, Dash, Plus, Ex}

Misspelt(text) ==
    {text} \cup {[text EXCEPT ![i] = c] : i \in DOMAIN text, c \in Marks}
           \cup {InsertAt(text, i, c) : i \in 1..Len(text) + 1, c \in Marks}
           \cup {RemoveAt(text, i) : i \in DOMAIN text}

MCAddresses == {0, 1, 4096, 4660, 43981, 65535}
MCVendors   == {<<8, 171, 0>>, <<0, 0, 0>>, <<255, 15, 16>>}

MCAddressTexts ==
    UNION {Misspelt(t) : t \in UNION {{ShowAddress(a), Hex(a), <<0, Ex>> \o Hex(a)} : a \in MCAddresses}}
MCVendorTexts == UNION {Misspelt(ShowVendor(id)) : id \in MCVendors}

MCClaims == UNION {[1..n -> Types] : n \in 0..2} \cup {[i \in 1..5 |-> "TV"]}

(* EDIDs. An extension block is described by its tag, its revision, where  *)
(* its detailed timings begin and its data blocks; a data block by its     *)
(* class, its size (the header included) and its vendor.                   *)

Zeros(n) == [i \in 1..n |-> 0]
FirstBytes(s, n) == SubSeq(s \o Zeros(n), 1, n)

DataBlockBytes(d) ==
    <<d.class * 32 + d.size - 1>> \o FirstBytes(d.oui \o <<\h12, d.size>>, d.size - 1)

ExtensionBytes(e) ==
    FirstBytes(<<e.tag, e.revision, e.timings, 0>>
               \o FlattenSeq([i \in 1..Len(e.blocks) |-> DataBlockBytes(e.blocks[i])]), 128)

\* A base block and the extensions, cut off at a length.
EdidBytes(extensions, length) ==
    FirstBytes(Zeros(128) \o FlattenSeq([i \in 1..Len(extensions) |-> ExtensionBytes(extensions[i])]),
               length)

Hdmi(n) == [class |-> 3, size |-> n, oui |-> HDMI_OUI]
Other   == [class |-> 3, size |-> 8, oui |-> <<1, 2, 3>>]
Video   == [class |-> 2, size |-> 6, oui |-> HDMI_OUI]
Audio   == [class |-> 1, size |-> 4, oui |-> <<>>]
Filler  == [class |-> 2, size |-> 32, oui |-> <<>>]

Fillings == {<<>>, <<Hdmi(6)>>, <<Hdmi(5)>>, <<Hdmi(5), Hdmi(7)>>, <<Other, Hdmi(8)>>,
             <<Video, Audio, Hdmi(6)>>, <<Hdmi(6), Hdmi(9)>>, <<Filler, Filler, Filler, Hdmi(27)>>,
             <<Filler, Filler, Filler, Hdmi(28)>>, <<Filler, Filler, Filler, Hdmi(31)>>,
             <<Filler, Filler, Filler, Audio, Audio, Audio, Audio, Audio, Audio, Hdmi(6)>>}

Extension(tag, revision, timings, blocks) ==
    [tag |-> tag, revision |-> revision, timings |-> timings, blocks |-> blocks]

FirstExtensions == {Extension(tag, revision, timings, blocks) :
    tag \in {2, \h70}, revision \in {1, 3}, timings \in {0, 4, 10, 15, 16, 20, 127, 128, 255},
    blocks \in Fillings}
SecondExtensions == {Extension(2, 3, 0, <<Hdmi(10)>>), Extension(\h70, 0, 0, <<Hdmi(10)>>)}

MCEdids ==
    {Zeros(n) : n \in {0, 1, 128}}
        \cup {EdidBytes(<<e>>, length) : e \in FirstExtensions, length \in {255, 256}}
        \cup {EdidBytes(<<e, f>>, 384) : e \in FirstExtensions, f \in SecondExtensions}

Displays ==
    [status : {"connected", "disconnected", "unreadable"},
     edid : {EdidBytes(<<Extension(2, 3, 0, bs)>>, 256) : bs \in {<<>>, <<Hdmi(6)>>, <<Audio, Hdmi(7)>>}}
            \cup {EdidBytes(<<Extension(2, 1, 0, <<Hdmi(6)>>)>>, 256)}]

MCConnectors == Displays \X Displays
=============================================================================
