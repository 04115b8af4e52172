------------------------------ MODULE Settings ------------------------------
(***************************************************************************)
(* What people write into the configuration, displays say of themselves    *)
(* and programs ask of Device, on its way to the kernel: the name shown on *)
(* screen, addresses and vendors as text, EDIDs, handling modes and the    *)
(* logical addresses to claim.                                             *)
(* Each step converts one input; the properties compare the outcome with   *)
(* the input.                                                              *)
(*                                                                         *)
(* Text is a sequence of characters; a hexadecimal digit is the number it  *)
(* stands for, and any other character a number above 15.                  *)
(***************************************************************************)
EXTENDS Discovery

CONSTANTS
    Names,          \* names, by the widths of their characters
    AddressTexts,   \* texts that are read as an address
    VendorTexts,    \* texts that are read as a vendor
    Edids,          \* EDIDs, as sequences of bytes
    Connectors,     \* what find_physical_address finds: sequences of connectors
    Claims,         \* sequences of types for set_logical_addresses
    Addresses,      \* physical addresses and vendors that the texts are
    Vendors         \* compared with

Types == DOMAIN CEC_LOG_ADDR_TYPE

\* What an address and each of the three parts of a vendor may be.
U16 == 0..65535
U8  == 0..255

\* A character of UTF-8 has one to four bytes.
ASSUME SettingsAssumption ==
    /\ Names \subseteq Seq(1..4)
    /\ AddressTexts \subseteq Seq(Nat) /\ VendorTexts \subseteq Seq(Nat)
    /\ Edids \subseteq Seq(U8)
    /\ Connectors \subseteq Seq([status : {"connected", "disconnected", "unreadable"},
                                 edid : Seq(U8)])
    /\ Claims \subseteq Seq(Types)
    /\ Addresses \subseteq U16 /\ Vendors \subseteq U8 \X U8 \X U8

VARIABLES
    input,      \* what is converted: a record, "of" says which kind
    outcome     \* what the conversion made of it

vars == <<input, outcome>>

Idle == [of |-> "nothing"]

Init == input = Idle /\ outcome = None

Converts(what, result) ==
    /\ input = Idle
    /\ input' = what
    /\ outcome' = result

-----------------------------------------------------------------------------
(* System::trimmed_osd_name.                                               *)

\* Where each character of a name ends.
Offsets(name) ==
    LET at[n \in 0..Len(name)] == IF n = 0 THEN 0 ELSE at[n - 1] + name[n] IN at

Bytes(name) == Offsets(name)[Len(name)]

IsCharBoundary(name, i) == \E n \in 0..Len(name) : Offsets(name)[n] = i

TrimmedOsdName_Below14(name) ==
    IF Bytes(name) <= 14 THEN Ok(Bytes(name))
    ELSE IF \E i \in 10..13 : IsCharBoundary(name, i)
         THEN Ok(CHOOSE i \in 10..13 :
                   /\ IsCharBoundary(name, i)
                   /\ \A j \in i + 1..13 : ~IsCharBoundary(name, j))
         ELSE Panic

\* The number of bytes kept, or the unreachable! behind the loop.
TrimmedOsdName(name) ==
    IF Bytes(name) <= 14 THEN Ok(Bytes(name))
    ELSE IF \E i \in 10..14 : IsCharBoundary(name, i)
         THEN Ok(CHOOSE i \in 10..14 :
                   /\ IsCharBoundary(name, i)
                   /\ \A j \in i + 1..14 : ~IsCharBoundary(name, j))
         ELSE Panic

\* Device::set_osd_name while no address is claimed: the name goes to
\* cec_log_addrs, if it fits.
FillOsdName(n) == IF n > 14 THEN Err ELSE Ok(n)

\* configure_dev trims the name and sets it.
ConfigureName(name) ==
    Converts([of |-> "name", name |-> name],
             LET kept == TrimmedOsdName(name) IN
             IF kept = Panic THEN Panic ELSE FillOsdName(kept.val))

-----------------------------------------------------------------------------
(* Addresses and vendors as text.                                          *)

HexDigits == 0..15
Dot  == 16
Dash == 17
Plus == 18
Ex   == 19

\* from_str_radix(text, 16): one sign is allowed in front of the digits. No
\* caller has more of them than its type can hold.
Digits(text) == IF Len(text) > 1 /\ Head(text) = Plus THEN Tail(text) ELSE text

Value(digits) ==
    LET value[n \in 0..Len(digits)] == IF n = 0 THEN 0 ELSE value[n - 1] * 16 + digits[n]
    IN  value[Len(digits)]

FromStrRadix(text) ==
    IF Digits(text) # <<>> /\ \A i \in DOMAIN Digits(text) : Digits(text)[i] \in HexDigits
    THEN Ok(Value(Digits(text)))
    ELSE Err

\* Display for PhysicalAddress
ShowAddress(a) ==
    <<a \div 4096, Dot, (a \div 256) % 16, Dot, (a \div 16) % 16, Dot, a % 16>>

\* The four places of d.d.d.d, which must be one character each.
Place(text, i) == FromStrRadix(<<text[2 * i - 1]>>)

Dotted(text) ==
    /\ Len(text) = 7
    /\ {i \in 1..7 : text[i] = Dot} = {2, 4, 6}
    /\ \A i \in 1..4 : Place(text, i) # Err

AddressFromStr_AnyLength(text) ==
    LET plain == IF Len(text) = 6 /\ text[1] = 0 /\ text[2] = Ex
                 THEN SubSeq(text, 3, 6) ELSE text
    IN  IF FromStrRadix(plain) # Err THEN FromStrRadix(plain)
        ELSE IF Dotted(text)
        THEN Ok(Place(text, 1).val * 4096 + Place(text, 2).val * 256
                + Place(text, 3).val * 16 + Place(text, 4).val)
        ELSE Err

\* FromStr for PhysicalAddress: 0xdddd, dddd or d.d.d.d.
AddressFromStr(text) ==
    LET plain == IF Len(text) = 6 /\ text[1] = 0 /\ text[2] = Ex
                 THEN SubSeq(text, 3, 6) ELSE text
    IN  IF Len(plain) = 4 /\ FromStrRadix(plain) # Err THEN FromStrRadix(plain)
        ELSE IF Dotted(text)
        THEN Ok(Place(text, 1).val * 4096 + Place(text, 2).val * 256
                + Place(text, 3).val * 16 + Place(text, 4).val)
        ELSE Err

\* Display for VendorId, dd-dd-dd
ShowVendor(id) ==
    <<id[1] \div 16, id[1] % 16, Dash, id[2] \div 16, id[2] % 16, Dash, id[3] \div 16, id[3] % 16>>

\* FromStr for VendorId
Part(text, i) == FromStrRadix(<<text[3 * i - 2], text[3 * i - 1]>>)

VendorFromStr(text) ==
    IF /\ Len(text) = 8
       /\ {i \in 1..8 : text[i] = Dash} = {3, 6}
       /\ \A i \in 1..3 : Part(text, i) # Err
    THEN Ok(<<Part(text, 1).val, Part(text, 2).val, Part(text, 3).val>>)
    ELSE Err

ParseAddress(text) == Converts([of |-> "address", text |-> text], AddressFromStr(text))

ParseVendor(text) == Converts([of |-> "vendor", text |-> text], VendorFromStr(text))

-----------------------------------------------------------------------------
(* The EDID of one display, and the search over all of them.               *)

ParseEdid(edid) == Converts([of |-> "edid", edid |-> edid], ParseHdmiEdidPa(edid))

Search(connectors) ==
    Converts([of |-> "connectors", connectors |-> connectors], FindPhysicalAddress(connectors))

-----------------------------------------------------------------------------
(* Handling modes: the initiator's in the low half of a byte, the          *)
(* follower's in the high half.                                            *)

InitiatorMode(mode) ==
    IF \E m \in DOMAIN CEC_MODE_INITIATOR : CEC_MODE_INITIATOR[m] = mode % 16
    THEN Ok(CHOOSE m \in DOMAIN CEC_MODE_INITIATOR : CEC_MODE_INITIATOR[m] = mode % 16)
    ELSE Err

FollowerMode(mode) ==
    IF \E m \in DOMAIN CEC_MODE_FOLLOWER : CEC_MODE_FOLLOWER[m] = mode \div 16
    THEN Ok(CHOOSE m \in DOMAIN CEC_MODE_FOLLOWER : CEC_MODE_FOLLOWER[m] = mode \div 16)
    ELSE Err

WithInitiator(mode, m) == (mode \div 16) * 16 + CEC_MODE_INITIATOR[m]
WithFollower(mode, m)  == CEC_MODE_FOLLOWER[m] * 16 + (mode % 16)

\* set_initiator_mode or set_follower_mode, and the two getters afterwards.
SetMode(mode, half, m) ==
    LET new == IF half = "initiator" THEN WithInitiator(mode, m) ELSE WithFollower(mode, m) IN
    Converts([of |-> "mode", mode |-> mode, half |-> half, m |-> m],
             Ok(<<InitiatorMode(new), FollowerMode(new)>>))

-----------------------------------------------------------------------------
(* Logical addresses, the types that are claimed, and what a device says   *)
(* of itself: LogicalAddress and LogicalAddressType each have a table.     *)

Ty(address) ==
    LET kind == CHOOSE k \in DOMAIN CEC_LOG_ADDR : address \in CEC_LOG_ADDR[k] IN
    IF kind = "BACKUP" THEN {} ELSE {kind}

PrimaryOfAddress(address) ==
    {SystemInformation.PRIM_DEVTYPE[k] :
        k \in {k \in {"TV", "RECORD", "TUNER", "PLAYBACK", "AUDIOSYSTEM"} :
              address \in CEC_LOG_ADDR[k]}}

PrimaryOfType_TableOrder(type) ==
    IF type \in {"SPECIFIC", "UNREGISTERED"} THEN \hFF ELSE CEC_LOG_ADDR_TYPE[type]

\* The primary device type in cec_log_addrs; some types have none.
PrimaryOfType(type) ==
    IF type \in {"SPECIFIC", "UNREGISTERED"} THEN \hFF ELSE SystemInformation.PRIM_DEVTYPE[type]

\* set_logical_addresses fills the cec_log_addrs that CEC_ADAP_S_LOG_ADDRS gets.
LogAddrs(types) ==
    IF Len(types) > CEC_MAX_LOG_ADDRS THEN Err
    ELSE Ok([i \in 1..Len(types) |->
            [log_addr_type |-> CEC_LOG_ADDR_TYPE[types[i]],
             primary_device_type |-> PrimaryOfType(types[i])]])

Claim(types) == Converts([of |-> "claim", types |-> types], LogAddrs(types))

-----------------------------------------------------------------------------

\* The outcome is used and the next input may come.
Done ==
    /\ input # Idle
    /\ input' = Idle
    /\ outcome' = None

Next ==
    \/ \E name \in Names : ConfigureName(name)
    \/ \E text \in AddressTexts : ParseAddress(text)
    \/ \E text \in VendorTexts : ParseVendor(text)
    \/ \E edid \in Edids : ParseEdid(edid)
    \/ \E connectors \in Connectors : Search(connectors)
    \/ \E mode \in 0..255, m \in DOMAIN CEC_MODE_INITIATOR : SetMode(mode, "initiator", m)
    \/ \E mode \in 0..255, m \in DOMAIN CEC_MODE_FOLLOWER : SetMode(mode, "follower", m)
    \/ \E types \in Claims : Claim(types)
    \/ Done

Spec == Init /\ [][Next]_vars

-----------------------------------------------------------------------------
(* Properties.                                                             *)

\* No input makes a conversion panic: not an EDID that ends early, not a name
\* without a boundary where trimmed_osd_name looks for one, and, among the steps
\* of Conversions, not a frame of any length (slices in the decoders and the
\* array of MessageData::Invalid).
NeverPanics == outcome.is # "panic"

\* The configured name is shown as far as whole characters fit in 14 bytes,
\* and the unreachable! behind the search for a boundary is never reached:
\* the outcome is a length, that of the characters up to one, and those up to
\* the next one are too long.
NameTrimmed ==
    input.of = "name" =>
        \E k \in 0..Len(input.name) :
            /\ outcome = Ok(Bytes(SubSeq(input.name, 1, k)))
            /\ outcome.val <= 14
            /\ k < Len(input.name) => Bytes(SubSeq(input.name, 1, k + 1)) > 14

\* The texts of an address: the digits, which may have a sign in place of the
\* first one, with 0x in front or dots between.
Hex(a) == <<a \div 4096, (a \div 256) % 16, (a \div 16) % 16, a % 16>>

Spellings(a) ==
    LET h == Hex(a) IN
    {ShowAddress(a), h, <<0, Ex, h[1], h[2], h[3], h[4]>>}
    \cup IF h[1] = 0 THEN {<<Plus, h[2], h[3], h[4]>>, <<0, Ex, Plus, h[2], h[3], h[4]>>} ELSE {}

\* The texts of a byte of a vendor.
Pairs(b) == {<<b \div 16, b % 16>>} \cup (IF b < 16 THEN {<<Plus, b>>} ELSE {})

VendorSpellings(id) ==
    {<<p[1], p[2], Dash, q[1], q[2], Dash, r[1], r[2]>> :
        p \in Pairs(id[1]), q \in Pairs(id[2]), r \in Pairs(id[3])}

\* What is written out is read as what it was, and nothing else is read as an
\* address or a vendor but the other spellings that from_str_radix allows.
TextExact ==
    /\ input.of = "address" =>
         /\ outcome # Err => outcome.val \in U16 /\ input.text \in Spellings(outcome.val)
         /\ \A a \in Addresses : input.text \in Spellings(a) => outcome = Ok(a)
    /\ input.of = "vendor" =>
         /\ outcome # Err => input.text \in VendorSpellings(outcome.val)
         /\ \A id \in Vendors : input.text \in VendorSpellings(id) => outcome = Ok(id)

\* The data blocks of an extension end where its detailed timings begin, if that
\* is within the extension.
TimingsAt(edid, block) ==
    block + (IF At(edid, block + 2) \in 4..126 THEN At(edid, block + 2) ELSE 127)

\* Where the data blocks of an extension begin, one behind the other.
Starts(edid, block) ==
    LET start[n \in 0..123] ==
            IF n = 0 THEN block + 4
            ELSE LET before == start[n - 1] IN
                 IF before < TimingsAt(edid, block) THEN before + SizeAt(edid, before) ELSE before
    IN  start

\* A data block that holds an address is one of HDMI that is long enough, and
\* whole ahead of the timings.
HoldsAddress(edid, block, offset) ==
    /\ offset + SizeAt(edid, offset) <= TimingsAt(edid, block)
    /\ At(edid, offset) \in \h65..\h7F
    /\ <<At(edid, offset + 1), At(edid, offset + 2), At(edid, offset + 3)>> = HDMI_OUI

\* The extensions of an EDID, and those of CTA version 3 or newer, where the
\* comment of parse_hdmi_edid_pa wants the address to be.
ExtensionBlocks(edid) == {128 * k : k \in 1..Len(edid) \div 128 - 1}

IsCta(edid, block)    == At(edid, block) = 2
IsRecent(edid, block) == At(edid, block + 1) >= 3

CtaBlocks(edid) == {b \in ExtensionBlocks(edid) : IsCta(edid, b) /\ IsRecent(edid, b)}

\* An extension that is one and not the other may be a bad EDID's way to say the
\* same, or something else: an address in it may be taken or left.
DoubtfulBlocks(edid) == {b \in ExtensionBlocks(edid) : ~(IsCta(edid, b) <=> IsRecent(edid, b))}

\* The data blocks that hold an address.
HoldingIn(edid, block) ==
    LET starts == {Starts(edid, block)[n] : n \in 0..123} IN
    {o \in starts : o < TimingsAt(edid, block) /\ HoldsAddress(edid, block, o)}

Holding(edid, blocks) == UNION {HoldingIn(edid, b) : b \in blocks}

\* The address that some extensions of an EDID tell is that of the first of them.
AddressIn(edid, blocks) ==
    LET holding == Holding(edid, blocks) IN
    IF holding = {} THEN None
    ELSE Ok(AddressAt(edid, CHOOSE o \in holding : \A p \in holding : o <= p))

\* What an EDID may be taken to tell: its CTA extensions count, a doubtful one may.
Told(edid) == {AddressIn(edid, CtaBlocks(edid) \cup D) : D \in SUBSET DoubtfulBlocks(edid)}

\* parse_hdmi_edid_pa finds the address of the first HDMI data block that is
\* whole and ahead of the detailed timings, in an EDID of any length, whichever
\* of the doubtful extensions it looks into; a search over connectors ends with
\* an address if exactly one connected display tells a usable one, and only then.
EdidExact ==
    /\ input.of = "edid" => outcome \in Told(input.edid)
    /\ input.of = "connectors" =>
         LET all == input.connectors IN
         \E told \in [DOMAIN all -> UNION {Told(all[i].edid) : i \in DOMAIN all}] :
            LET shown == {i \in DOMAIN all :
                           /\ all[i].status = "connected"
                           /\ told[i] \notin {None, Ok(0), Ok(CEC_PHYS_ADDR_INVALID)}}
            IN  /\ \A i \in DOMAIN all : told[i] \in Told(all[i].edid)
                /\ outcome # None => \E i \in shown : shown = {i} /\ outcome = told[i]
                /\ outcome = None => \/ \E i \in DOMAIN all : all[i].status = "unreadable"
                                    \/ \A i \in shown : shown # {i}

\* "Requires CTA EDID version 3 or newer" (cecd/src/device.rs:762): an address is
\* found in an extension of CTA version 3 or newer, and in no other.
OnlyCta3 == input.of = "edid" => outcome = AddressIn(input.edid, CtaBlocks(input.edid))

\* A mode is set without disturbing the other one in its byte, and is then what
\* the getter returns; the address that is granted for a claimed type belongs to
\* that type, and has the primary device type that was announced with the claim.
SettingsKept ==
    /\ input.of = "mode" =>
         /\ outcome.val[1] = IF input.half = "initiator" THEN Ok(input.m) ELSE InitiatorMode(input.mode)
         /\ outcome.val[2] = IF input.half = "follower" THEN Ok(input.m) ELSE FollowerMode(input.mode)
    /\ input.of = "claim" /\ Len(input.types) <= CEC_MAX_LOG_ADDRS =>
         \A i \in DOMAIN input.types : \A a \in CEC_LOG_ADDR[input.types[i]] :
            /\ Ty(a) = {input.types[i]}
            /\ PrimaryOfAddress(a) = {outcome.val[i].primary_device_type} \ {\hFF}
    /\ input.of = "claim" /\ Len(input.types) > CEC_MAX_LOG_ADDRS => outcome = Err
=============================================================================
