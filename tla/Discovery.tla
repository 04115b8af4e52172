----------------------------- MODULE Discovery ------------------------------
(***************************************************************************)
(* How cecd finds its physical address: in the EDID of the one connector   *)
(* that has one. An index behind the end of the EDID is a panic.           *)
(***************************************************************************)
EXTENDS Constants, Results, Integers, Sequences

-----------------------------------------------------------------------------
(* DrmConnector::parse_hdmi_edid_pa. Offsets are counted from 0.           *)

HDMI_OUI == <<\h03, \h0C, \h00>>

At(edid, offset) == edid[offset + 1]

EndOf_NoCap(edid, block) ==
    block + (IF At(edid, block + 2) >= 4 THEN At(edid, block + 2) ELSE 127)

\* The data blocks end where the detailed timings begin.
EndOf(edid, block) ==
    block + (IF At(edid, block + 2) >= 4
             THEN (IF At(edid, block + 2) < 127 THEN At(edid, block + 2) ELSE 127)
             ELSE 127)

\* The size of the data block at an offset, its header included; it is a vendor's;
\* and the vendor is HDMI.
SizeAt(edid, offset) == (At(edid, offset) % 32) + 1
IsVendorSpecific(edid, offset) == (At(edid, offset) \div 32) * 32 = \h60
IsHdmi(edid, offset) == SubSeq(edid, offset + 2, offset + 4) = HDMI_OUI

\* Reading the data block at an offset runs over the end of the EDID.
Overruns(edid, offset) ==
    \/ offset + 4 > Len(edid)
    \/ IsHdmi(edid, offset) /\ offset + 6 > Len(edid)

AddressAt(edid, offset) == At(edid, offset + 4) * 256 + At(edid, offset + 5)

\* What the loop over the data blocks comes to from each offset.
DataBlocks(edid, block) ==
    LET end == EndOf(edid, block)
        from[offset \in block + 4..block + 158] ==
            LET size == SizeAt(edid, offset) IN
            IF ~(offset + 1 < Len(edid) /\ offset < end) THEN None
            ELSE IF size < 6 THEN from[offset + size]
            ELSE IF offset + size > end THEN None
            ELSE IF ~IsVendorSpecific(edid, offset) THEN from[offset + size]
            ELSE IF Overruns(edid, offset) THEN Panic
            ELSE IF ~IsHdmi(edid, offset) THEN from[offset + size]
            ELSE Ok(AddressAt(edid, offset))
    IN  from

\* Extension blocks that are not CTA ones and older than version 3 are skipped.
Skipped(edid, block) == At(edid, block) # 2 /\ At(edid, block + 1) < 3

\* The same of the loop over the extension blocks.
Extensions(edid) ==
    LET from[block \in 128..Len(edid) + 128] ==
            LET pa == DataBlocks(edid, block)[block + 4] IN
            IF block + 128 > Len(edid) THEN None
            ELSE IF Skipped(edid, block) \/ pa = None THEN from[block + 128]
            ELSE pa
    IN  from

ParseHdmiEdidPa(edid) == Extensions(edid)[128]

\* from_drm_path takes only an address that is neither the root nor invalid.
ConnectorAddress(edid) ==
    LET pa == ParseHdmiEdidPa(edid) IN
    IF pa.is = "ok" /\ pa.val \in {0, CEC_PHYS_ADDR_INVALID} THEN None ELSE pa

\* from_drm_path: a connector is its status file and its EDID.
FromDrmPath(connector) ==
    IF connector.status = "connected" THEN ConnectorAddress(connector.edid) ELSE None

\* System::find_physical_address: the one connector that has an address. An
\* unreadable connector ends the search, and its caller takes that for none.
FindPhysicalAddress(connectors) ==
    LET found == {i \in DOMAIN connectors : FromDrmPath(connectors[i]) # None} IN
    IF /\ \A i \in DOMAIN connectors : connectors[i].status # "unreadable"
       /\ \E i \in found : found = {i}
    THEN FromDrmPath(connectors[CHOOSE i \in found : TRUE])
    ELSE None
=============================================================================
