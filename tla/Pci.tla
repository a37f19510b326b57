-------------------------------- MODULE Pci --------------------------------
(***************************************************************************)
(* The PCI driver core of src/sys/dev/pci/pci.c: the boot-time bus scan    *)
(* (pci_init, pci_scan_bus, pci_register_device) that builds device_list,  *)
(* the lookup pci_get_device, and the two operations that write           *)
(* configuration space, pci_map_bar and pci_set_cmdreg, all through the    *)
(* legacy CAM ports (pci_cam_read / pci_cam_write behind pci_readl /      *)
(* pci_writel).  The driver runs on one core at a time, so each call is   *)
(* one step.                                                               *)
(*                                                                         *)
(* Configuration space is kept for the command register (offset 0x4,      *)
(* its command half) and the six BARs (offsets 0x10..0x24).  Registers    *)
(* are RegWidth bits wide (32 in the hardware), and pci_cam_write's outb  *)
(* reaches only the low Lane bits (8) of a register.  Identification      *)
(* registers are read-only and are kept as the fields of HW.              *)
(***************************************************************************)
EXTENDS Naturals, Sequences, SequencesExt, Bitwise

CONSTANTS
    NumBus, NumSlot, NumFunc, \* the loop bounds of pci_init and pci_scan_bus
    HW,          \* HW[<<bus, slot, func>>]: the function there, or NoDevice
    NoDevice,    \* no function answers at that address
    RegWidth,    \* width of a configuration register
    Lane,        \* width of the part of a register outb writes
    CmdBits,     \* bit values drivers pass to pci_set_cmdreg
    IdVals,      \* the identification values lookups ask for
    MaxOps       \* bound on the driver calls after the scan

BDFs == (0..NumBus-1) \X (0..NumSlot-1) \X (0..NumFunc-1)
Present == {a \in BDFs : HW[a] # NoDevice}
Bars == 0..5
AllOnes == 2^RegWidth - 1
Reg == 0..AllOnes

CMD == 4                         \* PCIREG_CMDSTATUS
BarOffset(i) == 16 + 4 * i       \* PCIREG_BAR0 .. PCIREG_BAR5
Offsets == {CMD} \cup {BarOffset(i) : i \in Bars}

\* A BAR as the hardware decodes it: its read-only low type bits (bit 0 for
\* I/O space, bit 3 for prefetchable memory), log2 of its size (0 for an
\* unimplemented BAR, which reads 0 and ignores writes) and its address.
BarKind == [type: 0..15, sizeLog: {0} \cup (4..RegWidth-1), addr: Reg]
IdFields == {"vendor_id", "device_id", "pci_class", "pci_subclass"}

ASSUME
    /\ HW \in [BDFs -> [vendor_id: IdVals, device_id: IdVals,
                         pci_class: IdVals, pci_subclass: IdVals,
                         bar: [Bars -> BarKind]] \cup {NoDevice}]
    /\ 2^16 - 1 \notin IdVals
    /\ 0 < Lane /\ Lane < RegWidth

Done == <<NumBus, 0, 0>>         \* the scan position after the last bus

VARIABLES
    cfg,         \* cfg[a][off]: configuration register off of function a
    deviceList,  \* device_list: the struct pci_device records, in order
    pos,         \* <<bus, slot, func>> the scan registers next, or Done
    halted,      \* __assert(dev != NULL) failed in pci_register_device
    busMap,      \* busMap[a][i]: the (base, size) pci_map_bar of BAR i of
                 \*   a last passed to bus_map, or <<>>
    requested,   \* history: the bits pci_set_cmdreg was asked to set on a
    ops          \* driver calls made after the scan

vars == <<cfg, deviceList, pos, halted, busMap, requested, ops>>

Device == [bdf: BDFs, vendor_id: IdVals, device_id: IdVals,
           pci_class: IdVals, pci_subclass: IdVals, bar: [Bars -> Reg]]

TypeOK ==
    /\ cfg \in [Present -> [Offsets -> Reg]]
    /\ deviceList \in Seq(Device)
    /\ pos \in BDFs \cup {Done}
    /\ halted \in BOOLEAN
    /\ busMap \in [Present -> [Bars -> {<<>>} \cup (Reg \X Reg)]]
    /\ requested \in [Present -> Reg]
    /\ ops \in 0..MaxOps

\* The value a BAR holds: its address and type bits, 0 if unimplemented.
BarValue(k) == IF k.sizeLog = 0 THEN 0 ELSE k.addr + k.type

Init ==
    /\ cfg = [a \in Present |->
                [off \in Offsets |->
                   IF off = CMD THEN 0
                   ELSE BarValue(HW[a].bar[(off - 16) \div 4])]]
    /\ deviceList = <<>>
    /\ pos = <<0, 0, 0>>
    /\ halted = FALSE
    /\ busMap = [a \in Present |-> [i \in Bars |-> <<>>]]
    /\ requested = [a \in Present |-> 0]
    /\ ops = 0

-----------------------------------------------------------------------------
(* Configuration-space access.                                             *)

\* pci_cam_read: outl the address of the dword, inl 0xCFC.  A
\* function that is not there answers all ones.
CamRead(c, a, off) == IF a \in Present THEN c[a][off] ELSE AllOnes

\* pci_readl: access_method is PCI_ACCESS_CAM and never changes, so the
\* read goes to pci_cam_read and the panic after it is unreachable.
PciReadl(c, a, off) == CamRead(c, a, off)

\* pci_writel -> pci_cam_write: outl the address, then outb(0xCFC, value):
\* only the low Lane bits of the register are written.  The register keeps
\* its read-only bits: a BAR its type bits and the bits below its size.
LaneWrite(old, v) == (old - (old % 2^Lane)) + (v % 2^Lane)

RegisterWrite(a, off, w) ==
    IF off = CMD THEN w
    ELSE LET k == HW[a].bar[(off - 16) \div 4] IN
         IF k.sizeLog = 0 THEN 0
         ELSE (w - (w % 2^k.sizeLog)) + k.type

CamWrite(c, a, off, v) ==
    [c EXCEPT ![a][off] = RegisterWrite(a, off, LaneWrite(@, v))]

-----------------------------------------------------------------------------
(* The bus scan.                                                           *)

\* The loop tests of pci_scan_bus (func < 8, slot < 32) and pci_init
\* (uint16_t i < 256).
MoreFuncsShort(f) == f + 2 < NumFunc
MoreFuncs(f) == f + 1 < NumFunc
BusAfter(b) == b + 1

NextPos(p) ==
    IF MoreFuncs(p[3]) THEN <<p[1], p[2], p[3] + 1>>
    ELSE IF p[2] + 1 < NumSlot THEN <<p[1], p[2] + 1, 0>>
    ELSE IF BusAfter(p[1]) < NumBus THEN <<BusAfter(p[1]), 0, 0>>
    ELSE Done

\* pci_device_exists: the low 16 bits of the dword at offset 0 (the vendor
\* ID) are not 0xFFFF; an absent function reads all ones.
VendorId(a) == IF a \in Present THEN HW[a].vendor_id ELSE 2^16 - 1
DeviceExists(a) == VendorId(a) # 2^16 - 1

\* pci_set_device_info: the identification registers and the six BARs.
DeviceInfo(a) ==
    [bdf |-> a, vendor_id |-> HW[a].vendor_id, device_id |-> HW[a].device_id,
     pci_class |-> HW[a].pci_class, pci_subclass |-> HW[a].pci_subclass,
     bar |-> [i \in Bars |-> PciReadl(cfg, a, BarOffset(i))]]

\* One iteration of the scan loops: pci_register_device(bus, slot, func).
\* Absent functions are skipped; dynalloc may return NULL, and the
\* __assert halts; otherwise the record is filled and appended to
\* device_list.
PciRegisterDevice ==
    LET a == pos IN
    /\ pos # Done
    /\ ~halted
    /\ \/ /\ ~DeviceExists(a)
          /\ pos' = NextPos(a)
          /\ UNCHANGED <<deviceList, halted>>
       \/ /\ DeviceExists(a)
          /\ deviceList' = Append(deviceList, DeviceInfo(a))
          /\ pos' = NextPos(a)
          /\ UNCHANGED halted
       \/ /\ DeviceExists(a)
          /\ halted' = TRUE
          /\ UNCHANGED <<deviceList, pos>>
    /\ UNCHANGED <<cfg, busMap, requested, ops>>

-----------------------------------------------------------------------------
(* Driver calls, once pci_init has returned.                               *)

DriverCall ==
    /\ pos = Done
    /\ ~halted
    /\ ops < MaxOps
    /\ ops' = ops + 1

\* pci_get_barreg: the register of BAR `bar', 0 for a bad number.
BarReg(bar) == IF bar \in Bars THEN BarOffset(bar) ELSE 0

\* ~size + 1 computed without the wrap of the uint32_t.
NegateWide(x) == AllOnes - x + 1

\* ~size + 1 on a uint32_t.
Negate(x) == (AllOnes - x + 1) % 2^RegWidth

\* The restore of pci_map_bar: pci_writel(dev, bar_reg, tmp).
MapBarNoRestore(c, a, reg, tmp) == c
MapBarRestore(c, a, reg, tmp) == CamWrite(c, a, reg, tmp)

\* pci_map_bar: -EINVAL for a bad BAR number; otherwise save the BAR,
\* write all ones, read back the size mask, restore the BAR, and
\* bus_map(dev->bar[bar], ~mask + 1) with the BAR value cached at the scan.
PciMapBar(i, bar) ==
    LET dev == deviceList[i]
        a == dev.bdf
        reg == BarReg(bar)
    IN
    /\ DriverCall
    /\ \/ /\ reg = 0
          /\ UNCHANGED <<cfg, busMap>>
       \/ /\ reg # 0
          /\ LET tmp == PciReadl(cfg, a, reg)
                 sized == CamWrite(cfg, a, reg, AllOnes)
                 size == Negate(PciReadl(sized, a, reg))
             IN /\ cfg' = MapBarRestore(sized, a, reg, tmp)
                /\ busMap' = [busMap EXCEPT ![a][bar] = <<dev.bar[bar], size>>]
    /\ UNCHANGED <<deviceList, pos, halted, requested>>

\* pci_set_cmdreg: pci_writel(dev, 0x4, pci_readl(dev, 0x4) | bits).
PciSetCmdreg(i, bits) ==
    LET a == deviceList[i].bdf IN
    /\ DriverCall
    /\ cfg' = CamWrite(cfg, a, CMD, PciReadl(cfg, a, CMD) | bits)
    /\ requested' = [requested EXCEPT ![a] = @ | bits]
    /\ UNCHANGED <<deviceList, pos, halted, busMap>>

-----------------------------------------------------------------------------
(* pci_get_device: the first device of device_list whose fields selected  *)
(* by lookup_type all equal the lookup's, as an index (0 for NULL).  The  *)
(* matches of one device are cleared before the next (line 328).          *)

ResetMatchesKeep(m) == m
ResetMatches(m) == {}

RECURSIVE GetDeviceFrom(_, _, _, _)
GetDeviceFrom(lookup, type, i, matches) ==
    IF i > Len(deviceList) THEN 0
    ELSE LET m == matches \cup
                  {f \in type : lookup[f] = deviceList[i][f]}
         IN IF type = m THEN i
            ELSE GetDeviceFrom(lookup, type, i + 1, ResetMatches(m))

PciGetDevice(lookup, type) == GetDeviceFrom(lookup, type, 1, {})

-----------------------------------------------------------------------------
Next ==
    \/ PciRegisterDevice
    \/ \E i \in 1..Len(deviceList) :
          \/ \E bar \in 0..6 : PciMapBar(i, bar)
          \/ \E bits \in CmdBits : PciSetCmdreg(i, bits)

Spec == Init /\ [][Next]_vars

-----------------------------------------------------------------------------
(* Properties.                                                             *)

\* Scan order: bus, then slot, then function.
ScanBefore(x, y) ==
    \/ x[1] < y[1]
    \/ x[1] = y[1] /\ x[2] < y[2]
    \/ x[1] = y[1] /\ x[2] = y[2] /\ x[3] < y[3]

\* At every point of pci_init, also when dynalloc has failed and the
\* __assert has halted the scan part-way, device_list holds exactly the
\* answering functions the scan has passed, each once, in scan order; so
\* once pci_init returns it holds every function on the scanned buses.
ScanFindsAll ==
    [j \in 1..Len(deviceList) |-> deviceList[j].bdf]
        = SetToSortSeq({a \in Present : ScanBefore(a, pos)}, ScanBefore)

\* The BAR values pci_set_device_info cached in each pci_device are still
\* what the BARs hold: pci_map_bar's sizing writes are undone.
DeviceInfoBarsCurrent ==
    \A j \in 1..Len(deviceList) : \A i \in Bars :
        deviceList[j].bar[i] = cfg[deviceList[j].bdf][BarOffset(i)]

\* pci_get_device returns the first listed device whose selected fields
\* all match the lookup, for every lookup and every lookup_type.
LookupReturnsFirstMatch ==
    \A type \in SUBSET IdFields, lookup \in [IdFields -> IdVals] :
        PciGetDevice(lookup, type) =
            SelectInSeq(deviceList, LAMBDA d : \A f \in type : lookup[f] = d[f])

\* "Set command register bits": every bit a driver asked pci_set_cmdreg
\* to set is set in the command register.
CmdBitsSet == \A a \in Present : (cfg[a][CMD] & requested[a]) = requested[a]

\* pci_map_bar hands bus_map the region the BAR decodes: its address
\* without the type bits and its size ("the length of the region this BAR
\* covers"; an unimplemented BAR covers none).
BarRegion(k) == IF k.sizeLog = 0 THEN <<0, 0>> ELSE <<k.addr, 2^k.sizeLog>>

MapBarRegion ==
    \A a \in Present : \A i \in Bars :
        busMap[a][i] # <<>> => busMap[a][i] = BarRegion(HW[a].bar[i])

=============================================================================
