------------------------------- MODULE MCPci -------------------------------
(* Three functions on one bus, two slots of two functions each; slot 0      *)
(* function 1 is empty.  BARs are scaled to RegWidth = 16 bits.             *)
EXTENDS Pci

None == [type |-> 0, sizeLog |-> 0, addr |-> 0]
Mem(addr, s) == [type |-> 0, sizeLog |-> s, addr |-> addr]
Io(addr, s) == [type |-> 1, sizeLog |-> s, addr |-> addr]
Prefetch(addr, s) == [type |-> 8, sizeLog |-> s, addr |-> addr]

Fn(v, d, c, sc, b0, b1) ==
    [vendor_id |-> v, device_id |-> d, pci_class |-> c, pci_subclass |-> sc,
     bar |-> [i \in 0..5 |-> CASE i = 0 -> b0 [] i = 1 -> b1 [] OTHER -> None]]

MCHW ==
    [a \in (0..0) \X (0..1) \X (0..1) |->
        CASE a = <<0, 0, 0>> -> Fn(1, 1, 1, 1, Mem(57344, 12), Io(49152, 5))
          [] a = <<0, 1, 0>> -> Fn(2, 1, 2, 1, Prefetch(61696, 8), None)
          [] a = <<0, 1, 1>> -> Fn(1, 2, 2, 2, Mem(65520, 4), None)
          [] OTHER -> NoDevice]
=============================================================================
