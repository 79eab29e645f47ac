-------------------------------- MODULE Pci ---------------------------------
(***************************************************************************)
(* src/kernel/pci.cpp: the scan of configuration space at boot that fills  *)
(* the list `lspci` prints and the System Monitor counts.                  *)
(*                                                                         *)
(* An address is <<bus, device, function>>.  space says what is in each    *)
(* slot, and never changes; next is the address the loops of pci_scan_bus  *)
(* are at.  Of a device's registers only those the scan looks at are kept. *)
(***************************************************************************)
EXTENDS Naturals, Sequences, FiniteSets

CONSTANTS LastBus, LastDevice, LastFunction,   \* 255, 31 and 7
          MaxDevices                           \* MAX_PCI_DEVICES

ASSUME ScanAssumption == {LastBus, LastDevice, LastFunction, MaxDevices} \subseteq Nat

VARIABLES space, next, pci_devices

pciVars == <<space, next, pci_devices>>

Functions == 0..LastFunction
Addresses == (0..LastBus) \X (0..LastDevice) \X Functions
Done == <<>>

-----------------------------------------------------------------------------
(* The hardware.  Every device has a function 0.  A device with one        *)
(* function has the multi-function bit clear, and may leave the function   *)
(* number of a request undecoded: it then answers to all of them.          *)

Device(functions, multi, decodes) == [functions |-> functions, multi |-> multi, decodes |-> decodes]
Devices == {Device({}, FALSE, TRUE), Device({0}, FALSE, TRUE), Device({0}, FALSE, FALSE)}
           \union {Device(fs, TRUE, TRUE) : fs \in {fs \in SUBSET Functions : 0 \in fs}}

In(a) == space[<<a[1], a[2]>>]
Exists(a) == a[3] \in In(a).functions

\* pci_read_vendor_id(...) != 0xFFFF
Answers(a) == Exists(a) \/ ~In(a).decodes

-----------------------------------------------------------------------------

PciInit == /\ space \in [(0..LastBus) \X (0..LastDevice) -> Devices]
           /\ next = <<0, 0, 0>>
           /\ pci_devices = <<>>

\* The loops' next device
DeviceAfter(a) == IF a[2] < LastDevice THEN <<a[1], a[2] + 1, 0>>
                  ELSE IF a[1] < LastBus THEN <<a[1] + 1, 0, 0>>
                  ELSE Done

\* The loop over functions 1-7, entered when function 0 answers and has the
\* multi-function bit set; and one that is entered for every device
AfterWhatever(a) == IF Answers(a) /\ a[3] < LastFunction
                    THEN <<a[1], a[2], a[3] + 1>> ELSE DeviceAfter(a)
After(a) == IF \/ a[3] = 0 /\ ~(Answers(a) /\ In(a).multi)
               \/ a[3] = LastFunction
            THEN DeviceAfter(a)
            ELSE <<a[1], a[2], a[3] + 1>>

\* pci_scan_function: a list that is full takes no more.
ScanFunction(a) == IF Answers(a) /\ Len(pci_devices) < MaxDevices
                   THEN Append(pci_devices, a) ELSE pci_devices

PciNext == /\ next # Done
           /\ pci_devices' = ScanFunction(next)
           /\ next' = After(next)
           /\ UNCHANGED space

PciSpec == PciInit /\ [][PciNext]_pciVars

-----------------------------------------------------------------------------

Before(a, b) == \/ a[1] < b[1]
                \/ a[1] = b[1] /\ a[2] < b[2]
                \/ a[1] = b[1] /\ a[2] = b[2] /\ a[3] < b[3]

(* The list holds every function that exists, as far as the scan has come, *)
(* once and in the order of addresses, whichever devices answer to numbers *)
(* of functions they do not have; a list that is full holds the first.     *)
EachFunctionOnce ==
  LET passed == {a \in Addresses : Exists(a) /\ (next = Done \/ Before(a, next))}
  IN  /\ Len(pci_devices) = IF Cardinality(passed) < MaxDevices THEN Cardinality(passed)
                            ELSE MaxDevices
      /\ \A i \in DOMAIN pci_devices :
           /\ pci_devices[i] \in passed
           /\ Cardinality({a \in passed : Before(a, pci_devices[i])}) = i - 1
=============================================================================
