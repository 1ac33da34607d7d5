------------------------------ MODULE RegionAccess ------------------------------
(***************************************************************************)
(* The register accesses of the driver (driver/rtd-dm35425.c).  The        *)
(* library asks for one with an ioctl: READ, WRITE or MODIFY of 8, 16 or   *)
(* 32 bits at an offset of a PCI region.  The driver validates the request *)
(* and performs it under the device lock, so that each is one step.        *)
(*                                                                         *)
(* The registers of a region are the set of the bits that are one; bit b   *)
(* of the byte at offset o is number 8 * o + b.  A value is the set of its *)
(* one bits.                                                               *)
(***************************************************************************)
EXTENDS Integers, Sequences

\* The bits of a number; a negative one in two's complement of 32 bits.
Bits(n) == {b \in 0 .. 30 : (n \div 2^b) % 2 = 1} \cup (IF n < 0 THEN {31} ELSE {})

Width(n) == 0 .. n - 1
-----------------------------------------------------------------------------
(* Requests, as the library fills them in.  Their offset has 16 bits.      *)

Access(op, region, offset, size, data, mask) ==
  [op |-> op, region |-> region, offset |-> offset, size |-> size,
   data |-> data, mask |-> mask]

Read(offset, size) == Access("read", "FB", offset, size, {}, {})
Write(offset, size, data) == Access("write", "FB", offset, size, data, {})
Modify(offset, size, data, mask) == Access("modify", "FB", offset, size, data, mask)

\* What a library function does: an error of its own, or the accesses it makes
\* one after another.  What it hands back are the values read, shifted right.
Request(accesses) == [errno |-> "none", accesses |-> accesses, shift |-> 0]
Rejected(errno) == [errno |-> errno, accesses |-> <<>>, shift |-> 0]
Checked(valid, accesses) == IF valid THEN Request(accesses) ELSE Rejected("EINVAL")
Shifted(request, n) == [request EXCEPT !.shift = n]
Then(first, second) ==
  IF first.errno # "none" THEN first
  ELSE IF second.errno # "none" THEN second
  ELSE [second EXCEPT !.accesses = first.accesses \o @]
-----------------------------------------------------------------------------
(* The driver.                                                             *)

Bytes(size) == size \div 8

\* A plausible error: the size of the access is not taken off the length.
validate_pci_access_Loose(length, a) ==
  CASE a.size \notin {8, 16, 32} -> "EMSGSIZE"
    [] a.region \notin {"GBC", "FB"} -> "EINVAL"
    [] a.offset > length[a.region] -> "ERANGE"
    [] a.offset % Bytes(a.size) # 0 -> "EOPNOTSUPP"
    [] OTHER -> "none"

\* The difference of the lengths is unsigned: for a region shorter than the access
\* it wraps, and no offset exceeds it.
validate_pci_access(length, a) ==
  CASE a.size \notin {8, 16, 32} -> "EMSGSIZE"
    [] a.region \notin {"GBC", "FB"} -> "EINVAL"
    [] /\ length[a.region] >= Bytes(a.size)
       /\ a.offset > length[a.region] - Bytes(a.size) -> "ERANGE"
    [] a.offset % Bytes(a.size) # 0 -> "EOPNOTSUPP"
    [] OTHER -> "none"

Window(offset, size) == 8 * offset .. 8 * offset + size - 1

region_read(m, offset, size) == {b \in Width(size) : 8 * offset + b \in m}

region_write(m, offset, size, data) ==
  (m \ Window(offset, size)) \cup {8 * offset + b : b \in data \cap Width(size)}

\* A plausible error: the bits outside the mask are taken from the request too.
modified_NoMask(old, data, mask) == data

\* pci_region_modify writes back the old value with the masked bits replaced.
modified(old, data, mask) == (old \ mask) \cup (data \cap mask)
=============================================================================
