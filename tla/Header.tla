------------------------------- MODULE Header -------------------------------
(***************************************************************************)
(* The header of the network layer as bytes: encode and decode of class    *)
(* NetworkLayer (ntdcp/src/network.cpp).  A flag byte holds the sizes of   *)
(* the two addresses in two bits each and the hop limit in the four above, *)
(* or HopEscape there and the hop limit in a byte of its own.  Behind it   *)
(* come the package id, the source, the destination and the data.          *)
(***************************************************************************)
EXTENDS Integers, Sequences

CONSTANTS
    Base,           \* values of a byte: 256 in the code
    HopEscape       \* the mark in the flag byte: 15 in the code

ASSUME HeaderAssumption == Base \in Nat \ {0, 1} /\ HopEscape \in 1 .. 15

\* x & 0xFF and x >> 8
Low(x) == x % Base
Rest(x) == x \div Base

-----------------------------------------------------------------------------
(* encode() *)

\* Mutant: the first address of a size is put into one byte too few.
AddressSizeOffByOne(address) ==
    CASE address <= Base -> 1
      [] Base < address /\ address <= Base * Base -> 2
      [] Base * Base < address /\ address <= Base * Base * Base -> 3
      [] OTHER -> 4

AddressSize(address) ==
    CASE address < Base -> 1
      [] Base <= address /\ address < Base * Base -> 2
      [] Base * Base <= address /\ address < Base * Base * Base -> 3
      [] OTHER -> 4

\* The most significant byte first.  Of an address above four bytes the four
\* lower ones are kept.
PutAddress(address) ==
    LET b == Rest(address)
        c == Rest(b)
        d == Rest(c)
    IN  CASE AddressSize(address) = 1 -> <<Low(address)>>
          [] AddressSize(address) = 2 -> <<Low(b), Low(address)>>
          [] AddressSize(address) = 3 -> <<Low(c), Low(b), Low(address)>>
          [] OTHER -> <<Low(d), Low(c), Low(b), Low(address)>>

Flag(header) ==
    (AddressSize(header.source) - 1) + 4 * (AddressSize(header.destination) - 1)
      + 16 * (IF header.hop_limit < HopEscape THEN header.hop_limit ELSE HopEscape)

\* A uint16_t is copied as it lies in memory.
PutId(id) == <<Low(id), Rest(id)>>

Encode(header, data) ==
    <<Flag(header)>> \o PutId(header.id)
      \o (IF header.hop_limit < HopEscape THEN <<>> ELSE <<header.hop_limit>>)
      \o PutAddress(header.source) \o PutAddress(header.destination) \o data

-----------------------------------------------------------------------------
(* decode() *)

SourceSize(flag) == (flag % 4) + 1
DestinationSize(flag) == ((flag \div 4) % 4) + 1
HopSize(flag) == IF flag \div 16 = HopEscape THEN 1 ELSE 0
HeaderSize(flag) == 3 + HopSize(flag) + SourceSize(flag) + DestinationSize(flag)

\* Otherwise decode() returns nullopt.
Decodes(bytes) == bytes # <<>> /\ Len(bytes) >= HeaderSize(bytes[1])

\* x << 24 is an int: its sign fills the upper half of the uint64_t it is added to.
SignOf(x) ==
    IF x < Base \div 2 THEN 0
    ELSE (Base * Base * Base * Base) * (Base * Base * Base * Base - 1)

\* read_addr_from_mem() of the bytes of one address.
ReadAddress(x) ==
    CASE Len(x) = 1 -> x[1]
      [] Len(x) = 2 -> Base * x[1] + x[2]
      [] Len(x) = 3 -> Base * (Base * x[1] + x[2]) + x[3]
      [] OTHER -> Base * (Base * (Base * x[1] + x[2]) + x[3]) + x[4] + SignOf(x[1])

\* The hop limit of an escaped flag is read before the package id.
Decode(bytes) ==
    LET flag == bytes[1]
        id_at == 2 + HopSize(flag)
        source_at == id_at + 2
        destination_at == source_at + SourceSize(flag)
        data_at == destination_at + DestinationSize(flag)
    IN  [hop_limit |-> IF HopSize(flag) = 1 THEN bytes[2] ELSE flag \div 16,
         id |-> bytes[id_at] + Base * bytes[id_at + 1],
         source |-> ReadAddress(SubSeq(bytes, source_at, destination_at - 1)),
         destination |-> ReadAddress(SubSeq(bytes, destination_at, data_at - 1)),
         data |-> SubSeq(bytes, data_at, Len(bytes))]
=============================================================================
