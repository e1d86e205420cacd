------------------------------- MODULE HexFile ------------------------------
(***************************************************************************)
(* How an ELF file becomes the hex file of a simulation (generate_hex_file *)
(* of scripts/utils.py): the bytes that objcopy wrote are read into a      *)
(* Memory and written back as a debug file; then the sections without      *)
(* contents are filled with zeros and the memory is written again.         *)
(*                                                                         *)
(* A file is the sequence of its tokens: where a line ends, and the width  *)
(* to which numbers are padded, make no difference to a reader.  A step is *)
(* an iteration of the loop that writes, or of the one that inserts.       *)
(***************************************************************************)
EXTENDS Integers, Sequences

CONSTANTS
  VHexFiles,   \* what objcopy may have written
  Tables,      \* the section tables of ELF files, as readelf prints them
  Columns      \* the values of a line

Token   == [kind : {"@", "value"}, n : Nat]
Section == [dotted : BOOLEAN, type : STRING, addr : Nat, size : Nat]

ASSUME HexFileAssumption ==
  /\ Columns \in Nat \ {0}
  /\ \A f \in VHexFiles : f \in Seq(Token) /\ \E n \in DOMAIN f : f[n].kind = "value"
  /\ \A t \in Tables : t \in Seq(Section)

VARIABLES
  v_hex_file,               \* the input
  table,                    \* the section table
  data,                     \* Memory.data
  init_zeros,               \* the rows of the table that are still to be inserted
  address, last_addr,       \* the addresses still to be written, and the last
  lines, buffer,            \* the writer: the lines, and the values of the next one
  debug_hex,                \* the debug file, once written
  phase                     \* "debug", "zeros", "hex" or "done"

hexVars == <<v_hex_file, table, data, init_zeros, address, last_addr, lines,
             buffer, debug_hex, phase>>

At(a)    == [kind |-> "@", n |-> a]
Value(v) == [kind |-> "value", n |-> v]

----------------------------------------------------------------------------
(* Reading.                                                                *)

\* The memory m with value v at address a.
Placed(m, a, v) == [b \in DOMAIN m \cup {a} |-> IF b = a THEN v ELSE m[b]]

read(s, t) == IF t.kind = "@" THEN [data |-> s.data, addr |-> t.n]
                              ELSE [data |-> Placed(s.data, s.addr, t.n), addr |-> s.addr + 1]

\* The loop over the tokens: its memory and its address at the end.
Reading(tokens) ==
  LET state[n \in 0..Len(tokens)] ==
        IF n = 0 THEN [data |-> <<>>, addr |-> 0] ELSE read(state[n - 1], tokens[n])
  IN  state[Len(tokens)]

parse_verilog_hex(tokens) == Reading(tokens).data

\* readelf_regex has only names with a dot, or none.
parse_readelf(sections) == {n \in DOMAIN sections : sections[n].dotted}

Nobits(sections) == {n \in parse_readelf(sections) : sections[n].type = "NOBITS"}

----------------------------------------------------------------------------
(* VerilogHexWriter, on writers [lines, buffer].                           *)

flush_columns(w) == [lines |-> w.lines \o w.buffer, buffer |-> <<>>]

\* Mutant: the values before an address are not flushed.
AddressUnflushed(w, addr) == [lines |-> Append(w.lines, At(addr)), buffer |-> w.buffer]

Address(w, addr) == LET flushed == flush_columns(w)
                    IN  [lines |-> Append(flushed.lines, At(addr)), buffer |-> flushed.buffer]

value(w, v) ==
  LET full == [lines |-> w.lines, buffer |-> Append(w.buffer, Value(v))]
  IN  IF Len(full.buffer) = Columns THEN flush_columns(full) ELSE full

----------------------------------------------------------------------------
(* Steps.                                                                  *)

Writer == [lines |-> lines, buffer |-> buffer]

Becomes(w) == lines' = w.lines /\ buffer' = w.buffer

Least(n, S) == n \in S /\ \A m \in S : n <= m

\* An iteration of write_verilog_hex, over the addresses in their order.
WriteValue ==
  /\ phase \in {"debug", "hex"}
  /\ \E addr \in address :
       /\ Least(addr, address)
       /\ LET w == IF addr # last_addr + 1 THEN Address(Writer, addr) ELSE Writer
          IN  Becomes(value(w, data[addr]))
       /\ last_addr' = addr /\ address' = address \ {addr}
  /\ UNCHANGED <<v_hex_file, table, data, init_zeros, debug_hex, phase>>

\* Its end.
Close ==
  /\ phase \in {"debug", "hex"} /\ address = {}
  /\ Becomes(Address(Writer, last_addr + 1))
  /\ IF phase = "debug" THEN phase' = "zeros" /\ debug_hex' = lines'
                        ELSE phase' = "done" /\ debug_hex' = debug_hex
  /\ UNCHANGED <<v_hex_file, table, data, init_zeros, address, last_addr>>

\* The memory m with zeros at the addresses of zs.
Zeros(zs, m) == [a \in zs \cup DOMAIN m |-> IF a \in zs THEN 0 ELSE m[a]]

\* Mutant: an inserted section ends one byte early.
InsertShort(m, row) == Zeros(row.addr..(row.addr + row.size - 2), m)

Insert(m, row) == Zeros(row.addr..(row.addr + row.size - 1), m)

InsertZeros ==
  /\ phase = "zeros"
  /\ \E row \in init_zeros : /\ Least(row, init_zeros)
                             /\ data' = Insert(data, table[row])
                             /\ init_zeros' = init_zeros \ {row}
  /\ UNCHANGED <<v_hex_file, table, address, last_addr, lines, buffer, debug_hex, phase>>

BeginHex ==
  /\ phase = "zeros" /\ init_zeros = {}
  /\ phase' = "hex"
  /\ address' = DOMAIN data /\ last_addr' = 0
  /\ lines' = <<>> /\ buffer' = <<>>
  /\ UNCHANGED <<v_hex_file, table, data, init_zeros, debug_hex>>

HexInit ==
  /\ v_hex_file \in VHexFiles /\ table \in Tables
  /\ data = parse_verilog_hex(v_hex_file)
  /\ init_zeros = Nobits(table)
  /\ phase = "debug" /\ debug_hex = <<>>
  /\ address = DOMAIN data /\ last_addr = 0
  /\ lines = <<>> /\ buffer = <<>>

HexNext == WriteValue \/ Close \/ InsertZeros \/ BeginHex

HexSpec == HexInit /\ [][HexNext]_hexVars

----------------------------------------------------------------------------
(* Properties.                                                             *)

\* write_verilog_hex starts with last_addr = 0, so a memory that starts at 1
\* is written without its first address and read back at 0.
StartsAtOne(m) == 1 \in DOMAIN m /\ 0 \notin DOMAIN m

Tokens == lines \o buffer

\* At every point of the loop, what has been written and what is in the
\* writer's buffer reads back as the part of the memory that the loop has
\* gone through: no value is lost, doubled or displaced where the addresses
\* have a gap or a line is full.
ReadsBack ==
  phase # "zeros" /\ ~StartsAtOne(data) =>
    parse_verilog_hex(Tokens) = [a \in DOMAIN data \ address |-> data[a]]

Extent(row) == row.addr..(row.addr + row.size - 1)
Zeroed(rows) == UNION {Extent(table[n]) : n \in rows}

\* The debug file has the bytes of the ELF file, the hex file also zeros
\* wherever a section has none.
HexFileComplete ==
  LET loaded == parse_verilog_hex(v_hex_file)
      image  == Zeros(Zeroed(Nobits(table)), loaded)
  IN  /\ phase # "debug" /\ ~StartsAtOne(loaded) => parse_verilog_hex(debug_hex) = loaded
      /\ phase = "done" /\ ~StartsAtOne(image) => parse_verilog_hex(lines) = image

=============================================================================
