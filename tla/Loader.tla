-------------------------------- MODULE Loader ------------------------------
(***************************************************************************)
(* How programs and the lists of the unit tests become memories and        *)
(* transactions (riscv_utils.py, riscv_constants.py and the from_string    *)
(* methods).  An ELF file is a function from section names to sections;    *)
(* a string of the tests is the sequence of its words, parsed as numbers.  *)
(***************************************************************************)
EXTENDS Assembler, SequencesExt

abi_names ==
  <<"zero", "ra", "sp", "gp", "tp", "t0", "t1", "t2", "s0", "s1", "a0", "a1",
    "a2", "a3", "a4", "a5", "a6", "a7", "s2", "s3", "s4", "s5", "s6", "s7",
    "s8", "s9", "s10", "s11", "t3", "t4", "t5", "t6">>

abi_reg_map == [name \in Range(abi_names) |-> CHOOSE r \in 0..31 : abi_names[r + 1] = name]

----------------------------------------------------------------------------
(* Memories.                                                               *)

read_elf(elf, sections) == [name \in sections \cap DOMAIN elf |-> elf[name]]

\* The addresses of a section.
Extent(section) == section.addr..(section.addr + Len(section.data) - 1)

elf_to_memory(elf) ==
  [a \in UNION {Extent(elf[name]) : name \in DOMAIN elf} |->
     LET name == CHOOSE n \in DOMAIN elf : a \in Extent(elf[n])
     IN  elf[name].data[a - elf[name].addr + 1]]

\* Sections of other names are not loaded.
process_elf(elf) ==
  [instruction_memory |-> elf_to_memory(read_elf(elf, {".init", ".text"})),
   data_memory        |-> elf_to_memory(read_elf(elf, {".data", ".rodata"}))]

compile_instructions(elf) == elf_to_memory(read_elf(elf, {".text"}))

parse_data_memory(words) ==
  FoldLeft(LAMBDA m, w : Merge(m, [a \in w[1]..(w[1] + 3) |-> Lane(w[2], a - w[1])]),
           <<>>, words)

----------------------------------------------------------------------------
(* Transactions.                                                           *)

RegFileWriteTransaction(reg, data) == [reg |-> reg, data |-> data]

\* One register or two.
RegFileReadTransaction(pairs) == pairs

\* The registers at the odd words, their values at the even ones.
RegFileRead_from_string(words) ==
  RegFileReadTransaction([n \in 1..(Len(words) \div 2) |->
                            <<abi_reg_map[words[2 * n - 1]], words[2 * n]>>])

RegFileWrite_from_string(words) ==
  RegFileWriteTransaction(abi_reg_map[words[1]], words[2])

BusReadTransaction(addr, data) == [addr |-> addr, data |-> data]

BusRead_from_string(words) == BusReadTransaction(words[1], words[2])

\* The strobe is the set of its lanes.
BusWriteTransaction(addr, data, strobe, response) ==
  [addr |-> addr, data |-> data, strobe |-> strobe, response |-> response]

BusWrite_from_string(words) ==
  BusWriteTransaction(words[1], words[2], words[3], words[4])

=============================================================================
