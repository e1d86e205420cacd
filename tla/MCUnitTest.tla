------------------------------ MODULE MCUnitTest ----------------------------
(***************************************************************************)
(* The unit tests of the repository (unit_tests.toml) on Copperv2, with    *)
(* lui, lh and auipc scaled to sixteen-bit words.                          *)
(***************************************************************************)
EXTENDS UnitTest, Programs

Reg(name) == abi_reg_map[name]

\* A test of the file; its program is numbered in UnitListing.
Test(instructions, regfile_read, regfile_write, data_read, data_write, data_memory) ==
  [instructions |-> instructions, regfile_read |-> regfile_read,
   regfile_write |-> regfile_write, data_read |-> data_read,
   data_write |-> data_write, data_memory |-> data_memory]

addi(rd, rs1, value) == I("addi", Reg(rd), Reg(rs1), value)

lui == Test(<<U("lui", Reg("t0"), 3)>>, <<>>, << <<"t0", 12288>> >>, <<>>, <<>>, <<>>)

addi_test == Test(<<addi("t0", "zero", 291)>>,
  << <<"zero", 0>> >>, << <<"t0", 291>> >>, <<>>, <<>>, <<>>)

add == Test(<<addi("t0", "zero", 12), addi("t1", "zero", 34), R("add", 7, 5, 6)>>,
  << <<"zero", 0>>, <<"zero", 0>>, <<"t0", 12, "t1", 34>> >>,
  << <<"t0", 12>>, <<"t1", 34>>, <<"t2", 46>> >>, <<>>, <<>>, <<>>)

lw == Test(<<addi("t0", "zero", 11), I("lw", 6, 5, 21)>>,
  << <<"zero", 0>>, <<"t0", 11>> >>, << <<"t0", 11>>, <<"t1", 291>> >>,
  << <<32, 291>> >>, <<>>, << <<32, 291>> >>)

\* The half word 0x12 in the upper lanes of the word 0x1200.
lh == Test(<<addi("t0", "zero", 11), I("lh", 6, 5, 23)>>,
  << <<"zero", 0>>, <<"t0", 11>> >>, << <<"t0", 11>>, <<"t1", 18>> >>,
  << <<32, 4608>> >>, <<>>, << <<32, 4608>> >>)

sw == Test(<<addi("t0", "zero", 9), addi("t1", "zero", 801), S("sw", 5, 6, 3)>>,
  << <<"zero", 0>>, <<"zero", 0>>, <<"t0", 9, "t1", 801>> >>,
  << <<"t0", 9>>, <<"t1", 801>> >>, <<>>, << <<12, 801, Lanes, 1>> >>, <<>>)

beq_no_take == Test(
  <<addi("t0", "zero", 9), addi("t1", "zero", 801), S("beq", 5, 6, 8),
    addi("t2", "zero", 17), addi("t3", "zero", 34)>>,
  << <<"zero", 0>>, <<"zero", 0>>, <<"t0", 9, "t1", 801>>, <<"zero", 0>>, <<"zero", 0>> >>,
  << <<"t0", 9>>, <<"t1", 801>>, <<"t2", 17>>, <<"t3", 34>> >>, <<>>, <<>>, <<>>)

beq_take == Test(
  <<addi("t0", "zero", 9), addi("t1", "zero", 9), S("beq", 5, 6, 8),
    addi("t2", "zero", 17), addi("t3", "zero", 34)>>,
  << <<"zero", 0>>, <<"zero", 0>>, <<"t0", 9, "t1", 9>>, <<"zero", 0>> >>,
  << <<"t0", 9>>, <<"t1", 9>>, <<"t3", 34>> >>, <<>>, <<>>, <<>>)

jal == Test(<<I("jal", 6, 0, 8), addi("t2", "zero", 17), addi("t3", "zero", 34)>>,
  << <<"zero", 0>> >>, << <<"t1", 4>>, <<"t3", 34>> >>, <<>>, <<>>, <<>>)

jalr == Test(<<addi("t0", "zero", 3), I("jalr", 6, 5, 9), addi("t2", "zero", 17),
               addi("t3", "zero", 34)>>,
  << <<"zero", 0>>, <<"t0", 3>>, <<"zero", 0>> >>,
  << <<"t0", 3>>, <<"t1", 8>>, <<"t3", 34>> >>, <<>>, <<>>, <<>>)

auipc == Test(<<addi("zero", "zero", 0), U("auipc", 6, 8)>>,
  << <<"zero", 0>> >>, << <<"zero", 0>>, <<"t1", 32772>> >>, <<>>, <<>>, <<>>)

UnitTestList == <<lui, addi_test, add, lw, lh, sw, beq_no_take, beq_take, jal, jalr, auipc>>

----------------------------------------------------------------------------
\* The instructions of all the tests, in a row.
UnitListing == FlattenSeq([k \in DOMAIN UnitTestList |-> UnitTestList[k].instructions])

UnitAsm == LET listing == UnitListing
           IN  <<>> @@ [w \in {Step * n : n \in DOMAIN listing} |-> listing[w \div Step]]

UnitSlice == <<>> @@ [w \in DOMAIN UnitAsm |-> Encode(UnitAsm[w])]

Map(F(_), list) == [n \in DOMAIN list |-> F(list[n])]

\* run_unit_test: test k, compiled and parsed.
SelfChecking(k) ==
  LET t == UnitTestList[k]
      start == Len(FlattenSeq([j \in 1..(k - 1) |-> UnitTestList[j].instructions]))
      elf == ".text" :> Text([n \in DOMAIN t.instructions |-> start + n])
  IN  [instruction_memory |-> compile_instructions(elf),
       data_memory |-> parse_data_memory(t.data_memory),
       enable_self_checking |-> TRUE,
       expected |-> [regfile_read  |-> Map(RegFileRead_from_string, t.regfile_read),
                     regfile_write |-> Map(RegFileWrite_from_string, t.regfile_write),
                     bus_dr |-> Map(BusRead_from_string, t.data_read),
                     bus_dw |-> Map(BusWrite_from_string, t.data_write)]]

----------------------------------------------------------------------------
(* The constants of the run.                                               *)

MCPowerUpMems == {[r \in RegAddr |-> IF r = 0 THEN 48879 ELSE 7 * r]}

MCAsm   == LET table == UnitAsm IN table
MCSlice == LET table == UnitSlice IN table

MCTests == {SelfChecking(k) : k \in DOMAIN UnitTestList}

=============================================================================
