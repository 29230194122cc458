---------------------------- MODULE ScenarioMatrix ----------------------------
(***************************************************************************)
(* The test methods of class TestOutput in test/test.py, one row each, in *)
(* the order of the source: the method name, what kind of check it is,    *)
(* the drampower command it runs and the reference file it compares with. *)
(* Memspec and trace paths are kept as atoms; a name that carries numbers *)
(* (Rho, Sigma, PASR mode) is a tuple of its words and numbers.           *)
(***************************************************************************)
EXTENDS Naturals, Sequences, FiniteSets

Cmd(mem, mode, trace, opts) ==
    [mem |-> mem, mode |-> mode, trace |-> trace, opts |-> opts]

\* ['./drampower'] without arguments.
NoArgs == [mem |-> "", mode |-> "", trace |-> "", opts |-> <<>>]

Row(name, kind, cmd, ref) == [name |-> name, kind |-> kind, cmd |-> cmd, ref |-> ref]

\* A golden method whose reference file is named after the method.
Named(name, kind, cmd) == Row(<<name>>, kind, cmd, <<name>>)

DDR3_G_3s == "MICRON_1Gb_DDR3-1600_8bit_G_3s"
DDR3_G == "MICRON_1Gb_DDR3-1600_8bit_G"
LPDDR2 == "MICRON_2Gb_LPDDR2-1066-S4_16bit_A"
LPDDR3 == "MICRON_4Gb_LPDDR3-1333_32bit_A"
Jpeg == "traces/mediabench-jpegencode.trace"
LPDDR2Gz == "test/data/LPDDR2-1066.commands.trace.gz"

\* test_..._bankwise_Rho_<r>: -b <bRho>, compared with ..._Rho_<refRho>_reference.out
RhoRow(nameRho, bRho, refRho) ==
    Row(<<"test_MICRON_1Gb_DDR3_1600_8bit_G_3s_bankwise_Rho", nameRho>>, "golden",
        Cmd(DDR3_G_3s, "-t", Jpeg, <<"-b", <<bRho>>>>),
        <<"test_MICRON_1Gb_DDR3_1600_8bit_G_3s_bankwise_Rho", refRho, "reference">>)

\* Mutant: the Sigma 75 / mode 7 method compares with the Sigma 50 file.
PasrRowCopyPaste(nSigma, nMode, bSigma, mode, rSigma, rMode) ==
    Row(<<"test_MICRON_1Gb_DDR3_1600_8bit_G_3s_Sigma", nSigma, "pasr", nMode>>, "golden",
        Cmd(DDR3_G, "-c", "test/data/PASR.commands.trace",
            <<"-b", <<100, bSigma>>, "-pasr", mode>>),
        <<"test_MICRON_1Gb_DDR3-1600_8bit_G_Sigma",
          IF <<nSigma, nMode>> = <<75, 7>> THEN 50 ELSE rSigma, "pasr", rMode, "reference">>)

\* test_..._Sigma_<s>_pasr_<m>: -b 100,<bSigma> -pasr <mode>, compared with
\* ..._G_Sigma_<rSigma>_pasr_<rMode>_reference.out
PasrRow(nSigma, nMode, bSigma, mode, rSigma, rMode) ==
    Row(<<"test_MICRON_1Gb_DDR3_1600_8bit_G_3s_Sigma", nSigma, "pasr", nMode>>, "golden",
        Cmd(DDR3_G, "-c", "test/data/PASR.commands.trace",
            <<"-b", <<100, bSigma>>, "-pasr", mode>>),
        <<"test_MICRON_1Gb_DDR3-1600_8bit_G_Sigma", rSigma, "pasr", rMode, "reference">>)

TestOutputRows == <<
    Named("test_commands_trace_output_matches_reference", "golden",
          Cmd("MICRON_1Gb_DDR2-1066_16bit_H", "-c", "traces/commands.trace", <<>>)),
    Row(<<"test_no_arguments_error">>, "noArgs", NoArgs, <<>>),
    Named("test_LPDDR2_1066_matches_reference", "goldenGz",
          Cmd(LPDDR2, "-c", LPDDR2Gz, <<>>)),
    Named("test_LPDDR2_1066_short_matches_reference", "golden",
          Cmd(LPDDR2, "-c", "test/data/LPDDR2-1066_short.commands.trace", <<>>)),
    Named("test_LPDDR2_1066_termination_matches_reference", "goldenGz",
          Cmd(LPDDR2, "-c", LPDDR2Gz, <<"-r">>)),
    Named("test_transaction_scheduler", "golden", Cmd(LPDDR3, "-t", Jpeg, <<>>)),
    Named("test_transaction_scheduler_with_self_refresh", "golden",
          Cmd(LPDDR3, "-t", Jpeg, <<"-p", 2>>)),
    Named("test_MICRON_1Gb_DDR3_1600_8bit_G_3s_bankwise_refresh", "golden",
          Cmd("modified_MICRON_1Gb_DDR3-1600_8bit_G_3s", "-c",
              "test/data/REFB.commands.trace", <<>>)),
    RhoRow(25, 25, 25), RhoRow(50, 50, 50), RhoRow(75, 75, 75), RhoRow(100, 100, 100),
    PasrRow(25, 0, 25, 0, 25, 0), PasrRow(50, 0, 50, 0, 50, 0),
    PasrRow(75, 0, 75, 0, 75, 0), PasrRow(100, 0, 100, 0, 100, 0),
    PasrRow(25, 1, 25, 1, 25, 1), PasrRow(50, 1, 50, 1, 50, 1),
    PasrRow(75, 1, 75, 1, 75, 1), PasrRow(100, 1, 100, 1, 100, 1),
    PasrRow(25, 2, 25, 2, 25, 2), PasrRow(50, 2, 50, 2, 50, 2),
    PasrRow(75, 2, 75, 2, 75, 2), PasrRow(100, 2, 100, 2, 100, 2),
    PasrRow(25, 3, 25, 3, 25, 3), PasrRow(50, 3, 50, 3, 50, 3),
    PasrRow(75, 3, 75, 3, 75, 3), PasrRow(100, 3, 100, 3, 100, 3),
    PasrRow(25, 4, 25, 4, 25, 4), PasrRow(50, 4, 50, 4, 50, 4),
    PasrRow(75, 4, 75, 4, 75, 4), PasrRow(100, 4, 100, 4, 100, 4),
    PasrRow(25, 5, 25, 5, 25, 5), PasrRow(50, 5, 50, 5, 50, 5),
    PasrRow(75, 5, 75, 5, 75, 5), PasrRow(100, 5, 100, 5, 100, 5),
    PasrRow(25, 6, 25, 6, 25, 6), PasrRow(50, 6, 50, 6, 50, 6),
    PasrRow(75, 6, 75, 6, 75, 6), PasrRow(100, 6, 100, 6, 100, 6),
    PasrRow(25, 7, 25, 7, 25, 7), PasrRow(50, 7, 50, 7, 50, 7),
    PasrRow(75, 7, 75, 7, 75, 7), PasrRow(100, 7, 100, 7, 100, 7),
    Row(<<"test_broken_trace">>, "broken",
        Cmd("MICRON_1Gb_DDR2-800_16bit_H", "-c", "test/data/warnings.trace", <<>>), <<>>)
  >>

-----------------------------------------------------------------------------
(* The matrix of the spec (Scenario Matrix, items a to f) and the command *)
(* each reference file was generated with: a file named after a method    *)
(* holds that method's output, a Rho or Sigma/PASR file the output of the *)
(* command its name describes.                                            *)

RhoRatios == {25, 50, 75, 100}
SigmaRatios == {25, 50, 75, 100}
PasrModes == 0..7

RhoCmd(r) == Cmd(DDR3_G_3s, "-t", Jpeg, <<"-b", <<r>>>>)
PasrCmd(s, m) ==
    Cmd(DDR3_G, "-c", "test/data/PASR.commands.trace", <<"-b", <<100, s>>, "-pasr", m>>)

SpecGolden ==
    { Cmd("MICRON_1Gb_DDR2-1066_16bit_H", "-c", "traces/commands.trace", <<>>),
      Cmd(LPDDR2, "-c", LPDDR2Gz, <<>>),
      Cmd(LPDDR2, "-c", LPDDR2Gz, <<"-r">>),
      Cmd(LPDDR2, "-c", "test/data/LPDDR2-1066_short.commands.trace", <<>>),
      Cmd(LPDDR3, "-t", Jpeg, <<>>),
      Cmd(LPDDR3, "-t", Jpeg, <<"-p", 2>>) }
    \cup { RhoCmd(r) : r \in RhoRatios }
    \cup { PasrCmd(s, m) : s \in SigmaRatios, m \in PasrModes }

GeneratedBy(ref) ==
    CASE Len(ref) = 3 -> RhoCmd(ref[2])
      [] Len(ref) = 5 -> PasrCmd(ref[2], ref[4])
      [] OTHER -> (CHOOSE r \in {TestOutputRows[i] : i \in DOMAIN TestOutputRows} :
                      r.name = ref).cmd
=============================================================================
