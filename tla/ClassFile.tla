----------------------------- MODULE ClassFile -----------------------------
(* The class file parser of cf_parse.c where the order of its steps matters: *)
(* the constant pool, whose constants refer to each other forwards and       *)
(* backwards and are parsed in five passes, and the bytecode, whose branches *)
(* and tables name bytes and come to name instructions.                      *)
EXTENDS Integers, Sequences, SequencesExt, Functions

CONSTANTS
  Files,  \* the class files: records of
          \*   pool: the constants, without the places after long and double
          \*   num_constants: the places of the pool that the file announces
          \*   code: the instructions of a method; traps, lines: its tables
  None

VARIABLES
  file,        \* the file that is parsed
  phase,       \* the loop that is running, or "done" or "error"
  i,           \* its counter
  pos,         \* the position in the file: the next constant, or the next byte of the code
  constants,   \* the types and the values of the places of the pool
  insns,       \* the instructions found, with their targets
  offset_map,  \* offset_map[b]: the number of the instruction at byte b, or 0
  traps, linemaps

filevars == <<file, phase, i, pos, constants, insns, offset_map, traps, linemaps>>

-----------------------------------------------------------------------------
(* The format of class files *)

Refs == {"Fieldref", "Methodref", "InterfaceMethodref"}
Double == {"Long", "Double"}

\* The bytes of an instruction at a byte: a switch is aligned to four bytes.
Bytes(insn, at) ==
  CASE insn.kind = "plain" -> 1
    [] insn.kind \in {"byte", "ldc"} -> 2
    [] insn.kind \in {"word", "branch", "iinc"} -> 3
    [] insn.kind \in {"wide", "multianewarray"} -> 4
    [] insn.kind \in {"branch_w", "invokeinterface"} -> 5
    [] insn.kind = "wide iinc" -> 6
    [] insn.kind = "lookupswitch" -> 1 + (3 - (at % 4)) + 8 + 8 * (Len(insn.targets) - 1)
    [] insn.kind = "tableswitch" -> 1 + (3 - (at % 4)) + 12 + 4 * (Len(insn.targets) - 1)
Starts(code) == FoldLeft(LAMBDA starts, k : Append(starts, starts[k] + Bytes(code[k], starts[k])), <<0>>,
                         [k \in DOMAIN code |-> k])
code_length == Last(Starts(file.code))

-----------------------------------------------------------------------------
(* The constant pool *)

Passes == <<"scan", "utf8", "names", "pairs", "rest", "code">>
Following(p) == Passes[SelectInSeq(Passes, LAMBDA q : q = p) + 1]
Parsed == [utf8 |-> {"Utf8"}, names |-> {"Class", "String"}, pairs |-> {"NameAndType"},
           rest |-> Refs \cup Double \cup {"Integer", "Float"}]

\* _jc_parse_cpool_index
Index(n, types) ==
  IF n \in 1 .. file.num_constants - 1 /\ constants[n].type \in types THEN constants[n] ELSE None

\* _jc_parse_constant: the texts of a constant, or None.
Texts(c, at) ==
  LET One(type, n) == IF Index(n, {type}) = None THEN <<None>> ELSE Index(n, {type}).texts
      all == CASE c.type \in {"Class", "String"} -> One("Utf8", c.refs[1])
               [] c.type = "NameAndType" -> One("Utf8", c.refs[1]) \o One("Utf8", c.refs[2])
               [] c.type \in Refs -> One("Class", c.refs[1]) \o One("NameAndType", c.refs[2])
               [] OTHER -> <<at>>
  IN  IF None \in ToSet(all) THEN None ELSE all

Fail == phase' = "error" /\ UNCHANGED <<i, pos, constants, insns, offset_map, traps, linemaps>>
InCode == <<insns, offset_map, traps, linemaps>>

\* The first pass finds the types.
ScanPool ==
  /\ phase = "scan" /\ i < file.num_constants
  /\ LET c == file.pool[pos]
     IN  IF pos > Len(file.pool) \/ (c.type \in Double /\ i + 1 >= file.num_constants) THEN Fail
         ELSE /\ constants' = [constants EXCEPT ![i].type = c.type]
              /\ i' = i + (IF c.type \in Double THEN 2 ELSE 1)
              /\ pos' = pos + 1
              /\ UNCHANGED <<phase, InCode>>

\* Each of the others parses the constants of some types, and scans the rest.
ParsePool ==
  /\ phase \in DOMAIN Parsed /\ i < file.num_constants
  /\ LET c == file.pool[pos]
         mine == constants[i].type \in Parsed[phase]
     IN  IF mine /\ Texts(c, pos) = None THEN Fail
         ELSE /\ constants' = IF mine THEN [constants EXCEPT ![i].texts = Texts(c, pos)] ELSE constants
              /\ i' = i + (IF constants[i].type \in Double THEN 2 ELSE 1)
              /\ pos' = pos + 1
              /\ UNCHANGED <<phase, InCode>>

NextPass ==
  /\ phase \in {"scan"} \cup DOMAIN Parsed /\ i >= file.num_constants
  /\ phase' = Following(phase)
  /\ i' = 1
  /\ pos' = IF phase = "rest" THEN 0 ELSE 1
  /\ UNCHANGED <<constants, InCode>>

-----------------------------------------------------------------------------
(* The bytecode *)

\* What the parser reads of an instruction after its opcode, for the kinds without padding.
Fields ==
  [plain |-> <<>>, byte |-> <<1>>, ldc |-> <<1>>, word |-> <<2>>, branch |-> <<2>>, iinc |-> <<1, 1>>,
   multianewarray |-> <<2, 1>>, branch_w |-> <<4>>, invokeinterface |-> <<2, 1, 1>>]
Wide == [x \in {"wide", "wide iinc"} |-> IF x = "wide" THEN <<1, 2>> ELSE <<1, 2, 2>>]

\* Mutant: off by one byte.
PadNext(p) == 3 - (p % 4)

\* A switch has padding, the default target, its size in one word or two, and targets.
Pad(p) == 3 - ((p + 3) % 4)
lookupswitch(insn, p) == <<Pad(p), 4, 4>> \o [k \in 1 .. 2 * (Len(insn.targets) - 1) |-> 4]
tableswitch(insn, p) == <<Pad(p), 4, 4, 4>> \o [k \in 1 .. Len(insn.targets) - 1 |-> 4]

ReadBy(insn, p) ==
  CASE insn.kind \in DOMAIN Fields -> Fields[insn.kind]
    [] insn.kind \in DOMAIN Wide -> Wide[insn.kind]
    [] insn.kind = "lookupswitch" -> lookupswitch(insn, p)
    [] OTHER -> tableswitch(insn, p)

\* _jc_parse_bytecode, one instruction of its first loop; "wrong" stands for an opcode or an
\* operand that it refuses.
ParseInstruction ==
  /\ phase = "code" /\ pos < code_length
  /\ LET at == SelectInSeq(Starts(file.code), LAMBDA s : s = pos)
         insn == file.code[at]
     IN  IF at = 0 \/ insn.wrong THEN Fail
         ELSE /\ offset_map' = [offset_map EXCEPT ![pos] = Len(insns)]
              /\ insns' = Append(insns, [targets |-> insn.targets])
              /\ pos' = pos + 1 + FoldLeft(+, 0, ReadBy(insn, pos + 1))
              /\ UNCHANGED <<phase, i, constants, traps, linemaps>>

EndOfCode ==
  /\ phase = "code" /\ pos >= code_length
  /\ phase' = "targets" /\ i' = 1
  /\ UNCHANGED <<pos, constants, InCode>>

\* _jc_map_offset: byte 0 is the first instruction, and 0 in the map says no other.
_jc_map_offset(target) ==
  IF target = 0 THEN 0
  ELSE IF target \notin DOMAIN offset_map \/ offset_map[target] = 0 THEN None
  ELSE offset_map[target]

\* The second loop of _jc_parse_bytecode.
MapTargets ==
  /\ phase = "targets" /\ i <= Len(insns)
  /\ LET mapped == [k \in DOMAIN insns[i].targets |-> _jc_map_offset(insns[i].targets[k])]
     IN  IF None \in Range(mapped) THEN Fail
         ELSE /\ insns' = [insns EXCEPT ![i].targets = mapped]
              /\ i' = i + 1
              /\ UNCHANGED <<phase, pos, constants, offset_map, traps, linemaps>>

\* _jc_parse_code: the traps, whose end may be the end of the code.
MapTrap ==
  /\ phase = "targets" /\ i > Len(insns) /\ Len(traps) < Len(file.traps)
  /\ LET trap == file.traps[Len(traps) + 1]
         mapped == [start |-> _jc_map_offset(trap.start),
                    end |-> IF trap.end = code_length THEN Len(insns) ELSE _jc_map_offset(trap.end),
                    target |-> _jc_map_offset(trap.target)]
     IN  IF None \in Range(mapped) \/ mapped.end <= mapped.start THEN Fail
         ELSE traps' = Append(traps, mapped) /\ UNCHANGED <<phase, i, pos, constants, insns, offset_map, linemaps>>

\* _jc_parse_code: the line numbers.
MapLines ==
  /\ phase = "targets" /\ i > Len(insns) /\ Len(traps) = Len(file.traps)
  /\ LET mapped == [k \in DOMAIN file.lines |-> _jc_map_offset(file.lines[k])]
     IN  IF None \in Range(mapped) THEN Fail
         ELSE linemaps' = mapped /\ phase' = "done" /\ UNCHANGED <<i, pos, constants, insns, offset_map, traps>>

Init ==
  /\ file \in Files
  /\ phase = "scan" /\ i = 1 /\ pos = 1
  /\ constants = [n \in 1 .. file.num_constants - 1 |-> [type |-> None, texts |-> <<None>>]]
  /\ insns = <<>> /\ traps = <<>> /\ linemaps = <<>>
  /\ offset_map = [b \in 0 .. code_length - 1 |-> 0]

Next ==
  /\ UNCHANGED file
  /\ ScanPool \/ ParsePool \/ NextPass \/ ParseInstruction \/ EndOfCode \/ MapTargets \/ MapTrap \/ MapLines

Spec == Init /\ [][Next]_filevars

-----------------------------------------------------------------------------
(* Properties *)

\* The constant at a place of the pool, by the format: long and double take two places.
Places == FoldLeft(LAMBDA places, k : places \o (IF file.pool[k].type \in Double THEN <<k, 0>> ELSE <<k>>), <<>>,
                   [k \in DOMAIN file.pool |-> k])
ConstantAt(n) == IF n \in DOMAIN Places /\ n < file.num_constants THEN Places[n] ELSE 0
TypeAt(n) == IF ConstantAt(n) = 0 THEN None ELSE file.pool[ConstantAt(n)].type

\* What a constant refers to has the right type.
RefersWell(c) ==
  CASE c.type \in {"Class", "String"} -> TypeAt(c.refs[1]) = "Utf8"
    [] c.type = "NameAndType" -> TypeAt(c.refs[1]) = "Utf8" /\ TypeAt(c.refs[2]) = "Utf8"
    [] c.type \in Refs -> TypeAt(c.refs[1]) = "Class" /\ TypeAt(c.refs[2]) = "NameAndType"
    [] OTHER -> TRUE

\* The texts that a constant leads to.
LeadsTo[k \in DOMAIN file.pool] ==
  IF file.pool[k].type \in {"Class", "String", "NameAndType"} \cup Refs
  THEN FlattenSeq([r \in DOMAIN file.pool[k].refs |-> LeadsTo[ConstantAt(file.pool[k].refs[r])]])
  ELSE <<k>>

\* The number of the instruction that starts at a byte, by the format.
Numbered(b) == SelectInSeq(Starts(file.code), LAMBDA s : s = b) - 1
Instruction(b) == Numbered(b) \in 0 .. Len(file.code) - 1

Jumps == UNION {ToSet(file.code[k].targets) : k \in DOMAIN file.code}
WellFormed ==
  /\ Len(Places) >= file.num_constants - 1
  /\ file.num_constants > 1 => Places[file.num_constants - 1] = 0 \/ TypeAt(file.num_constants - 1) \notin Double
  /\ \A n \in 1 .. file.num_constants - 1 : ConstantAt(n) # 0 => RefersWell(file.pool[ConstantAt(n)])
  /\ \A k \in DOMAIN file.code : ~file.code[k].wrong
  /\ \A b \in Jumps \cup ToSet(file.lines) : b = 0 \/ Instruction(b)
  /\ \A k \in DOMAIN file.traps :
       LET trap == file.traps[k]
       IN  /\ trap.start = 0 \/ Instruction(trap.start)
           /\ trap.target = 0 \/ Instruction(trap.target)
           /\ trap.end = code_length \/ trap.end = 0 \/ Instruction(trap.end)
           /\ trap.start < trap.end

\* A file that is well formed is parsed and another one is refused.  When it has been
\* parsed, every constant has the texts that its references lead to, wherever they are in
\* the pool; every branch, trap and line number names the instruction that starts at the
\* byte it named, and a trap covers the instructions of the bytes it covered.
ParsedAsWritten ==
  /\ phase = "error" => ~WellFormed
  /\ phase = "done" =>
       /\ WellFormed
       /\ \A n \in DOMAIN constants : ConstantAt(n) # 0 => constants[n].texts = LeadsTo[ConstantAt(n)]
       /\ Len(insns) = Len(file.code)
       /\ \A k \in DOMAIN insns : insns[k].targets = [t \in DOMAIN file.code[k].targets |-> Numbered(file.code[k].targets[t])]
       /\ \A k \in DOMAIN traps :
            {n \in DOMAIN file.code : n - 1 \in traps[k].start .. traps[k].end - 1}
              = {n \in DOMAIN file.code : Starts(file.code)[n] \in file.traps[k].start .. file.traps[k].end - 1}
       /\ linemaps = [k \in DOMAIN file.lines |-> Numbered(file.lines[k])]
=============================================================================
