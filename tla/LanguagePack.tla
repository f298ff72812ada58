---------------------------- MODULE LanguagePack ----------------------------
(***************************************************************************)
(* Loading a language pack (pedagogy/packs.py, pedagogy/models.py).        *)
(*                                                                         *)
(* A pack directory is a record of what its files say: language, one of    *)
(* "ok" and "broken"; tokenizer; and the level and scenario files in       *)
(* filename order.  A level file is [code, words, l1] where words is the   *)
(* set in the wordlist it names; a scenario file is [id, target].  A file  *)
(* that is unreadable, lacks a field, has a value of the wrong kind or     *)
(* names a wordlist that is not there is Broken: whatever it raises,       *)
(* there is no pack.                                                       *)
(***************************************************************************)
EXTENDS Integers, Sequences, SequencesExt

CONSTANTS Broken,   \* stands for a file that cannot be read
          NoPack    \* the result of a load that raises

(* A dict keeps the last value written to a key: of the files with these   *)
(* keys, the one that k stands for.                                        *)
LastWith(keys, k) == Max({i \in DOMAIN keys : keys[i] = k})

(* Mutant: each level has the words of its own list. *)
CeilingOwn(files, i) == files[i].words

(* cumulative_vocab when the i-th file is reached. *)
CeilingUpTo(files, i) == UNION {files[k].words : k \in 1..i}

(* _load_levels.  Two files with one code are one level, the later one. *)
Levels(files) ==
  LET codes == [i \in DOMAIN files |-> files[i].code]
      level(i) == [code |-> codes[i], vocabularyCeiling |-> CeilingUpTo(files, i),
                   l1 |-> files[i].l1]
  IN  [c \in ToSet(codes) |-> level(LastWith(codes, c))]

(* _load_scenarios. *)
Scenarios(files) ==
  LET ids == [i \in DOMAIN files |-> files[i].id]
  IN  [s \in ToSet(ids) |-> files[LastWith(ids, s)]]

Readable(files) == files # <<>> /\ Broken \notin ToSet(files)

(* load_pack. *)
LoadPack(dir) ==
  IF dir.language = "ok" /\ Readable(dir.levels) /\ Readable(dir.scenarios)
  THEN [tokenizer |-> dir.tokenizer,
        levels    |-> Levels(dir.levels),
        scenarios |-> Scenarios(dir.scenarios)]
  ELSE NoPack

=============================================================================
