-------------------------- MODULE MCMarkdownImport --------------------------
EXTENDS MarkdownImport, SequencesExt

CONSTANT MaxEntries

MCNames == {"A", "a", "b", "README", "readme", "zh"}
MCSlug == [x \in MCNames |-> CASE x \in {"A", "a"} -> "a"
                               [] x \in {"README", "readme"} -> "readme"
                               [] x = "b" -> "b"
                               [] x = "zh" -> AutoSlug]

E(dir, stem, kind) == [dir |-> dir, stem |-> stem, kind |-> kind]

\* A.md, a.md, a/README.md, a/README/b.md, a/readme.md, a/zh/b.md, A/b.md's picture
\* and a.png, as the import sorts them.
Sorted == << E(<<>>, "A", "page"), E(<<>>, "a", "page"),
             E(<<"a">>, "README", "readme"), E(<<"a", "README">>, "b", "page"), E(<<"a">>, "readme", "readme"),
             E(<<"a", "zh">>, "b", "page"),
             E(<<"A">>, "b", "asset"), E(<<>>, "a", "asset") >>

Chosen(S) == LET order == SetToSortSeq(S, <) IN [k \in 1 .. Len(order) |-> Sorted[order[k]]]
\* At most MaxEntries entries, with an illegal one among them or without; and one of
\* three, a directory with a page of its name, a README and a subdirectory.
Some(k) == {T \in SUBSET (1 .. Len(Sorted)) : Cardinality(T) <= k}
Three == {2, 3, 6}
MCZips == UNION {{[entries |-> Chosen(T), illegal |-> i] : T \in Some(MaxEntries - i)} : i \in 0 .. 1}
          \cup {[entries |-> Chosen(Three), illegal |-> 0]}
=============================================================================
