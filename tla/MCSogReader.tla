----------------------------- MODULE MCSogReader -----------------------------
(* A small container in both layouts, without and with a palette, every    *)
(* field of its document and every plane broken in each of the ways the    *)
(* code tells apart, and files that are replaced while they are read.      *)
EXTENDS SogReader, TLC

Null      == JsonValue
Num(half) == [JsonValue EXCEPT !.type = "number", !.number = half]
Str(text) == [JsonValue EXCEPT !.type = "string", !.text = text]
Arr(items) == [JsonValue EXCEPT !.type = "array", !.items = items]
Obj(fields) ==
  [JsonValue EXCEPT !.type = "object",
     !.members = [n \in DOMAIN fields |-> [name |-> fields[n][1], value |-> fields[n][2]]]]
Nums(length) == Arr([n \in 1 .. length |-> Num(n)])
Names(first, last) == Arr([n \in 1 .. last - first + 1 |-> Str(<<96 + first + n - 1>>)])

(* Planes a .. e, and f and g of the palette.                              *)
Fields ==
  [version |-> Num(4), count |-> Num(4),
   means   |-> [mins |-> Nums(3), maxs |-> Nums(3), files |-> Names(1, 2)],
   scales  |-> [codebook |-> Nums(2), files |-> Names(3, 3)],
   quats   |-> [files |-> Names(4, 4)],
   sh0     |-> [codebook |-> Nums(2), files |-> Names(5, 5)]]
ShN == [bands |-> Num(2), count |-> Num(4), codebook |-> Nums(2),
        files |-> Names(6, 7)]

Order == <<"version", "count", "means", "scales", "quats", "sh0", "shN">>
Inner == <<"mins", "maxs", "bands", "count", "codebook", "files">>
Pick(order, record) == SelectSeq(order, LAMBDA key : key \in DOMAIN record)
ObjOf(order, record) ==
  LET keys == Pick(order, record)
  IN  Obj([n \in DOMAIN keys |-> <<keys[n], record[keys[n]]>>])
Nested(record) ==
  [key \in DOMAIN record |->
     IF key \in {"version", "count"} \/ "type" \in DOMAIN record[key]
     THEN record[key] ELSE ObjOf(Inner, record[key])]
Root0(record) == ObjOf(Order, Nested(record))
WithShN(record) == record @@ [shN |-> ShN]

(* ---- Files ------------------------------------------------------------- *)

Base(size) == [opens |-> TRUE, size |-> size, zip |-> FALSE, brace |-> FALSE,
               json |-> Nothing, archive |-> Nothing, image |-> Nothing]
Gone == [Base(0) EXCEPT !.opens = FALSE]
Json(root, size) == [Base(size) EXCEPT !.brace = TRUE, !.json = <<root>>]
Img(width, height) ==
  [lossless |-> TRUE, width |-> width, height |-> height, intact |-> TRUE]
Plane(size, width, height) == [Base(size) EXCEPT !.image = <<Img(width, height)>>]

Letter(n) == <<96 + n>>
Sizes == <<<<2, 2, 1>>, <<3, 1, 2>>, <<2, 3, 1>>, <<1, 2, 2>>, <<2, 2, 1>>,
           <<4, 6, 1>>, <<2, 1, 2>>>>

Meta(root) == Json(root, 8)

(* ---- Documents with something wrong in them ---------------------------- *)

Texts == {<<>>, <<46>>, <<46, 46>>, <<47, 97>>, <<97, 92>>, <<99, 58>>, <<31>>,
          <<110, 117, 108>>, <<78, 85, 76, 32, 46, 119>>, <<99, 111, 109, 49, 46>>,
          <<99, 111, 109, 48>>, <<110, 117, 108, 108>>, <<97, 97, 97, 97, 97, 97, 97>>}
Without(record, key) == [k \in DOMAIN record \ {key} |-> record[k]]

BadFields(fields) ==
  {Without(fields, key) : key \in DOMAIN fields}
  \cup {[fields EXCEPT ![key] = Null] : key \in DOMAIN fields}
  \cup {[fields EXCEPT !.version = Num(n)] : n \in {2, 5, 6}}
  \cup {[fields EXCEPT !.count = Num(n)] : n \in {-2, 0, 2, 5, 6, 8, 10, 14}}
  \cup {[fields EXCEPT !.means.mins = v] : v \in {Null, Nums(2), Arr(<<Null, Num(1), Num(1)>>)}}
  \cup {[fields EXCEPT !.means.maxs = v] : v \in {Nums(4), Arr(<<Num(1), Num(99), Num(1)>>)}}
  \cup {[fields EXCEPT !.means.files = v] : v \in {Names(1, 1), Names(1, 3)}}
  \cup {[fields EXCEPT !.scales.codebook = v] : v \in {Nums(1), Null}}
  \cup {[fields EXCEPT !.sh0.codebook = v] : v \in {Nums(3), Arr(<<Num(1), Num(-99)>>)}}
  \cup {[fields EXCEPT !.quats.files = v] : v \in {Null, Arr(<<Null>>), Names(3, 3)}}
  \cup {[fields EXCEPT !.sh0.files = Arr(<<Str(text)>>)] : text \in Texts}
BadShN(shN) ==
  {[shN EXCEPT !.bands = v] : v \in {Null, Num(0), Num(3), Num(4), Num(8)}}
  \cup {[shN EXCEPT !.count = v] : v \in {Null, Num(-2), Num(0), Num(3), Num(6), Num(14)}}
  \cup {[shN EXCEPT !.codebook = Nums(1)], Without(shN, "files")}
  \cup {[shN EXCEPT !.files = v] : v \in {Names(6, 6), Names(7, 7), Names(5, 6)}}

BadDocuments(fields, shN) ==
  {Root0(f) : f \in BadFields(fields)
                    \cup {fields @@ [shN |-> v] : v \in BadShN(shN) \cup {Num(2), Null}}}

(* ---- Worlds without an archive: a document, the planes beside it ------- *)

OtherPrimaries(doc) ==
  {Gone, Base(0), Base(3), [Base(8) EXCEPT !.brace = TRUE], Meta(Arr(<<doc>>))}
  \cup {[Base(s) EXCEPT !.zip = TRUE] : s \in {8, 30}}
  \cup {Json(doc, s) : s \in {10, 11, 12, 13, 30}}

BadPlanes(plane) ==
  {[plane EXCEPT !.image[1].lossless = FALSE], [plane EXCEPT !.image[1].intact = FALSE],
   Gone, Base(0), Base(2)}
  \cup {Plane(2, w[1], w[2]) :
          w \in {<<0, 2>>, <<2, 0>>, <<1, 1>>, <<7, 1>>, <<8, 1>>, <<1, 8>>,
                 <<3, 3>>, <<4, 2>>}}
  \cup {[plane EXCEPT !.size = s] : s \in {32, 33}}
BadPalettes ==
  {Plane(4, w[1], w[2]) : w \in {<<5, 1>>, <<7, 1>>, <<1, 6>>, <<2, 1>>}} \cup {Base(4)}

Unbundled(doc, doc1, bad, images) ==
  {<<Meta(root), images>> : root \in {doc, doc1} \cup bad}
  \cup {<<v, images>> : v \in OtherPrimaries(doc)}
  \cup {<<Meta(w[1]), [images EXCEPT ![w[2]] = w[3]]>> :
          w \in {<<doc, n, f>> : n \in {1, 5}, f \in BadPlanes(images[3])}
                \cup {<<doc1, 6, f>> : f \in BadPalettes}
                \cup {<<doc1, 7, f>> : f \in {Plane(2, 1, 1), Gone}}}

(* ---- Archives ---------------------------------------------------------- *)

EntryOf(name, f) ==
  [name |-> name, directory |-> FALSE, readable |-> TRUE, intact |-> TRUE, file |-> f]
Folder == [EntryOf(<<120>>, Base(0)) EXCEPT !.directory = TRUE]
Zip(size, entries) == [Base(size) EXCEPT !.zip = TRUE, !.archive = <<entries>>]

Entries(root, images) ==
  <<EntryOf(kMetaEntryName, Json(root, 6))>>
  \o [n \in 1 .. 7 |-> EntryOf(Letter(n), images[n])]

(* Of a document without a palette, and of one with it.                    *)
Archives(e, e1) ==
  {Zip(s, e1) : s \in {16, 20, 21}}
  \cup {Zip(16, entries) : entries \in
         {e, SubSeq(e1, 2, 8), SubSeq(e1, 1, 7), SubSeq(e, 1, 6), SubSeq(e, 1, 5),
          SubSeq(e, 1, 6) \o <<[e[4] EXCEPT !.file = e[5].file]>>,
          [e EXCEPT ![3].file = Base(0), ![3].intact = FALSE],
          [e EXCEPT ![1].file.size = 13]}
         \cup {folders \o e : folders \in {<<Folder>>, <<Folder, Folder>>}}
         \cup {SubSeq(e, 1, 6) \o <<[e[7] EXCEPT !.file = Base(s)]>> : s \in {24, 30, 33}}
         \cup {[e EXCEPT ![n].readable = FALSE] : n \in {1, 6}}
         \cup {[e EXCEPT ![n].intact = FALSE] : n \in {1, 4}}}

(* ---- What is replaced -------------------------------------------------- *)

(* Worlds in which it happens: either layout, with and without a palette.  *)
Edited(doc, doc1, e1, images) ==
  {<<v, images>> : v \in {Meta(doc), Meta(doc1), Zip(16, e1)}}
(* The entries of an archive whose fifth plane is another file.            *)
Repacked(doc, e) == [e EXCEPT ![1].file = Json(doc, 6), ![6].name = Letter(8)]
(* A document for three Gaussians, one that is too large, and archives.    *)
Grown(doc, larger, repacked, e1) ==
  {Meta(larger), Json(doc, 13), Zip(16, repacked), Zip(21, e1)}
(* A larger image, a file that has gone, and one that has grown too large. *)
Replaced == {<<1, Plane(5, 3, 1)>>, <<5, Gone>>, <<5, Plane(33, 1, 2)>>}

(* ---- The files by number ----------------------------------------------- *)

InSequence(S) == FoldSet(LAMBDA f, numbered : Append(numbered, f), <<>>, S)
Position(files, f) == CHOOSE n \in DOMAIN files : files[n] = f
World(files, w, count) ==
  [file   |-> Position(files, w[1]),
   beside |-> [name \in {Letter(n) : n \in 1 .. 7} |-> Position(files, w[2][name[1] - 96])],
   edits  |-> count]
Numbered(files, still, edited, grown) ==
  [files      |-> files,
   worlds     |-> {World(files, w, 0) : w \in still} \cup {World(files, w, 3) : w \in edited},
   primaries  |-> {Position(files, v) : v \in grown},
   companions |-> {<<Letter(r[1]), Position(files, r[2])>> : r \in Replaced}]
Listed(still, edited, grown) ==
  Numbered(InSequence(UNION {{w[1]} \cup Range(w[2]) : w \in still \cup edited}
                      \cup grown \cup {r[2] : r \in Replaced}),
           still, edited, grown)

(* Every intermediate list is the argument of an operator, and made once.  *)
Of(doc, doc1, larger, renamed, bad, images, e, e1) ==
  Listed(Unbundled(doc, doc1, bad, images) \cup {<<v, images>> : v \in Archives(e, e1)},
         Edited(doc, doc1, e1, images), Grown(doc, larger, Repacked(renamed, e), e1))
Packed(doc, doc1, larger, renamed, bad, images) ==
  Of(doc, doc1, larger, renamed, bad, images, Entries(doc, images), Entries(doc1, images))
From(fields, full) ==
  Packed(Root0(fields), Root0(full), Root0([full EXCEPT !.count = Num(6)]),
         Root0([fields EXCEPT !.sh0.files = Names(8, 8)]),
         BadDocuments(fields, full.shN),
         [n \in 1 .. 7 |-> Plane(Sizes[n][1], Sizes[n][2], Sizes[n][3])])
Catalog == From(Fields, WithShN(Fields))

MCFiles == Catalog.files
MCWorlds == Catalog.worlds
MCEditPrimaries == Catalog.primaries
MCEditCompanions == Catalog.companions
=============================================================================
