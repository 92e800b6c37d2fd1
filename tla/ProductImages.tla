---------------------------- MODULE ProductImages ----------------------------
(***************************************************************************)
(* The images of products (ProductImagesService): rows in the database and *)
(* files on the disk (LocalDiskImageStorageService), which no transaction  *)
(* covers together.  A request may stop for good after any of its steps,   *)
(* and a transaction may commit without its request being told.            *)
(*                                                                         *)
(* Transactions run at READ COMMITTED and lock nothing that they read, so  *)
(* that others come between what a request reads and what it writes.       *)
(***************************************************************************)
EXTENDS Records

CONSTANTS
  Images,      \* identifiers of images, never reused, and the paths of their files
  Uploads      \* requests at work on images

ASSUME ImagesAssumption == IsFiniteSet(Images)

VARIABLES
  images,     \* rows of images
  files,      \* the images whose file is on the disk
  used,       \* the identifiers given out
  upload,     \* what each request has read, and has still to do
  unanswered  \* ghost: images of which the row was committed and nobody told

imageVars == <<images, files, used, upload, unanswered>>

NoImage == [product |-> NoRecord, primary |-> FALSE, order |-> 0]
Positions  == 0..1
NoUpload == [step |-> "idle", image |-> NoImage, id |-> {}]

ImagesInit ==
  /\ images = [i \in Images |-> NoImage]
  /\ files = {}
  /\ used = {}
  /\ upload = [q \in Uploads |-> NoUpload]
  /\ unanswered = {}

Has(i) == images[i] # NoImage
ImagesOf(p) == {i \in Images : images[i].product = p}

\* product_images_one_primary_per_product
OnePrimary(table, p) ==
  Cardinality({i \in Images : table[i].product = p /\ table[i].primary}) <= 1

Advance(q, step, image, id) == upload' = [upload EXCEPT ![q] = [step |-> step, image |-> image, id |-> id]]

Forget(q) == upload' = [upload EXCEPT ![q] = NoUpload]

-----------------------------------------------------------------------------
(* addImage: the file is written before the row. *)

SaveFile(q, p, i, order) ==
  /\ upload[q] = NoUpload
  /\ Exists(p)
  /\ i \notin used
  /\ files' = files \cup {i}
  /\ used' = used \cup {i}
  /\ Advance(q, "insert", [product |-> p, primary |-> FALSE, order |-> order], {i})
  /\ UNCHANGED <<images, unanswered>>

\* The first image of a product is the primary one: the rows are counted ...
CountImages(q) ==
  LET image == upload[q].image
  IN  /\ upload[q].step = "insert"
      /\ Advance(q, "counted", [image EXCEPT !.primary = ImagesOf(image.product) = {}], upload[q].id)
      /\ UNCHANGED <<images, files, used, unanswered>>

\* Mutated form: no index refuses a second primary image.
InsertUnchecked(q) ==
  /\ upload[q].step = "counted"
  /\ images' = [i \in Images |-> IF i \in upload[q].id THEN upload[q].image ELSE images[i]]
  /\ UNCHANGED <<files, used>>

\* ... and the row inserted, unless the index refuses a second primary image.
InsertRow(q) ==
  LET added == [i \in Images |-> IF i \in upload[q].id THEN upload[q].image ELSE images[i]]
  IN  /\ upload[q].step = "counted"
      /\ OnePrimary(added, upload[q].image.product)
      /\ images' = added
      /\ UNCHANGED <<files, used>>

InsertImage(q) ==
  /\ InsertRow(q)
  /\ Forget(q)
  /\ UNCHANGED unanswered

\* The catch: what fails has been rolled back, and its file is deleted; ...
InsertFails(q) ==
  /\ upload[q].step \in {"insert", "counted"}
  /\ Advance(q, "delete", NoImage, upload[q].id)
  /\ UNCHANGED <<images, files, used, unanswered>>

\* ... but so is that of a row which was committed, if the answer is lost.
CommitUnanswered(q) ==
  /\ InsertRow(q)
  /\ Advance(q, "delete", NoImage, upload[q].id)
  /\ unanswered' = unanswered \cup upload[q].id

-----------------------------------------------------------------------------
(* setPrimaryImage *)

\* findOwnedImage, which removeImage begins with as well.
ReadImage(q, step, i) ==
  /\ upload[q] = NoUpload
  /\ Has(i)
  /\ step = "promote" => ~images[i].primary
  /\ Advance(q, step, images[i], {i})
  /\ UNCHANGED <<images, files, used, unanswered>>

\* Whatever image of the product is the primary one by now is no longer.
SetPrimary(q) ==
  \E i \in upload[q].id :
    /\ upload[q].step = "promote"
    /\ Has(i)
    /\ images' = [j \in Images |->
         IF j \in ImagesOf(images[i].product) THEN [images[j] EXCEPT !.primary = j = i] ELSE images[j]]
    /\ Forget(q)
    /\ UNCHANGED <<files, used, unanswered>>

-----------------------------------------------------------------------------
(* removeImage: the row is deleted before the file. *)

\* the first of the others, by order
NextPrimary(i) ==
  LET others == ImagesOf(images[i].product) \ {i}
  IN  {j \in others : \A k \in others : images[j].order <= images[k].order}

Without(i, next) ==
  [j \in Images |->
     IF j = i THEN NoImage ELSE IF j = next THEN [images[j] EXCEPT !.primary = TRUE] ELSE images[j]]

\* A row that was primary when it was read leaves its place to another, unless
\* the index refuses it; a row that has become primary since leaves none.
RemoveRow(q) ==
  \E i \in upload[q].id :
    /\ upload[q].step = "remove"
    /\ Has(i)
    /\ \/ /\ upload[q].image.primary
          /\ \E next \in NextPrimary(i) : images' = Without(i, next)
          /\ OnePrimary(images', images[i].product)
       \/ /\ upload[q].image.primary => NextPrimary(i) = {}
          /\ images' = Without(i, i)
    /\ Advance(q, "delete", NoImage, {i})
    /\ UNCHANGED <<files, used, unanswered>>

-----------------------------------------------------------------------------
\* imageStorage.delete: a file that is not there is no error.
DeleteFile(q) ==
  /\ upload[q].step = "delete"
  /\ files' = files \ upload[q].id
  /\ Forget(q)
  /\ UNCHANGED <<images, used, unanswered>>

\* The process stops, the transaction is refused, or the disk fails: what the
\* request has not done is not done, and a file that it wrote stays.
Stop(q) ==
  /\ upload[q] # NoUpload
  /\ Forget(q)
  /\ UNCHANGED <<images, files, used, unanswered>>

ImageStep ==
  \E q \in Uploads :
    \/ \E p \in Products, i \in Images, order \in Positions : SaveFile(q, p, i, order)
    \/ CountImages(q) \/ InsertImage(q) \/ InsertFails(q) \/ CommitUnanswered(q)
    \/ \E step \in {"promote", "remove"}, i \in Images : ReadImage(q, step, i)
    \/ SetPrimary(q) \/ RemoveRow(q) \/ DeleteFile(q) \/ Stop(q)

ImagesSpec == ImagesInit /\ [][ImageStep]_imageVars

\* openImageFile: the row must be the product's, and its file be there.
Opens(i, p) == images[i].product = p /\ i \in files

-----------------------------------------------------------------------------
(* Properties *)

\* Every image that is listed can be opened: its file is written before its row
\* and deleted after it, wherever a request stops and whatever others do to the
\* same image.  Only the file of a row whose commit was not answered may be
\* deleted before it.  And a product has at most one primary image.
ImagesStand ==
  /\ \A i \in Images \ unanswered : Has(i) => Opens(i, images[i].product)
  /\ \A p \in Products : OnePrimary(images, p)
=============================================================================
