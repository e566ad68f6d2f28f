------------------------------- MODULE MCJournal -------------------------------
(***************************************************************************)
(* An instance of Journal for TLC, with two players and two requests at a  *)
(* time.  Scenarios of shares and pins have ids enough for an original and *)
(* two clones of it, an NPC linked to it both ways and a pin on it; those  *)
(* of images a second entry or a clone, and two keys.                      *)
(***************************************************************************)
EXTENDS Journal, TLC

CONSTANTS p, q, l1, l2, l3, n1, n2, x1, x2, x3, k1, k2

Nothing(S) == [s \in S |-> None]

OfP(link, image, open) ==
    [owner |-> p, link |-> link, image |-> image, from |-> None, open |-> open]

Empty == Nothing(Ids)
Alone == [Empty EXCEPT ![l1] = OfP(None, k1, TRUE)]
Linked == [Empty EXCEPT ![l1] = OfP(n1, k1, TRUE), ![n1] = OfP(l1, None, FALSE)]

NoPins == Nothing(PinIds)
OnePin == [NoPins EXCEPT ![x1] = [owner |-> p, entity |-> l1, from |-> None]]

Present(docs, S) == {s \in S : docs[s] # None}

With(e, x, ops) ==
    [entries |-> e, pins |-> x, objects |-> {k1, k2},
     used |-> Present(e, Ids) \cup Present(x, PinIds), serves |-> ops]

ShareScenarios ==
    { With(Linked, OnePin, {"share", "share_pin"}),
      With(Linked, OnePin, {"share", "share_clones"}),
      With(Linked, OnePin, {"share", "abort"}),
      With(Linked, OnePin, {"share_pin", "delete", "unpin"}),
      With(Linked, OnePin, {"pin", "visibility", "delete", "abort"}),
      With(Alone, OnePin, {"share", "delete"}) }

\* A second entry without an image or with one, and an image that is still to
\* be uploaded.  Ids but those of S have been used.
Two == [Alone EXCEPT ![l2] = OfP(None, None, FALSE)]
Pictured == [Linked EXCEPT ![n1] = OfP(l1, k2, FALSE)]
Spare(S, s) == [s EXCEPT !.used = (Ids \cup PinIds) \ S]
ToUpload(s) == [s EXCEPT !.objects = {k1}]

ImageScenarios ==
    { Spare({l2}, With(Alone, NoPins, {"create", "image"})),
      ToUpload(Spare({l2}, With(Alone, NoPins, {"create", "image"}))),
      ToUpload(Spare({l2}, With(Alone, NoPins, {"create", "upload"}))),
      ToUpload(With(Two, NoPins, {"upload", "image", "delete", "abort"})),
      With(Two, NoPins, {"image", "elsewhere"}),
      Spare({l2, n2, x2}, With(Pictured, OnePin, {"image", "share_pin"})),
      Spare({l2}, With(Alone, NoPins, {"image", "share", "abort"})),
      Spare({l2}, With(Alone, NoPins, {"image", "share_clones"})) }

AllScenarios == ShareScenarios \cup ImageScenarios

HandlersAlike == Permutations(Handlers)
=============================================================================
