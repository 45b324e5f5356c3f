---------------------------- MODULE MCIngestion -----------------------------
(* Values of the constants of Ingestion for the model checker: a document  *)
(* with a blank page, a spreadsheet with an empty line and a row of empty  *)
(* cells, a file without extractor and a recording that cannot be read.    *)
EXTENDS Ingestion

FourJobs == {"menu", "prices", "exe", "voice"}
Suffix == [j \in FourJobs |-> CASE j = "menu" -> "pdf" [] j = "prices" -> "csv"
                                [] j = "exe" -> "other" [] j = "voice" -> "media"]
Content == [j \in FourJobs |-> CASE j = "menu" -> <<"text", "blank", "text">>
                                 [] j = "prices" -> <<"blank", "text", "cells">>
                                 [] OTHER -> <<>>]
=============================================================================
