------------------------------ MODULE ImageLoad ------------------------------
(* From an ELF file to an enclave's pages: host/sgx/loadelf.c reads the image *)
(* and the module it depends on and links them, host/sgx/create.c lays out    *)
(* and measures the pages (sgxload.c, common/sgx/sgxmeasure.c), and the       *)
(* enclave finds its relocations, heap and thread data from what was patched  *)
(* into the image (enclave/core/sgx/globals.c, reloc.c, threadlocal.c).       *)
(*                                                                           *)
(* A file is a record: segments in file order, sections, symbols by name. An  *)
(* address counts relocation records, PageSize of them to a page. A           *)
(* measurement is the sequence of what is hashed. Memory allocation succeeds, *)
(* and files are well-formed ELF whose header names a supported machine.      *)
EXTENDS Results, Integers, Sequences, FiniteSetsExt, SequencesExt

CONSTANTS
  PageSize,        \* OE_PAGE_SIZE, in relocation records
  MaxTcs,          \* OE_SGX_MAX_TCS
  SigningAddress   \* the phony base address of an enclave that is only measured

ASSUME ImageAssumption ==
  PageSize \in Nat \ {0} /\ MaxTcs \in Nat /\ SigningAddress \in Nat \ {0}

RoundUp(n, m) == ((n + m - 1) \div m) * m

RoundDown(n) == (n \div PageSize) * PageSize

Pages(n) == n * PageSize

\* Sizes here are below 2^30.
oe_round_u64_to_pow2(n) == 2 ^ Min({k \in 0 .. 30 : 2 ^ k >= n})

-----------------------------------------------------------------------------
(* Reading an image.                                                         *)

End(segment) == segment.vaddr + segment.memsz

_initialize_image_segments(f) ==
  FirstError(<<
    <<\A s \in ToSet(f.segments) \cup ToSet(f.tls) : s.filesz <= s.memsz, "OE_INVALID_IMAGE">>,
    <<\E s \in ToSet(f.segments) : s.vaddr = 0, "OE_INVALID_IMAGE">>,
    <<\E s \in ToSet(f.segments) : End(s) # 0, "OE_INVALID_IMAGE">>>>)

ImageSize(f) == RoundUp(Max({End(s) : s \in ToSet(f.segments)}), PageSize)

ApartInBytes(s, next) == End(s) <= next.vaddr

\* A segment ends before the page the next one begins in.
Apart(s, next) == End(s) <= RoundDown(next.vaddr)

\* The thread-local segment is checked when its header is met, the order of
\* the loadable segments after all headers.
_stage_image_segments(f) ==
  LET Tls(h) == <<<<f.tdata.rva \in {h.vaddr, 0}, "OE_INVALID_IMAGE">>,
                  <<f.tdata.size = h.filesz, "OE_INVALID_IMAGE">>>>
      Pair(i) == LET s == f.segments[i]  next == f.segments[i + 1]
                 IN  <<<<s.vaddr < next.vaddr, "OE_UNEXPECTED">>,
                       <<Apart(s, next), "OE_INVALID_IMAGE">>>>
  IN  FirstError(FlattenSeq([i \in DOMAIN f.tls |-> Tls(f.tls[i])])
                 \o FlattenSeq([i \in 1 .. Len(f.segments) - 1 |-> Pair(i)]))

Symbolic == {"GLOB_DAT", "JUMP_SLOT", "64"}

\* Without a .rela.dyn section the records of .rela.plt are not loaded either.
\* A thread-local record takes its symbol's offset as addend.
elf64_load_relocations(f) ==
  IF f.dyn = <<>> THEN <<>>
  ELSE [i \in 1 .. Len(f.dyn \o f.plt) |->
          LET r == (f.dyn \o f.plt)[i]
          IN  IF r.type = "TPOFF64" THEN [r EXCEPT !.addend = f.symbols[r.sym].value] ELSE r]

_load_elf_image(f, rva) ==
  LET res == FirstError(<<
        <<Ok(_initialize_image_segments(f)), _initialize_image_segments(f)>>,
        <<Ok(_stage_image_segments(f)), _stage_image_segments(f)>>,
        <<\A r \in ToSet(f.dyn \o f.plt) : r.type \in Symbolic \cup {"RELATIVE", "TPOFF64"},
          "OE_INVALID_IMAGE">>>>)
  IN  IF Ok(res)
      THEN [res |-> res, file |-> f, rva |-> rva, size |-> ImageSize(f),
            relocs |-> elf64_load_relocations(f)]
      ELSE [res |-> res]

\* The modules an image needs: at most one, beside the enclave's file.
_find_dependent_image(f) ==
  FirstError(<<<<~f.rpath /\ Len(f.needed) <= 1, "OE_UNSUPPORTED_ENCLAVE_IMAGE">>,
               <<\A i \in DOMAIN f.needed : f.needed[i].present, "OE_NOT_FOUND">>>>)

-----------------------------------------------------------------------------
(* Linking.                                                                  *)

Defines(image, name) ==
  name \in DOMAIN image.file.symbols /\ image.file.symbols[name].defined

\* Every symbolic record becomes a relative one, to the symbol's definition in
\* the image itself or else in the other; an unresolved weak one keeps its
\* addend.
Linked(image, other, r) ==
  LET moved == [r EXCEPT !.offset = @ + image.rva]
      in == IF Defines(image, r.sym) THEN image ELSE other
      addend == IF r.type = "64" THEN r.addend ELSE 0
  IN  CASE r.type \in Symbolic /\ Defines(in, r.sym) ->
             [moved EXCEPT !.type = "RELATIVE",
                           !.addend = in.rva + in.file.symbols[r.sym].value + addend]
        [] r.type \in Symbolic /\ ~Defines(in, r.sym) -> [moved EXCEPT !.type = "RELATIVE"]
        [] r.type = "RELATIVE" -> [moved EXCEPT !.addend = @ + image.rva]
        [] OTHER -> moved

_link_elf_image(image, other) ==
  [image EXCEPT !.relocs = [i \in DOMAIN @ |-> Linked(image, other, @[i])]]

\* A symbol that neither image defines and that is not weak.
Missing(image, other) ==
  \E r \in ToSet(image.relocs) :
    /\ r.type \in Symbolic
    /\ ~Defines(image, r.sym) /\ ~Defines(other, r.sym)
    /\ ~image.file.symbols[r.sym].weak

\* One relative record for each supported pointer of the dynamic section.
_add_dynamic_section_relocations(module) ==
  LET d == module.file.dynamic
      kept == SetToSortSeq({i \in DOMAIN d.entries : d.entries[i].tag # "other"}, <)
  IN  [module EXCEPT !.relocs = @ \o [k \in DOMAIN kept |->
         [offset |-> module.rva + d.rva + kept[k] - 1, type |-> "RELATIVE", sym |-> "",
          addend |-> module.rva + d.entries[kept[k]].ptr]]]

ZeroRecord == [offset |-> 0, type |-> "NONE", sym |-> "", addend |-> 0]

\* The module's records follow the image's without a gap, then zeros fill the page.
_merge_and_pad_relocations(relocs) ==
  [i \in 1 .. RoundUp(Len(relocs), PageSize) |->
     IF i <= Len(relocs) THEN relocs[i] ELSE ZeroRecord]

oe_load_elf_enclave_image(f) ==
  LET elf == _load_elf_image(f, 0)
      found == _find_dependent_image(f)
      module == _load_elf_image(f.needed[1], elf.size)
      checks == <<<<f.entry # 0, "OE_UNSUPPORTED_ENCLAVE_IMAGE">>,
                  <<f.oeinfo # 0, "OE_UNSUPPORTED_ENCLAVE_IMAGE">>>>
  IN  IF ~Ok(elf.res) THEN [res |-> elf.res]
      ELSE IF ~Ok(found) THEN [res |-> found]
      ELSE IF f.needed = <<>>
      THEN [res |-> FirstError(checks), elf |-> elf, submodule |-> <<>>,
            relocs |-> _merge_and_pad_relocations(elf.relocs)]
      ELSE IF ~Ok(module.res) THEN [res |-> module.res]
      ELSE LET a == _link_elf_image(elf, module)
               b == _add_dynamic_section_relocations(_link_elf_image(module, elf))
           IN  [res |-> FirstError(<<
                  <<~Missing(elf, module) /\ ~Missing(module, elf), "OE_UNSUPPORTED_ENCLAVE_IMAGE">>,
                  <<Len(b.relocs) > Len(module.relocs), "OE_INVALID_IMAGE">>>> \o checks),
                elf |-> a, submodule |-> <<b>>,
                relocs |-> _merge_and_pad_relocations(a.relocs \o b.relocs)]

-----------------------------------------------------------------------------
(* Laying out the enclave.                                                   *)

ModuleSize(image) == IF image.submodule = <<>> THEN 0 ELSE image.submodule[1].size

_calculate_size(image) == image.elf.size + Len(image.relocs) + ModuleSize(image)

_get_tls_page_count(image) ==
  LET f == image.elf.file
  IN  RoundUp((IF f.tdata.size = 0 THEN 0 ELSE RoundUp(f.tdata.size, f.tdata.align))
              + (IF f.tbss.size = 0 THEN 0 ELSE RoundUp(f.tbss.size, f.tbss.align)),
              PageSize) \div PageSize

\* The stack has two guard pages; four control pages and one of thread data.
_calculate_enclave_size(image, props) ==
  _calculate_size(image) + Pages(props.heap)
  + props.tcs * Pages((1 + props.stack + 1) + _get_tls_page_count(image) + (4 + 1))

\* What is patched into the image before its pages are added; thread-local
\* sizes and alignments keep their initial values where a section is empty.
_patch_elf_image(image, enclaveSize) ==
  LET f == image.elf.file
      reloc == image.elf.size + ModuleSize(image)
      Section(s) == IF s.size = 0 THEN [size |-> 0, align |-> 1]
                    ELSE [size |-> s.size, align |-> s.align]
  IN  [enclave_size |-> enclaveSize, enclave_rva |-> f.symbols["_enclave_rva"].value,
       reloc_rva |-> reloc, reloc_size |-> Len(image.relocs),
       heap_rva |-> reloc + Len(image.relocs),
       tdata_rva |-> IF f.tdata.size = 0 THEN 0 ELSE f.tdata.rva,
       tdata |-> Section(f.tdata), tbss |-> Section(f.tbss),
       td_from_tcs |-> Pages(_get_tls_page_count(image) + 4)]

Page(rva, flags, extend, kind, at) ==
  [rva |-> rva, flags |-> flags, extend |-> extend, content |-> <<kind>> \o at]

Filled(rva, n, filler, extend) ==
  [k \in 1 .. n |-> Page(rva + Pages(k - 1), {"R", "W"}, extend, filler, <<>>)]

_add_segment_pages(image, name, vaddr) ==
  FlattenSeq([i \in DOMAIN image.file.segments |->
    LET s == image.file.segments[i]
        first == RoundDown(s.vaddr)
        n == IF first < End(s) THEN RoundUp(End(s) - first, PageSize) \div PageSize ELSE 0
    IN  [k \in 1 .. n |->
           Page(vaddr + first + Pages(k - 1), s.flags, TRUE, name, <<first + Pages(k - 1)>>)]])

_add_relocation_pages(image, vaddr) ==
  [k \in 1 .. Len(image.relocs) \div PageSize |->
     Page(vaddr + Pages(k - 1), {"R"}, TRUE, "relocs",
          SubSeq(image.relocs, Pages(k - 1) + 1, Pages(k)))]

_add_pages(image) ==
  _add_segment_pages(image.elf, "image", 0)
  \o FlattenSeq([i \in DOMAIN image.submodule |->
                   _add_segment_pages(image.submodule[i], "module", image.elf.size)])
  \o _add_relocation_pages(image, image.elf.size + ModuleSize(image))

\* A thread control structure: its page, two of saved state, a guard page, the
\* thread-local storage and the thread data, which FS and GS point to.
_add_control_pages(entry, tls, vaddr, offset) ==
  <<Page(vaddr, {"TCS"}, TRUE, "tcs",
         <<offset + vaddr + Pages(1), offset + entry, offset + vaddr + Pages(tls + 4)>>)>>
  \o Filled(vaddr + Pages(1), 2, "zero", TRUE)
  \o Filled(vaddr + Pages(4), tls + 1, "zero", TRUE)

\* The heap, and for each thread control structure a guard page, its stack and
\* another guard page.
TcsAt(props, tls, vaddr, i) ==
  vaddr + Pages(props.heap) + (i - 1) * Pages(props.stack + tls + 7) + Pages(1 + props.stack + 1)

_add_data_pages(props, entry, tls, vaddr, offset) ==
  Filled(vaddr, props.heap, "zero", FALSE)
  \o FlattenSeq([i \in 1 .. props.tcs |->
       Filled(TcsAt(props, tls, vaddr, i) - Pages(props.stack + 1), props.stack, "fill", TRUE)
       \o _add_control_pages(entry, tls, TcsAt(props, tls, vaddr, i), offset)])

-----------------------------------------------------------------------------
(* Building it: for the signing tool, which only measures, or for real.       *)

oe_sgx_validate_enclave_properties(props) ==
  FirstError(<<<<props.tcs <= MaxTcs, "OE_FAILURE">>,
               <<props.zeroBase => props.start # 0 /\ props.start % PageSize = 0, "OE_FAILURE">>,
               <<props.kss \/ ~props.extendedIds, "OE_FAILURE">>>>)

\* Whether the enclave is a debug one.
Debug(context, props) == context.debug \/ (context.debugAuto /\ props.debug)

\* The address and the size of the range the enclave is created in.
oe_sgx_create_enclave(context, props, size, commit) ==
  LET measure == context.type = "measure"
      addr == IF measure THEN SigningAddress ELSE context.placed
  IN  [res |-> FirstError(<<
         <<commit # 0 /\ size >= commit, "OE_INVALID_PARAMETER">>,
         <<props.start % PageSize = 0, "OE_INVALID_PARAMETER">>,
         <<measure \/ context.simulate \/ (props.zeroBase => addr = props.start),
           "OE_PLATFORM_ERROR">>>>),
       addr |-> addr,
       range |-> IF props.zeroBase THEN oe_round_u64_to_pow2(commit + props.start) ELSE size]

\* oe_sgx_measure_load_enclave_data: pages are measured at their distance from
\* the base of the range, with their contents where they are extended.
Measured(pages, offset) ==
  [i \in DOMAIN pages |->
     [pages[i] EXCEPT !.rva = @ + offset,
                      !.content = IF pages[i].extend THEN @ ELSE <<>>]]

\* A signed enclave's own signature counts; an unsigned one is signed with the
\* debug key, for a debug enclave only. The processor compares.
oe_sgx_initialize_enclave(context, debug, signature, hash) ==
  IF context.type = "measure" \/ context.simulate THEN "OE_OK"
  ELSE FirstError(<<<<signature # <<>> \/ debug, "OE_FAILURE">>,
                    <<signature \in {<<>>, <<hash>>}, "OE_PLATFORM_ERROR">>>>)

oe_sgx_build_enclave(context, f, props) ==
  LET image == oe_load_elf_enclave_image(f)
      tls == _get_tls_page_count(image)
      commit == _calculate_enclave_size(image, props)
      size == oe_round_u64_to_pow2(commit)
      debug == Debug(context, props)
      created == oe_sgx_create_enclave(context, props, size, commit)
      base == IF props.zeroBase THEN 0 ELSE created.addr
      info == _patch_elf_image(image, size)
      flagged == \A m \in {image.elf} \cup ToSet(image.submodule) :
                   \A s \in ToSet(m.file.segments) : s.flags # {}
      data == info.heap_rva
      pages == _add_pages(image)
               \o _add_data_pages(props, f.entry, tls, data, created.addr - base)
      hash == [range |-> created.range, pages |-> Measured(pages, created.addr - base),
               info |-> info, props |-> [props EXCEPT !.signature = <<>>]]
      checks == FirstError(<<
        <<Ok(oe_sgx_validate_enclave_properties(props)), "OE_FAILURE">>,
        <<debug => props.debug, "OE_DEBUG_DOWNGRADE">>,
        <<~(context.simulate /\ props.zeroBase), "OE_INVALID_PARAMETER">>,
        <<props.kss /\ context.type = "create" => context.cpuKss, "OE_UNSUPPORTED">>,
        <<context.configId => context.cpuKss \/ context.ignoreConfig, "OE_UNSUPPORTED">>,
        <<Ok(created.res), created.res>>,
        <<flagged, "OE_UNEXPECTED">>,
        <<Ok(oe_sgx_initialize_enclave(context, debug, props.signature, hash)),
          oe_sgx_initialize_enclave(context, debug, props.signature, hash)>>>>)
  IN  IF ~Ok(image.res) THEN [res |-> "OE_FAILURE"]
      ELSE IF ~Ok(checks) THEN [res |-> checks]
      ELSE [res |-> "OE_OK", start |-> created.addr, base |-> base, size |-> size,
            commit |-> commit, pages |-> pages, info |-> info, image |-> image, hash |-> hash,
            bindings |-> [i \in 1 .. props.tcs |-> TcsAt(props, tls, data, i)]]

-----------------------------------------------------------------------------
(* Inside the enclave.                                                       *)

__oe_get_enclave_start_address(e) ==
  e.start + e.image.elf.file.symbols["_enclave_rva"].value - e.info.enclave_rva

\* The records in the relocation pages, up to the first without an offset.
Records(e) ==
  LET all == FlattenSeq([k \in 1 .. e.info.reloc_size \div PageSize |->
               Tail((CHOOSE p \in ToSet(e.pages) :
                       p.rva = e.info.reloc_rva + Pages(k - 1)).content)])
      blank == {i \in DOMAIN all : all[i].offset = 0}
  IN  IF blank = {} THEN all ELSE SubSeq(all, 1, Min(blank) - 1)

oe_apply_relocations(e) ==
  LET r == Records(e)
      start == __oe_get_enclave_start_address(e)
  IN  [i \in {i \in DOMAIN r : r[i].type = "RELATIVE" /\ r[i].addend # 0} |->
         [dest |-> start + r[i].offset, value |-> start + r[i].addend]]

\* Both sections are aligned to the larger alignment below FS; -1 stands for
\* oe_abort, FS itself for no thread-local data.
_get_thread_local_data_start(info, fs) ==
  LET a == info.tdata.align  b == info.tbss.align
      larger == Max({a, b})  smaller == Min({a, b})
  IN  IF info.tdata.size = 0 /\ info.tbss.size = 0 THEN fs
      ELSE IF larger % smaller # 0 \/ oe_round_u64_to_pow2(larger) # larger THEN -1
      ELSE fs - RoundUp(info.tbss.size, larger) - RoundUp(info.tdata.size, larger)

\* The thread-local variables' offsets from FS.
oe_thread_local_init(e, fs) ==
  LET r == Records(e)
      start == _get_thread_local_data_start(e.info, fs)
  IN  [i \in {i \in DOMAIN r : start # fs /\ r[i].type = "TPOFF64"} |->
         [dest |-> __oe_get_enclave_start_address(e) + r[i].offset,
          value |-> start + r[i].addend - fs]]

\* _check_memory_boundaries, for an enclave that begins at its start address.
_check_memory_boundaries(e, props) ==
  LET Within(a, n) == a >= 0 /\ a + (IF n = 0 THEN 1 ELSE n) <= e.info.enclave_size
  IN  /\ Within(e.info.reloc_rva, e.info.reloc_size)
      /\ Within(e.info.heap_rva, Pages(props.heap))
      /\ props.zeroBase => props.start = __oe_get_enclave_start_address(e)

=============================================================================
